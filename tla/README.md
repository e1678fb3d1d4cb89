# Formal models of deniz-cloud

TLA+ models of the stateful parts of this repository, TLC configurations that
check them on small instances, and TLAPS proofs of the central properties for
every instance. Paths below are relative to `src/`, and `shared/`, `admin-api/`,
`storage-api/` stand for the packages' `src` directories.

## 1. The system and its parts

deniz-cloud is a private cloud on one host: a Bun/Hono monorepo with an admin
API, a storage API, shared libraries, two React applications and shell scripts.
The APIs keep their state in one Postgres control database (Drizzle), in files
on an SSD and an HDD, and in external engines: Meilisearch, MongoDB, project
Postgres databases, Redis. Each API is one process with one event loop:
concurrency is the interleaving of asynchronous handlers at their `await`s,
plus the engines and other database clients that run on their own. The same
holds of a page in a browser, whose handlers go on when their calls are answered.

| Part | State | Operations | What is hard | What makes it correct |
|---|---|---|---|---|
| **Postgres outbox sync** (`shared/sync/worker.ts`, `pg-outbox.ts`, `services/collections.ts`, `admin-api/routes/projects.ts`) | row per collection (enabled, status, cursor, last sync), outbox and trigger in the project database, index, timers and abort controllers | create, pause, resume, resync, delete; initial sync; poll; restart | a poll is a chain of six awaited calls to three systems; requests and crashes fall between them; ids are assigned before commit | no change lost, no stale document, outbox trimmed only after use, an enabled collection is served |
| **MongoDB sync** (`shared/sync/worker.ts`) | resume token, change stream, buffer and flush timer | initial find, watch, buffer, flush, reconnect | the gap between find and watch, the token saved before the flush, overlapping flushes | a key whose change is not on its way shows its document |
| **Task scheduler** (`admin-api/scheduler.ts`, `routes/tasks.ts`, `shared/services/tasks.ts`) | task rows, run rows, cron objects, set of active runs | create, edit, delete, run now, cron fires, poll of one-off tasks, restart | a run uses the task row read at its start; polls overlap; crashes leave runs open | at most one run at a time, every run closed, a one-off runs once, cron objects mirror the rows |
| **Resumable uploads** (`storage-api/routes/uploads.ts`, `cleanup.ts`) | upload rows, temporary files, final files, file rows | create, chunk, cancel, finalize, hourly cleanup | finalize is nine steps over disk and database; chunks, cancel and cleanup overlap with it | content is what was sent, a listed file exists on disk, no file of another upload is touched |
| **Folders and files** (`storage-api/routes/folders.ts`, `files.ts`, `shared/search/storage.ts`) | folder and file rows with whole paths, disk, search documents | create, rename, move, delete, reindex | path rewriting of subtrees, disk rename and transaction are two steps, the index follows in unawaited promises | path equals location, disk mirrors rows, documents are current |
| **S3 store** (`storage-api/s3`) | object data and metadata files, buckets, multipart parts | put, get, copy, delete, buckets, multipart | data and metadata are separate files; parts are written in place | what was answered is on the disk |
| **Accounts** (`shared/services/auth.ts`, `storage-api/routes/auth.ts`, pages of `storage-ui`) | users, TOTP secrets, recovery codes, sessions; what a browser shows | sign up, log in, set up, verify, recover, reset | check-then-act on single-use codes, a secret replaced during verification, a reset in three statements | a code lets one login through, nobody is locked out by half a setup |
| **Project databases and keys** (`admin-api/routes/projects.ts`, `project-databases.ts`, `project-vector-indexes.ts`) | rows, roles, databases, Redis users, search keys, triggers, indexes, followed collections | create, provision, collect, switch, drop, delete | several systems changed one after another without a transaction | a stored credential works, a listed collection is served, limits hold |
| **Storage interface** (`storage-ui`) | cache of listings with a TTL, requests in flight, upload list, dialogs | navigate, create, rename, delete, upload, search, share | listings and changes overlap; requests outlive the page that made them | the person sees her own changes, loading ends |
| **Administration interface** (`admin-ui`) | lists, dialogs, selections, results, captured values | the pages of projects, databases and tasks over the admin API | answers come in any order to handlers that captured old state | lists show own changes, a key is readable once, a result belongs to its selection |
| **Rate limiter, executors, terminal, proxy, scripts** | time stamps; backup files; none | – | – | not modelled (section 7) |

The admin API owns one `SyncWorker` and the scheduler (`admin-api/index.ts`
starts both and stops them on shutdown). Routes write the control database and
then call the worker or scheduler, so the rows and the in-memory registries are
two views that have to agree; the storage API does the same with rows and disk,
and the interfaces with what the server has and what they show.

## 2. Modules and plan

| Module | Models | State |
|---|---|---|
| `PgOutboxSync` (+ `...Proofs`) | outbox sync, admin operations on a collection | checked, proved |
| `TaskScheduler` | tasks, runs, cron objects, polls, startup | checked, proved in `StoreAndTaskProofs` |
| `Uploads` (+ `...Proofs`) | uploads, cleanup, deletions on the disk | checked, proved |
| `Replica` | abstract promise of a sync: a key nothing is under way for shows its source | refined by `MongoSync` |
| `MongoSync` (+ `...Proofs`) | initial copy, change stream, buffer, flush, resume token, reconnect | checked, proved to refine `Replica` |
| `StorageTree` (+ `...Proofs`) | folders and files in rows, on the disk and in the search index | checked, proved |
| `ObjectStore` | objects, buckets and multipart uploads, call of the file system by call | checked, proved in `StoreAndTaskProofs` |
| `Accounts` (+ `...Proofs`) | second factor and recovery codes, on the server and in the pages | checked, proved |
| `Provisioning` (+ `...Proofs`) | one project over four stores, request by request | checked, proved |
| `FileBrowser` | the storage interface with its cache | checked |
| `AdminApi` | calls of a page, answered in any order | used by the next four |
| `AdminProjects`, `ProjectDialogs`, `DatabasePanels`, `TasksPage` | three pages of the administration and two dialogs | checked in `AdminUi` |
| `AdminUi` (+ `...Proofs`) | the router that shows one of them | checked, proved |

Each `MC...` module gives values to the constants and the symmetry of the model
values. What is left of the plan: `RateLimit` (the bound of the sliding window,
with a proof), `Retention` (which backups are kept), the listing of objects as an
operator against a reference definition, a refinement of
`Replica` for `PgOutboxSync`, and the composition of
`Provisioning` with the life of a collection in `PgOutboxSync`.

## 3. The models

Common conventions. An action is what the code does between two `await`s, with
every state change of that stretch; calls to a database or the disk are atomic.
Everything in process memory disappears in `Restart`. `(mutant)` operators are
plausible bugs that the tests of the properties put in place of a definition.
A `CONSTANT` flag states an assumption about the environment: a property that
needs it is checked with the flag off, and section 5 tells what happens with
the flag on. Each `MC...` module adds the symmetry of the model values and
the values of constants that a `.cfg` cannot write.

### `PgOutboxSync`

Source side: `Write` is a statement of some application that fires the trigger
(`pg-outbox.ts` 79-115) and takes an id from the sequence; `Commit` makes the row
and its outbox entry visible together; `Rollback` drops both. Ids of
transactions that ran without a trigger are 0.

Worker side: a *fiber* is one asynchronous chain per collection. `AddInitial`,
`SyncBegin` ... `SyncFinish` are `initialSyncPostgres` step by step (drop and
create of the trigger, mark of the current maximum id, snapshot, batches of
documents). `Tick`, `ReadCursor`, `PollOutbox`, `SendUpserts`, `SendDeletes`,
`GcOutbox`, `SaveCursor` are one `pollPgOnce`. Aborting is a flag that the code
tests at the same places. `poller` and `controller` are the two registries.
`SyncFails`, `PollFails`, `FiberDies` are calls that throw, at every step.

Admin side: each route is a chain of request steps (row first, worker after) in
`requests`. Meilisearch executes the tasks of an index in the order of their
arrival, so `index` is what the tasks sent so far amount to. The document count
is display only and left out.

### `TaskScheduler`

`row` and `runs` are the tables, `crons` is `activeCrons`, `activeRuns` the set of
that name. `runTask` is a *runner* going through the awaits of
`scheduler.ts` 113-166; a *poller* is one call of `pollOneOffTasks`; `Boot...` are
the steps of `startScheduler`. Cron objects fire at any moment
(`CronFires`); the date of a task arrives by `Elapse`. Requests are atomic up to
their database write; telling the scheduler afterwards is `ApplyRequest`,
erasing the row after `unscheduleTask` is `EraseTask`. The executor is one step
that succeeds or throws. `nextRunAt` is display only and left out.

### `Uploads`

The disk is a function from locations to contents: one location per temporary
file, one per path (SSD), one per file id (HDD). Content is a length and the
set of positions that hold the byte the client sent. A `PATCH` keeps the handle
it opened: `at` follows the inode when the file is renamed and becomes nowhere
when it is removed, as on a POSIX file system. `PatchCheck` reads the row,
`PatchOpen` opens with `"w"` at offset 0 and `"r+"` elsewhere, `PatchWrite` is one
network chunk, `PatchRecord` stores the position, `Final...` are the awaits of
`finalizeUpload` with either tier, and with copy, comparison and removal on a
tier of another device. The unique path and the foreign key to the folder decide
whether `FinalInsert` commits. `Sweep...` is the hourly cleanup, `Expire` the
passing of 24 hours. `DeleteFile...`, `DeleteFolder...` are the routes of the file
API that touch the same places; there is one folder. Left out: access checks,
names, the search index, a database that fails in other places than the
transaction (such a failure ends a request like `PatchAbort` or a restart do),
a copy that is interrupted half-way.

### `Replica` and `MongoSync`

`Replica` has three variables: the source, its view, and the set of *open* keys, those
the view has still to answer for. Every other key shows its source and does not
move. `MongoSync` implements it: `docs` is the source, `index` the view, and a key is
open while a change of it is in the stream, the buffer or a flush, or is *lost*.
`AddIgnored`, `AddCopy`, `AddStream`, `SyncBegin` ... `SyncWatch` are `addCollection` with
`initialSync`; `StreamOpens`, `TakeEvent`, `SaveToken` the loop over the stream; a
*flusher* is one `flushBuffer` (`SendUpserts`, `SendDeletes`, `FlushDone`, `FlushFails`). An
event is its position in the oplog and so is a token. The code has several ways to lose a
change for good (section 5): the model takes them and notes the key in `lost`
until its next change, so that the refinement says that there are no others.

### `StorageTree`

`folder` and `file` are the tables, each row with its whole path; `dirs` the directories
and `bytes` where each file's bytes are; `tasks` the unawaited index promises. A
handler is `Start...`, then its disk step (`MakeDir`, `RenameDir`, `RenameFile`, `RemoveDir`,
`RemoveFile`), then its transaction (`InsertFolder`, `UpdateFolders`, `UpdateFile`,
`DeleteRow`), with the way back `MoveBack` when that fails. `Replaced` is Postgres
`REPLACE`, which rewrites every occurrence of the old path (`folders.ts` 466); rows
go into `torn` when a handler stopped between disk and rows, documents into `suspect`
when their index request failed or was overtaken. Requests about torn rows are
not followed. A path may have any length; `MaxDepth` bounds only what requests ask for.
Owners, scopes and shares are left out.

### `ObjectStore`

`data` and `meta` are the two files of each object, `buckets` the descriptors, `dirs` the
directories, `uploads` the multipart directories with their parts and notes. Bytes are
sequences of blocks and an ETag is the sequence it is the hash of. A completion takes the
least part still listed (`First`) and strikes it off, the loop over the ascending part numbers of
`store.ts` 615. A request is a
record in `op` that goes from call to call: write beside, rename the data,
rename the metadata, `Undo` on failure. `promised` is what the last request that
ran alone was answered.

### `Accounts`

One username; a *client* is a browser with its cookie and `page`, a *request* one in
flight, going through the statements of `auth.ts` (`LoginRead`, `LoginTotp`, `LoginCode`,
`LoginMark`; `SetupAuth`, `SetupStore`; `VerifyAuth` ... `StoreCodes`; `ResetRead` ... `ResetFlag`).
`Answer` is what the page does with the answer, `Unheard` an answer that arrives nowhere,
`Fail` a statement that throws. `doubt` is set when setup and reset overlap
or a reset is cut short; from then on the pages start nothing new, until a reset of the
same account that ran alone has left no secret and no codes.

### `Provisioning`

One slug, whose project rows are numbered. For each database type the stored
password (`record`), the password the server knows (`user`) and the database (`data`); the key
in the row and the keys of the engine; rows, triggers, indexes and the worker of the
collections; the vector indexes. Each request kind of `projects.ts`,
`project-databases.ts` and `project-vector-indexes.ts` runs statement by statement;
`Fail` ends it after any of them with what the handler's catch block does; errors the
code swallows go on (`Swallowed`). `doubt` names what an overlap or a failure left
half-done; a later request that removes the thing alone takes it out again. Requests overlap on
what they name, on the search key, and on the limit of synced collections if they count them (`Touches`).

### `FileBrowser`

`cache`, `flight`, `subs` are the maps of `FolderCacheStore`, `result` and `mount` the
state of `useFolderCache`, `change` the request of each dialog, `up` and `list` the tus
uploads and the list in the dialog, `tree` a folder being uploaded. `Read` is the
server reading a folder, `Listed` its answer. `missed` holds the folders whose listing was under
way when a change was acknowledged, or whose answer was lost.

### The administration interface

`AdminApi` has the sequence `wire` of the calls under way; a call knows its route, what it
is about, its answer, whether its component is still mounted (`heard`), its dialog
still open (`form`), and whether a later call overtook it (`late`). Each page has three
groups of actions: the person clicks (`...Click`), the server answers any call
(`...Serve`), and the handler of an answered call goes on (`...GoOn`) with what it
sets and which calls it makes. `AdminProjects` is the list of projects and the view
of one with six lists (keys, collections, databases, vector indexes, S3 credentials);
`ProjectDialogs` the form for a collection with its dependent selects and the token
dialog; `DatabasePanels` both tabs of the databases page, one program over two sets of
routes; `TasksPage` the tasks, the history of one and its poll. `AdminUi` shows
one page; each starts anew when it is shown, so a behaviour follows one.

## 4. The runs

| Run | What it shows | Bounds |
|---|---|---|
| `PgRows` | no change of a row is lost, deletions reach an index that was filled once, the outbox is trimmed only of what the index shows; the inductive invariant of section 6; status updates fail too | 2 keys, 3 outbox ids, batch of 2: a batch of several keys, one id beyond it |
| `PgLive` | an enabled collection is polled, an undisturbed one catches up | 1 key, 2 contents, 3 ids; no symmetry |
| `SchedFaults` | one execution per task, `activeRuns` without leaks, outcomes are final, with every call to the database failing anywhere | 1 task with everything allowed, 2 runners, 2 run rows, 1 restart |
| `SchedLive` | Cron objects mirror the rows at rest; "running" is told only of what runs; a date starts its task at most once; runs end, due tasks are taken up | 2 expressions, 2 restarts, one change request at a time |
| `Uploads` | completed uploads keep their content, a resume finds its bytes, nothing is left over, offsets only grow, every upload ends | 2 uploads, 2 paths, 2 bytes in chunks of 1, 1 request and 1 deletion at a time, late requests for one upload, failing transactions, 1 restart |
| `Mongo` | `MongoSync` implements `Replica`; a stream that stays registered delivers | 1 key, 1 content, 2 changes, 2 flushes at once, 1 failure or restart; keys of one collection meet only in the order of a flush. With two contents and `Spec`, without the liveness property, TLC finds no error either |
| `Tree` | rows, disk and documents agree | 2 folders and the root, 1 file, 2 names, paths of 3 segments, 2 index requests, 1 failure; one request at a time |
| `Objects` | what was answered stays, parts are as noted | 2 keys, 2 blocks, 2 requests at once, 1 failure or restart |
| `Accounts` | the factor in force was confirmed, shown codes are stored, a code is used once | 2 browsers and requests, 2 secrets, 2 batches, 1 failure |
| `Provisioning` | stored password, key, collections | 2 requests at once of 4 in all, 3 types, 2 collections of one table (limit 1), 2 vector indexes (limit 1), 1 failure or restart |
| `Browser` | own changes are shown, search settles, loading ends | 2 folders, 1 file, 2 uploads (2 chunks and 1), 3 acts of the person, 1 failure |
| `AdminUi` | the properties of the four pages (below) | 2 rows of each list, 2 databases, 1 run, 2 calls under way, 1 failed call |

Why the bounds are enough. An outbox batch is only distinguished by which keys
it holds and whether something follows it: two keys and three ids give
every such case, and the theorems of section 6 cover every number of keys,
contents, ids and every batch size. A scheduler task interacts with another one
only through a poll that holds several due tasks; the runs with one task show
what happens to it while runs, edits and restarts come in any order, and the
theorems are for any number of tasks, runs, calls and polls. For uploads, two
bytes give a first and a last position; two uploads give every
interference on the disk, since a request touches the locations of one upload
and one path. Two folders, one inside the other, and a file give a subtree with
something in it. Two requests at once give every pair of steps on objects,
accounts and projects, as each hazard there is one of two actors. All histories are
complete up to the bounds: nothing limits depth.

`AdminUi` has more bounds, all in guards: the person clicks while fewer than
`MaxCalls` calls are under way and not after the last failure (`Quiet`), works with the
lists of one element of `Parts` (the databases together with the section of vector indexes,
which hangs on one of them) and not with a list in `behind`; on the databases page with the
tree, the panel or the indexes (`Works`), in the tree only while it is current (`Calm`),
dropping one collection (`OneDrop`) and closing no database; on the tasks page with tasks or
with runs (`Chores`), one poll under way (`Polls`) and one run asked for (`MaxAsked`).
`wire` has no other bound: a handler makes as many calls as the code does.

`CHECK_DEADLOCK FALSE` everywhere: once ids, run rows, requests or acts are used
up, the systems really rest. A page of the administration whose first
read failed offers nothing to click.

Fairness (`FairSpec` of each module, `AdminSpec` of `AdminUi`). Weak fairness of the
steps that follow an awaited call: the event loop resumes every continuation whose
call returns, and calls return or throw. Weak fairness of timers and of the passing
of time. None for requests, clicks, writers, faults, restarts (which are bounded), or signals.
`PgLive` needs open transactions to end. `Uploads` asks nothing of requests, as the
server has no idle timeout and a connection may stall for ever: only that time
passes and that the hourly job runs. `Browser`: listings are read and answered. `AdminUi`:
the oldest call is answered and its handler goes on, the five-second poll fires, an
executing run ends. Runs without a liveness property use `Spec`.

Reading the properties. `LiveRowsIndexed`, `NoStaleAfterFirstFill` and `CronMirrors`
are about rest (nothing pending, no request under way), because in between
the two views differ legitimately. `UploadsKept` exempts files somebody asked to
delete, `ResumePoint` uploads that are expired or given up. `NoLitter` is stated
for runs without a restart: a restart between two steps leaves files on the
disk which nothing collects. `Mirrors` is the specification of `Replica` under the
mapping of `MongoSync`. `torn`, `suspect`, `doubt`, `doubtful`, `raced`, `missed`, `behind`, `astray`,
`stale`, `untold` and `crossed` are history: each is set by the code's known races and
failures where they happen, and the properties say that everything else is right.
What they except is described in section 5.

Each `.cfg` lists what its run is for. `TypeOK` of every module (`AdminTypeOK`), `LiveRowsIndexed`
and `GcOnlyApplied` in `PgRows`, `LimitsKept` of `Provisioning`, `SearchSettles` of `FileBrowser`, `ShownOnce`
and `OwnTasksListed` of the administration hold in these configurations as well.

## 5. Where code, documents and intentions disagree

The models keep the code's behaviour, and in the configurations named here TLC
finds each of these within seconds or minutes. The runs above keep the flags `FALSE`,
or note the consequence in a history variable.

Stated as properties of the modules that the code does not meet:

| Property | Configuration | What happens |
|---|---|---|
| `LiveRowsIndexed` | `PgRows` with `OrderedCommits = FALSE` | a transaction that commits after one with a higher id is skipped by the cursor |
| `LiveRowsIndexed` | `KeyReuse` | a key deleted and inserted again in one batch loses its document (`worker.ts` 393-395) |
| `LiveRowsIndexed` | two collections | the first one to poll deletes outbox rows the other has not read (`pg-outbox.ts` 135) |
| `LiveRowsIndexed` | `ResyncOverlap`, two fibers | a poll in flight overwrites what a resync has reset (`worker.ts` 227) |
| `NoStaleDocs` | `PgRows` | a resync keeps the documents of rows deleted before it |
| `DeletedLeavesNoIndex` | one key, two contents, two ids | an activity in flight writes to the index of a collection after its deletion emptied it (`projects.ts` 528) |
| `RecoversFromFaults` | `FairSpec` | one failed poll before a restart stops a collection for good (`worker.ts` 62) |
| `EnabledIsPolled` | `MaxRequests = 2` | pausing and resuming at once ends enabled and unpolled (`projects.ts` 482) |
| `EnabledIsPolled` | `ResyncOverlap`, two fibers | the resync's initial sync fails, then the poll it did not wait for saves its cursor and with it the status `idle` over the error (`worker.ts` 227) |
| `CronMirrors` | `EditTaken`, without `Mixed` | the end of a one-off run disables a task that was given a schedule meanwhile; its Cron object goes on (`scheduler.ts` 146) |
| `CronMirrors` | `Mixed` | the poll disables a task with a date and a schedule; the schedule goes on (`scheduler.ts` 106) |
| `CronMirrors` | `MaxRequests = 2` | two requests change row and Cron object in different orders (`routes/tasks.ts` 176) |
| `InterruptedIsOver` | `EarlyRequests` | a run started during startup is closed as interrupted and goes on |
| `OneOffOnce` | two pollers | two overlapping polls start one date twice |
| `OneOffRuns` | `FairSpec` | a date that arrives during a run of its task is skipped (`scheduler.ts` 106, 114) |
| `UploadsKept` | one path, two file ids, two requests, `SameTarget` | the second of two uploads to one path overwrites the file of the first, and deletes it when its own row is refused (`uploads.ts` 454) |
| `UploadsKept`, `OffsetForward` | `Overlap` | two `PATCH` requests at one offset: one writes into the file the other finalizes, or sets the offset back |
| `UploadsKept` | `FolderRaces` | an upload finished during the deletion of its folder goes with it (`folders.ts` 605) |
| `UploadsKept` | `ExcessAborts` | bytes beyond the announced length, left by a broken request, stay in the completed file (`uploads.ts` 308) |
| `UploadsKept` | `ShortWrites` | what a short write leaves out is never written (`uploads.ts` 308) |
| `UploadsKept` | two deleters | the second of two deletions removes the file uploaded to the path in between (`files.ts` 253) |
| `FullIsThere` | one restart | a restart after the move of a received file leaves an upload that nothing can complete (`uploads.ts` 420) |
| `NoLitter` | `LateRequests` of an upload that is swept | a `PATCH` after expiry hides the temporary file from the cleanup (`uploads.ts` 279) |
| `NoLitter` | `Overlap` | a `PATCH` checked before a cancellation creates the temporary file again (`uploads.ts` 300) |
| `NoCycle` | `Tree` with two handlers, `Indexed = {}`, no faults | two moves, each tested against paths from before the other, make a cycle (`folders.ts` 400) |
| `ShownIsStored` | `Accounts` with one client, role user, three secrets, no faults | signing up shows the page of the second factor before the setup of the form is answered: the QR code may be of the replaced secret (`signup.tsx` 59, `setup-mfa.tsx` 94) |
| `LinkIsOfFile` | `Browser` with `TwoFiles` | the link of one file is shown under the title of another opened meanwhile (`share-dialog.tsx` 34) |

Taken by the models and named in their histories:

- MongoDB sync. Changes between the initial copy and the opening of the stream
  are in neither. The token is stored before the flush, so that a crash, a pause or
  a removal drops what is buffered. Overlapping flushes reorder changes; a document
  deleted and inserted within one flush is lost; a failed flush or token save leaves
  events without a timer. `reconnect` does nothing unless the status changed.
  A late token save lands after a reset or ahead of a stream that reads again. A resync
  of a paused collection starts its stream. The initial copy keeps stale documents.
- Tree. The `REPLACE` of a path rewrites its second occurrence as well; a stop between
  rename and transaction tears everything below from the disk; a moved subtree's
  documents may be written after later changes; a reindex races with them;
  a cascading deletion leaves documents.
- Objects. A failed metadata write destroys the object that was
  overwritten (`store.ts` 267); a copy reads metadata and bytes separately (395); a part sent
  again and cut short has new bytes under the old note (562); two deletions of a bucket and a
  creation leave a descriptor without a directory (294, 326); a put that
  overlaps the deletion of its bucket is lost.
- Accounts. A reset cut short leaves the factor in force without a secret
  (`auth.ts` 165-168); a verification that overlaps a setup or a reset does the same; two logins
  at once use one recovery code (312-330).
- Provisioning. After a failure between role and record every retry fails on the role
  (`project-databases.ts` 338). The deletion of a project leaves roles, databases, users,
  triggers and followed collections behind (`projects.ts` 195-211); the cascade that
  `docs/admin-api.openapi.yaml` 30 promises is of the folder, the keys and the
  indexes. Two first collections at once leave an orphaned key; a failed deletion leaves a dead one in the row; two collections on
  one table share a trigger that goes with the first; both limits can be exceeded
  by overlapping requests.
- Storage interface. A change during a listing stays unseen until the listing
  expires (`folder-cache-context.ts` 38); a late listing asked for by a listener makes the page
  of another folder load for ever (`use-folder-cache.ts` 54); a deletion does not
  invalidate; leaving the page unmounts the upload dialog while uploads run
  (`files.tsx` 343); cancelling an upload never tells the server and its last chunk
  may still make the file; an empty file is never stored, as no `PATCH` is sent.
- Administration interface. The list reads have no guard of their order; a project is shown
  without a search key after its first collection, from the row captured when
  it was opened; the value of a new key is lost when a second one replaces it behind a
  closed dialog; choices of the collection form survive the table they were made for; a
  token dialog whose box is ticked without a rule asks for an unfiltered token
  (`projects.tsx` 1975). A database that is dropped and made again shows its
  old children; details of one selection are read without cancelling those of the
  last. A poll that lands after a deletion brings the run back; a run is
  answered before its row exists (`routes/tasks.ts` 192), so that the history may never show it.

## 6. What is proved

All proofs hold for every value of the constants that the named assumptions of
the modules admit (disjointness of the special values, natural bounds).

`PgOutboxSyncProofs`: `TypeCorrect`, one lemma per group of actions and variables; and
`EnabledStaysPolled` (`EnabledIsPolled`) for any collections, activities, keys, commit orders and restarts,
with one request at a time, no resync during a poll and status updates that do not fail (section 5 has
the first two the other way round; a status update that fails may end the loop itself). The run has one activity; here any
number may overlap, which needs `ActivityInv`: the registered timer belongs to the only activity that nobody told to stop, and
any other is in the middle of a tick (`OnePollerInv`); an initial sync has neither a request nor a poller next
to it (`OneRequestInv`); whoever polls, stopping or not, has a row that was filled, so that no
straggler can save a cursor over the error of an initial sync (`RequestRowInv`, `PolledInv`).

The same module, second half: `InductiveCorrect`, `RowsReachTheIndex` (`LiveRowsIndexed`), `GcDeletesAppliedOnly` (`GcOnlyApplied`)
and `DeletedRowsLeaveTheIndex` (`NoStaleAfterFirstFill`), for any keys, contents, ids and
batch size, under `Alone(c, f)`: one collection on the table, one activity and
one request at a time, commits in id order, keys not reused, no resync during a
poll. Section 5 shows what happens without them. The argument:
`LiveRowsIndexed` is not inductive, as it speaks only of rest. `IInv` adds what
holds on the way: the outbox after the cursor ends, for every key, with the
current row (`TailCurrent`); no open transaction will commit below the cursor
(`NothingBehind`); the index may differ from the table only for keys with an
unread change (`FilledInv`); during the snapshot the same holds with the marked
id in place of the cursor (`FillingInv`); the batch in hand is a prefix of what
follows the cursor, and by the time it leaves the outbox it is in the index
(`PollingInv`). `ControlInv` and `RowInv` say which steps can coincide.
`NoStaleAfterFirstFill` needs the mirror image for keys without a row: a snapshot starts from an empty
index, and a document of a deleted row is there only while the deletion is still to be read (`CleanInv`).

`StoreAndTaskProofs`, the scheduler: `TypeCorrect`; `Exclusive` (`OneExecution`, no assumption);
`RunningTold` (`RunningIsExecuted`, if the database answers); `OutcomeFinal`
(`FinalIsFinal`, if requests wait for the startup; the database may fail).
`RunningIsExecuted` needs that every call in hand has a row of its own and its
own task (`HandInv`), that no poll runs before the startup has closed old runs
(`PollQuiet`), and that at most the rows in hand are open (`RunningInv`).
`OutcomeFinal` needs that nobody holds a run when the startup closes the open
ones (`CallQuiet`), so that a row in hand is open or deleted (`OpenInv`).
`CronsFollowRows` (`CronMirrors`) assumes `Mixed`, `EarlyRequests` and `EditTaken` all `FALSE` and one
request at a time; without any one of these section 5 has a counterexample. The database may fail.
`CronInv` adds to rest what holds on the way: nothing runs and no request is served before the startup
has armed (`EarlyInv`, `SelectedInv`, `BootPollInv`); whoever may disable a row has a task without a cron
expression in hand (`OneWayInv`, `DisablerInv`), so that only requests change what a Cron object mirrors;
and between the two steps of a request the row is ahead of its Cron object by that request only
(`RequestInv`, `MirrorInv`). `DateStartsOnce` (`OneOffOnce`) assumes one poller (two start a date twice):
the row of a date that was started stays disabled, or its poll still has it in hand and nobody else has (`OnceInv`).

`AccountsProofs`: `TypeCorrect` (a secret, a code and a session belong to an account
that exists, whatever request is cut short or overlaps another),
`CodeLetsOneLoginThrough` (`CodesUsedOnce`), `FactorStaysUsable` (`SecondFactorUsable`) and
`ShownCodesStored` (`CodesAsShown`), for any number of browsers, requests,
accounts, secrets, batches and faults, from the module's assumptions only.
`CodesUsedOnce` says nothing of the window between the two statements that use a
code. `UseInv` adds it: an unused row let nobody through, nor did a batch not yet
generated (`Unspent`); a login about to mark a code is the first with it, or in a
race, and of two such logins one found the other there (`Racing`); and a code is
only presented to a superuser, whom nobody deletes, so that no account made anew
under the name meets a login of the old one (`Presented`).
The two about the factor rest on `FreshInv` and `SecondInv`. No number is given out twice
(`FreshInv`), so a request that outlives its account finds no later one, and a code typed for
an old secret never matches a new one: the secret that matches was scanned (`KeyInv`). While nothing is in
doubt, of the requests that have found the account (`Part`) one that verifies or resets is the only one
(`Alone`); a secret is set up with the factor off, a verification that goes on has a scanned, later a confirmed
secret before it (`FactorOf`), and an empty table, later its own batch, before it (`CodesOf`). The attempt
showed that the reset of a deleted account must not end the doubt about its successor, as the model
had it (`ResetFlag`): with two accounts under the name, `Alone` and `Usable` would not be inductive.

`ProvisioningProofs`: `TypeCorrect`, `StoredPasswordOpens` (`RecordOpens`), `StoredKeyKnown` (`KeyOpens`),
`EnabledIsFollowed` (`Served`) and `LimitsHold` (`LimitsKept`), for any number of requests at a time, collections on any
tables, limits, failures and restarts, from the module's assumptions only (the kinds of things are
disjoint, the bounds are numbers). Outside of `doubt` a request is alone with what it names (`SoleInv`), and the
row it read is still the one of the project (`MineInv`). So each thing has to be followed through one
request only: a database that is being provisioned has no record, and its user has the password that will be
recorded (`PassInv`); a key about to be noted is known (`KeyInv`); a collection is followed as its row says, or a
request that is changing that is on its way (`Hot`), and a switch acts on the value it has read (`ServeInv`); a
request that is about to add a collection or an index has counted fewer than allowed (`SyncedInv`, `VectorInv`). Every
other step leaves the thing as it is (`PassFrame`, `ServeFrame`). The attempt corrected the history variable
twice: dropping a collection of a deleted project does not end the doubt about the one of its successor
(`DropRow`), and requests for collections of different tables race on the limit (`Touches`), which with one table
only, as in the run, never shows.

`MongoSyncProofs`: `TypeCorrect` and `ImplementsReplica` (`Mirrors`), for any
keys, contents, flushes at once, changes, requests and faults, from
`ConstantsAssumption` only. A step of `MongoSync` is a `Change` of `Replica` (`Write`) or a
`Show` (every other step, `ChangeStep` and `ShowStep`). That open keys are all the view has to
answer for needs `IInv`: what any token or the consumer has passed (`Positions`) of a key that
is not lost is in the buffer with the key's document, or else in one flush with it,
or else in the index (`ShowInv`); a consumer reads nothing a second time that is not lost
(`RereadInv`); what a copy has passed is in the index and nowhere on its way (`CopyInv`).
Most steps make no new position (`Frame`) and move work only towards the index (`Kept`);
`Write`, `TakeEvent`, `StreamOpens`, `AddStream`, `SyncCopy` and `CreateCollection` do not and
have lemmas of their own. The attempt found a gap in the model: a token held by a pending
request was missing among those that are read a second time (`Tokens`).

`UploadsProofs`: `TypeCorrect`, with no assumption on the flags;
`OffsetNeverBack` (`OffsetForward`), if requests of one upload do not overlap; `ResumesWhereTold`
(`ResumePoint`), if a write writes what it was given as well; `FilesKept` (`UploadsKept`) and
`NothingLeft` (`NoLitter`), under `SameTarget`, `Overlap`, `FolderRaces`, `ShortWrites` and `ExcessAborts`
all `FALSE` and one deletion of a file at a time, which are the settings of the run. Each of these
excludes a case for which section 5 has a counterexample. Uploads, paths, file ids, requests, sizes,
chunks, restarts, late requests and failing transactions are any. The argument has four layers, each
inductive with those below it. *Alone*: a served upload has one request (`AloneInv`), whose open file
is the temporary file of its own upload (`HandleInv`) and whose position is at or after the offset
(`OffsetInv`). *Held*: the file has the bytes before the offset, and before the position of a request
that is through writing or about to record it (`BytesInv`); what removes the file makes its upload late,
dropped or received in full (`ThereInv`). *Kept*: a temporary file is no longer than announced unless
its request is about to remove it (`LengthInv`), so that a file received in full is whole (`FullFile`);
a path is in the hands of one upload until its row is there (`AimInv`), so that the places of files and
of finalizations differ (`PlaceInv`); a deletion holds a row that is there (`DeleteInv`), nobody
writes during the deletion of the folder (`FolderInv`), and what has been moved stays whole until it is entered
(`WholeInv`). *Left*: a file is gone before its row says that the upload is over (`TidyInv`), and
what is on the disk belongs to an upload, a file or a request in work (`LitterInv`).
The second part of `NoLitter` used to exempt uploads that expire under their own requests; the proof showed that
the exemption is not needed for files in their final place, and the property is now stated without it.

`StoreAndTaskProofs`, the S3 store: `StoreTypeCorrect`, `AnswersKept` (`AcknowledgedKept`) and `NotesTellParts` (`PartsAsNoted`), for any
buckets, keys, blocks, uploads, part numbers, requests at once and faults, from `ConstantsAssumption` and
`NoneAssumption` only. Neither property is inductive, as both exempt what is being written. `ObjectInv`: an
object is as promised, or some request has replaced one of its two files and not yet the other. `PartInv`: a
part is as noted, or in doubt, or a request that uploads it has opened the file or is not alone with it. `AloneInv`:
requests in each other's way know it, so that one that takes itself for alone is. `HoldInv`
is what such a request knows on its way: the bytes it will write are those of its ETag unless it has read
something in doubt, the metadata on the disk is still the old promise while the bytes are already
new, a removed file is still gone, a bucket found empty is still empty of promises. The steps of
the others leave what it works on (`ObjectFrame`, `PartFrame`, `OthersHold`); its own steps are looked at
one by one (`OwnObject`, `OwnPart`). A request that is not alone ends without a promise, whatever it did.

`StorageTreeProofs`: `TypeCorrectness` and `IndexFollowsRows` (`SearchFollows`) for any folders, files, names, requests
at once, depth and faults, from `ConstantsAssumption` and `SpecialAssumption` only; `RowsFollowDisk` (`RowsMatchDisk`) under two
hypotheses more. One request at a time (`OneAtATime`), as in the run: two requests on one subtree leave rows
and disk apart, or a folder in itself (`NoCycle`, section 5). And no folder has the name of the root
(`RootName \notin Name`): the code allows one, and moving `/shared/a` with a row
`/shared/a/shared/a/b` below it rewrites that path twice (section 5).
The proof begins with paths. `Replaced` reads a path from the left as Postgres does; that it renames the first segments
and nothing else (`ReplacedIsRenamed`) needs induction over the positions, which is written as the choice
of a least counterexample (`LeastNumber`). A rename of a directory keeps different paths different, and a
place outside the subtree stays outside (`RestApart`). `SearchInv`: of the requests to the index that mention an id,
each speaks of the row as it is, or is known as overtaken, or the id is suspect (`Follows`). `RowsMatchDisk`
exempts what the running request touches, so that on its own it would say nothing of how a
request ends. `TreeInv` adds it: paths are unique and of their parents' (`PathsUnique`, `Placed`); the plan
of a running request still fits the rows it has read (`Planned`); and the disk is as the rows say, but for
exactly the change of this request: before its disk step everything stands where it was, after it
everything below the old place stands below the new one, and the way back restores it (`Stands`, `DirMoves`,
`DirMovesBack`). At rest there is no request to exempt anything (`Rest`).

`AdminUiProofs`: `KeysAreShown` (`NewKeyShown`), `ChangesAreListed` (`OwnChangesListed`), `ChangesAreInTree` (`OwnTreeChanges`), `RunsStayAway` (`DeletedRunsAway`), `ResultOfSelection`
(`FindOfSelection`) and `ColumnOfTable` (`IdColumnOfTable`), for any rows, databases, runs and lists, and any
number of calls under way and of calls that fail, from the assumptions of the modules only.
They rest on lemmas about `wire` as a sequence: what the answer of a call, the next step of its handler, a
component that goes and a dialog that closes make of it, and which call of the new sequence
was which of the old one (`AfterCalls`, `LeftCalls`, `RepliedCalls`, `OrphanIs`); an answered call that
nobody would hear is not kept (`Sound`). `KeysInv`: a key that is not revoked is
in the answer of a call whose handler is still to go on, or has been shown or excused, or is the one that waits. `ListsInv`:
a list on the page that was told of everything (`Owed`) has an answered change whose handler is still to read the list,
or is being read with no stale answer at or after that read, or is shown as it is with no stale answer under way
(`Current`). The argument is about the order of the calls: every step keeps
the order of those that remain and adds its own behind them (`CurrentKept`). The section of the search indexes is
shown only while the list of databases has the one they belong to, and so it is owed
only while that one is there. `TreeInv`: the same for the databases of the tree and for what was read of each, where
a change is one after whose answer the handler reads that list again (`Due`: the databases after one of them is created or
dropped and after a kid is dropped, the kids after a kid is created or dropped), and a list that changed and
is not read again is known as stale; a list not read yet is right as soon as it comes; and who works with the
indexes changes nothing the tree shows (`Still`). `RunsInv`: while no read and deletion
crossed, no answer to a read has a deleted run, and one that is still shown is in the answer of a deletion whose handler
is to go on. `FindInv`: each query a panel still waits for is of the selection.
`ColumnInv`: the columns of the table chosen are being read, or the columns offered and the one chosen are of
it, or the database has no such table; without a table nothing is offered or chosen.
The attempts corrected the model. Two guards of the `CASE` in `Default` overlapped, so that TLC took the first one
and the semantics allowed either. A list of projects on the screen, and a view opened while a project is being
deleted, are not told of what another list changes there (`behind`). `PanelsAssumption` keeps
the names of databases apart from the names that the model gives the routes, which in the code are different functions.

Only model-checked: the liveness properties, as they rest on fairness and
`ENABLED`, which the proof system does not support; the storage interface (`FileBrowser`); and the limits
on depth and numbers that only bound a run.
No module uses a recursive operator, as the prover cannot reason about one.
Where a proof needs induction over positions or over a finite set of numbers, it takes the least
counterexample (`LeastNumber`).

## 7. What is not modelled

- The rate limiter is one synchronous function on a map of one process; its
  arithmetic is planned as a proof.
- Task executors: shell commands and file I/O inside one run.
- The search proxy: it passes queries on and keeps nothing; tenant tokens are signed and
  not stored.
- S3: listing (`store.ts` 439-496), signature verification, XML.
- Accounts: the seed script, expiry of sessions and tokens, API keys.
- Shares, previews and downloads of files, access checks by owner and scope.
- Terminal and container proxy: bytes between sockets and processes.
- The dashboard, tools, users and storage pages of the administration; the walk of
  the breadcrumbs; layout and widgets.
- Shell scripts of the host.
- Two overlapping `addCollection` calls of one MongoDB collection, and a `primaryKey` other
  than `_id`, for which deletions miss their document.

External engines appear only as the code uses them: Postgres with committed reads
and sequences, Meilisearch with ordered tasks per index, MongoDB with an ordered
oplog, a POSIX file system, and servers whose calls are atomic.
