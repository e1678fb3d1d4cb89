---------------------------- MODULE PgOutboxSync ----------------------------
(***************************************************************************)
(* Postgres table -> outbox -> search index.                               *)
(*                                                                         *)
(* A row trigger records every committed change of one source table in    *)
(* the table _meili_outbox (pg-outbox.ts).  For each project collection    *)
(* bound to the table the SyncWorker (worker.ts) fills a Meilisearch index *)
(* from a snapshot, then polls the outbox: read the cursor from the        *)
(* collection row, read a batch, send the upserts, send the deletes,       *)
(* delete the batch from the outbox, save the cursor.  Every await of that *)
(* chain is an action boundary here.  The admin routes (projects.ts)       *)
(* create, pause, resume, resync and delete a collection while the chain   *)
(* is running, and the process may stop and start again anywhere.          *)
(*                                                                         *)
(* A "fiber" is one asynchronous activity of the worker for a collection:  *)
(* an initial sync that then becomes a poll loop, or a poll loop.  The     *)
(* number of fibers per collection bounds how many may overlap.            *)
(*                                                                         *)
(* Meilisearch applies the tasks of an index in the order they are         *)
(* enqueued, so an index is the effect of the writes sent to it so far.    *)
(***************************************************************************)
EXTENDS Integers, FiniteSets

CONSTANTS
  Coll,             \* project collections bound to the one source table
  Key,              \* primary keys of the table
  Val,              \* contents a row may have
  Absent,           \* no row, or no document
  Fiber,            \* slots for overlapping activities of one collection
  None,             \* no fiber
  MaxId,            \* bound: outbox ids the sequence hands out
  MaxRequests,      \* bound: overlapping admin requests per collection
  BatchSize,        \* outbox rows per poll
  OrderedCommits,   \* transactions commit in the order of their outbox ids
  KeyReuse,         \* a deleted primary key may be inserted again
  ResyncOverlap,    \* a resync may be requested while a poll is in flight
  StatusWriteFails  \* the status update after a failure may fail as well

ASSUME ConstantsAssumption ==
  /\ Absent \notin Val
  /\ None \notin Fiber
  /\ MaxId \in Nat /\ MaxRequests \in Nat
  /\ BatchSize \in Nat \ {0}
  /\ OrderedCommits \in BOOLEAN
  /\ KeyReuse \in BOOLEAN
  /\ ResyncOverlap \in BOOLEAN
  /\ StatusWriteFails \in BOOLEAN

VARIABLES
  \* the project's database
  table,       \* committed rows
  dead,        \* keys whose row has been deleted
  inflight,    \* row changes of transactions that have not committed
  outbox,      \* committed rows of _meili_outbox
  seq,         \* last id handed out by its BIGSERIAL
  trigger,     \* is the sync trigger installed on the table
  \* the control database and the search engine
  coll,        \* row of project_collections
  index,       \* documents of the collection's index
  \* the admin-api process
  fiber,       \* activities of the SyncWorker
  poller,      \* pgPollers: the fiber that armed the registered timer
  controller,  \* abortControllers: the fiber whose controller is registered
  requests,    \* admin requests in progress, as the step they are about to do
  \* history
  past         \* "refill": a resync was requested, or an initial sync ran over
               \* documents already in the index; "delete": a deletion began

sourceVars == <<table, dead, inflight, outbox, seq, trigger>>
workerVars == <<fiber, poller, controller, requests>>
vars == <<sourceVars, coll, index, workerVars, past>>

(***************************************************************************)
(* Types and helpers                                                       *)
(***************************************************************************)

Cell == Val \cup {Absent}

(* id 0: a change made while no trigger was installed, never recorded.     *)
Change == [id : 0 .. MaxId, key : Key, val : Cell]

CollRow == [row : {"none", "live", "deleted"}, enabled : BOOLEAN,
            status : {"idle", "syncing", "error"},
            cursor : 0 .. MaxId, synced : BOOLEAN]

InitialStep == {"sync", "drop", "create", "mark", "open", "snapshot"}
PollStep == {"read", "poll", "upsert", "delete", "gc", "save"}
Busy == InitialStep \cup PollStep

FiberState == [pc : {"idle", "timer"} \cup Busy, aborted : BOOLEAN,
               cursor : 0 .. MaxId, batch : SUBSET Change,
               todo : SUBSET (Key \X Val)]

IdleFiber == [pc |-> "idle", aborted |-> FALSE, cursor |-> 0,
              batch |-> {}, todo |-> {}]

ArmedFiber == [IdleFiber EXCEPT !.pc = "timer"]

RequestStep == {"provisionDrop", "provisionCreate", "addInitial", "addPoll",
                "remove", "reset", "untrigger", "unindex", "erase"}

EmptyIndex == [k \in Key |-> Absent]

Live(c) == coll[c].row = "live"

(* updateSyncStatus: an UPDATE by id, without effect once the row is gone. *)
SetRow(c, new) == coll' = IF Live(c) THEN [coll EXCEPT ![c] = new] ELSE coll

(* (mutant) ORDER BY id DESC.                                              *)
LastOnes(n, S) == {e \in S : Cardinality({d \in S : d.id >= e.id}) <= n}

(* The first n changes of S in id order: ORDER BY id LIMIT n.              *)
First(n, S) == {e \in S : Cardinality({d \in S : d.id <= e.id}) <= n}

IsLast(e, S) == e \in S /\ \A d \in S : d.id <= e.id

(* (mutant) The first one does.                                            *)
FirstUpsert(e, S) ==
  e \in S /\ e.val # Absent /\ \A d \in S : d.key = e.key /\ d.val # Absent => e.id <= d.id

(* The last upsert of a key in a batch decides the document sent for it.   *)
LastUpsert(e, S) ==
  e \in S /\ e.val # Absent /\ \A d \in S : d.key = e.key /\ d.val # Absent => d.id <= e.id

WithUpserts(ix, S) ==
  [k \in Key |-> IF \E e \in S : e.key = k /\ LastUpsert(e, S)
                 THEN (CHOOSE e \in S : e.key = k /\ LastUpsert(e, S)).val
                 ELSE ix[k]]

WithDeletes(ix, S) ==
  [k \in Key |-> IF \E e \in S : e.key = k /\ e.val = Absent THEN Absent ELSE ix[k]]

WithDocs(ix, D) ==
  [k \in Key |-> IF \E v \in Val : <<k, v>> \in D
                 THEN CHOOSE v \in Val : <<k, v>> \in D ELSE ix[k]]

Pending(c) == {e \in outbox : e.id > coll[c].cursor}

BusyFibers(c) == {f \in Fiber : fiber[c][f].pc \in Busy}

(***************************************************************************)
(* The initial state: rows exist, nothing is synced, no trigger.           *)
(***************************************************************************)

Init ==
  /\ table \in [Key -> Cell]
  /\ dead = {} /\ inflight = {} /\ outbox = {} /\ seq = 0
  /\ trigger = FALSE
  /\ coll = [c \in Coll |-> [row |-> "none", enabled |-> TRUE, status |-> "idle",
                             cursor |-> 0, synced |-> FALSE]]
  /\ index = [c \in Coll |-> EmptyIndex]
  /\ fiber = [c \in Coll |-> [f \in Fiber |-> IdleFiber]]
  /\ poller = [c \in Coll |-> None]
  /\ controller = [c \in Coll |-> None]
  /\ requests = [c \in Coll |-> {}]
  /\ past = [c \in Coll |-> {}]

(***************************************************************************)
(* Writers of the source table.  A transaction changes one row: the        *)
(* trigger takes an id from the sequence when the statement runs, the      *)
(* outbox row becomes visible when the transaction commits.  The row lock  *)
(* keeps two transactions off the same key.                                *)
(***************************************************************************)

Write(k, v) ==
  /\ v # table[k]
  /\ \A e \in inflight : e.key # k
  /\ KeyReuse \/ k \notin dead
  /\ trigger => seq < MaxId
  /\ seq' = IF trigger THEN seq + 1 ELSE seq
  /\ inflight' = inflight \cup
       {[id |-> IF trigger THEN seq + 1 ELSE 0, key |-> k, val |-> v]}
  /\ UNCHANGED <<table, dead, outbox, trigger, coll, index, workerVars, past>>

Commit(e) ==
  /\ e \in inflight
  /\ OrderedCommits => \A d \in inflight : e.id <= d.id
  /\ inflight' = inflight \ {e}
  /\ table' = [table EXCEPT ![e.key] = e.val]
  /\ dead' = IF e.val = Absent THEN dead \cup {e.key} ELSE dead
  /\ outbox' = IF e.id = 0 THEN outbox ELSE outbox \cup {e}
  /\ UNCHANGED <<seq, trigger, coll, index, workerVars, past>>

Rollback(e) ==
  /\ e \in inflight
  /\ inflight' = inflight \ {e}
  /\ UNCHANGED <<table, dead, outbox, seq, trigger, coll, index, workerVars, past>>

(* CREATE TRIGGER and DROP TRIGGER lock the table: they wait for every     *)
(* transaction that has written to it.                                     *)
AlterTrigger(installed) ==
  /\ inflight = {}
  /\ trigger' = installed
  /\ UNCHANGED <<table, dead, inflight, outbox, seq>>

(***************************************************************************)
(* Admin requests                                                          *)
(***************************************************************************)

(* A request that starts an initial sync awaits it, so it lasts until the   *)
(* fiber has become a poll loop.                                           *)
NewRequest(c) ==
  Cardinality(requests[c]) + Cardinality({f \in Fiber : fiber[c][f].pc \in InitialStep})
    < MaxRequests

Become(c, old, new) == requests' = [requests EXCEPT ![c] = (@ \ old) \cup new]

Step(c, f, state) == fiber' = [fiber EXCEPT ![c][f] = state]
Goto(c, f, step) == Step(c, f, [fiber[c][f] EXCEPT !.pc = step])

(* removeCollection: abort the registered controller, clear the registered *)
(* timer.  A tick that is running is not interrupted: it finds out when it *)
(* would reschedule.                                                       *)
RemovedFiber(c, f) ==
  IF fiber[c][f].pc = "idle" \/ (fiber[c][f].pc = "timer" /\ f = poller[c]) THEN IdleFiber
  ELSE [fiber[c][f] EXCEPT !.aborted = @ \/ f = controller[c]]

(* (mutant) The timer is cleared but stays registered.                     *)
RemovedStillRegistered(c) ==
  /\ fiber' = [fiber EXCEPT ![c] = [f \in Fiber |-> RemovedFiber(c, f)]]
  /\ controller' = [controller EXCEPT ![c] = None]
  /\ UNCHANGED poller

Removed(c) ==
  /\ fiber' = [fiber EXCEPT ![c] = [f \in Fiber |-> RemovedFiber(c, f)]]
  /\ poller' = [poller EXCEPT ![c] = None]
  /\ controller' = [controller EXCEPT ![c] = None]

CreateCollection(c) ==
  /\ coll[c].row = "none" /\ NewRequest(c)
  /\ coll' = [coll EXCEPT ![c].row = "live"]
  /\ Become(c, {}, {"provisionDrop"})
  /\ UNCHANGED <<sourceVars, index, fiber, poller, controller, past>>

(* installTrigger: DROP TRIGGER IF EXISTS, then CREATE TRIGGER.            *)
ProvisionDrop(c) ==
  /\ "provisionDrop" \in requests[c]
  /\ AlterTrigger(FALSE)
  /\ Become(c, {"provisionDrop"}, {"provisionCreate"})
  /\ UNCHANGED <<coll, index, fiber, poller, controller, past>>

ProvisionCreate(c) ==
  /\ "provisionCreate" \in requests[c]
  /\ AlterTrigger(TRUE)
  /\ Become(c, {"provisionCreate"}, {"addInitial"})
  /\ UNCHANGED <<coll, index, fiber, poller, controller, past>>

ProvisionFails(c) ==
  /\ \E s \in {"provisionDrop", "provisionCreate"} :
       s \in requests[c] /\ Become(c, {s}, {})
  /\ coll' = [coll EXCEPT ![c].row = "deleted"]
  /\ UNCHANGED <<sourceVars, index, fiber, poller, controller, past>>

Disable(c) ==
  /\ Live(c) /\ coll[c].enabled /\ NewRequest(c)
  /\ coll' = [coll EXCEPT ![c].enabled = FALSE]
  /\ Become(c, {}, {"remove"})
  /\ UNCHANGED <<sourceVars, index, fiber, poller, controller, past>>

Remove(c) ==
  /\ "remove" \in requests[c]
  /\ Removed(c)
  /\ Become(c, {"remove"}, {})
  /\ UNCHANGED <<sourceVars, coll, index, past>>

(* isInitial of addPgCollection, decided on the row the caller holds.      *)
AddStep(r) == IF r.cursor = 0 /\ ~r.synced THEN "addInitial" ELSE "addPoll"

Enable(c) ==
  /\ Live(c) /\ ~coll[c].enabled /\ NewRequest(c)
  /\ coll' = [coll EXCEPT ![c].enabled = TRUE]
  /\ Become(c, {}, {AddStep(coll[c])})
  /\ UNCHANGED <<sourceVars, index, fiber, poller, controller, past>>

(* resyncCollection, from its own route or after a field mapping change.   *)
(* When the row is gone by then getCollection throws, or, a moment later,  *)
(* the update has no effect and the sync goes on.                          *)
Resync(c) ==
  /\ Live(c) /\ NewRequest(c)
  /\ ResyncOverlap \/ BusyFibers(c) = {}
  /\ Removed(c)
  /\ Become(c, {}, {"reset"})
  /\ past' = [past EXCEPT ![c] = @ \cup {"refill"}]
  /\ UNCHANGED <<sourceVars, coll, index>>

Reset(c) ==
  /\ "reset" \in requests[c]
  /\ SetRow(c, [coll[c] EXCEPT !.status = "idle", !.cursor = 0, !.synced = FALSE])
  /\ \/ Become(c, {"reset"}, {"addInitial"})
     \/ ~Live(c) /\ Become(c, {"reset"}, {})
  /\ UNCHANGED <<sourceVars, index, fiber, poller, controller, past>>

DeleteCollection(c) ==
  /\ Live(c) /\ NewRequest(c)
  /\ Removed(c)
  /\ Become(c, {}, {"untrigger"})
  /\ past' = [past EXCEPT ![c] = @ \cup {"delete"}]
  /\ UNCHANGED <<sourceVars, coll, index>>

(* Deleting the whole project empties its indexes and lets the cascade     *)
(* erase the rows: neither the worker nor the trigger hears of it.         *)
DeleteProject(c) ==
  /\ Live(c) /\ NewRequest(c)
  /\ index' = [index EXCEPT ![c] = EmptyIndex]
  /\ Become(c, {}, {"erase"})
  /\ past' = [past EXCEPT ![c] = @ \cup {"delete"}]
  /\ UNCHANGED <<sourceVars, coll, fiber, poller, controller>>

(* A failure to drop the trigger is logged and ignored.                    *)
Untrigger(c) ==
  /\ "untrigger" \in requests[c]
  /\ AlterTrigger(FALSE) \/ UNCHANGED sourceVars
  /\ Become(c, {"untrigger"}, {"unindex"})
  /\ UNCHANGED <<coll, index, fiber, poller, controller, past>>

Unindex(c) ==
  /\ "unindex" \in requests[c]
  /\ index' = [index EXCEPT ![c] = EmptyIndex]
  /\ Become(c, {"unindex"}, {"erase"})
  /\ UNCHANGED <<sourceVars, coll, fiber, poller, controller, past>>

Erase(c) ==
  /\ "erase" \in requests[c]
  /\ coll' = [coll EXCEPT ![c].row = "deleted"]
  /\ Become(c, {"erase"}, {})
  /\ UNCHANGED <<sourceVars, index, fiber, poller, controller, past>>

(* addCollection: nothing when a timer is registered for the collection.   *)
AddIgnored(c) ==
  /\ poller[c] # None
  /\ \E s \in {"addInitial", "addPoll"} : s \in requests[c] /\ Become(c, {s}, {})
  /\ UNCHANGED <<sourceVars, coll, index, fiber, poller, controller, past>>

AddInitial(c, f) ==
  /\ "addInitial" \in requests[c] /\ poller[c] = None
  /\ fiber[c][f].pc = "idle"
  /\ Goto(c, f, "sync")
  /\ Become(c, {"addInitial"}, {})
  /\ UNCHANGED <<sourceVars, coll, index, poller, controller, past>>

AddPoll(c, f) ==
  /\ "addPoll" \in requests[c] /\ poller[c] = None
  /\ fiber[c][f].pc = "idle"
  /\ Goto(c, f, "timer")
  /\ poller' = [poller EXCEPT ![c] = f]
  /\ controller' = [controller EXCEPT ![c] = f]
  /\ Become(c, {"addPoll"}, {})
  /\ UNCHANGED <<sourceVars, coll, index, past>>

(***************************************************************************)
(* Initial sync                                                            *)
(***************************************************************************)

SyncBegin(c, f) ==
  /\ fiber[c][f].pc = "sync"
  /\ SetRow(c, [coll[c] EXCEPT !.status = "syncing"])
  /\ Goto(c, f, "drop")
  /\ UNCHANGED <<sourceVars, index, poller, controller, requests, past>>

SyncDrop(c, f) ==
  /\ fiber[c][f].pc = "drop"
  /\ AlterTrigger(FALSE)
  /\ Goto(c, f, "create")
  /\ UNCHANGED <<coll, index, poller, controller, requests, past>>

SyncCreate(c, f) ==
  /\ fiber[c][f].pc = "create"
  /\ AlterTrigger(TRUE)
  /\ Goto(c, f, "mark")
  /\ UNCHANGED <<coll, index, poller, controller, requests, past>>

(* (mutant) MAX(id) of an empty outbox, NULL, is stored as it comes.       *)
SyncMarkNull(c, f) ==
  /\ fiber[c][f].pc = "mark"
  /\ outbox = {}
  /\ Step(c, f, [fiber[c][f] EXCEPT !.pc = "open", !.cursor = None])
  /\ UNCHANGED <<sourceVars, coll, index, poller, controller, requests, past>>

(* (mutant) The mark is the sequence's last value, commits pending or not. *)
SyncMarkSequence(c, f) ==
  /\ fiber[c][f].pc = "mark"
  /\ Step(c, f, [fiber[c][f] EXCEPT !.pc = "open", !.cursor = seq])
  /\ UNCHANGED <<sourceVars, coll, index, poller, controller, requests, past>>

(* getCurrentOutboxId: COALESCE(MAX(id), 0).                               *)
SyncMark(c, f) ==
  /\ fiber[c][f].pc = "mark"
  /\ \E m \in 0 .. MaxId :
       /\ IF outbox = {} THEN m = 0 ELSE \E e \in outbox : IsLast(e, outbox) /\ m = e.id
       /\ Step(c, f, [fiber[c][f] EXCEPT !.pc = "open", !.cursor = m])
  /\ past' = [past EXCEPT ![c] = IF index[c] # EmptyIndex THEN @ \cup {"refill"} ELSE @]
  /\ UNCHANGED <<sourceVars, coll, index, poller, controller, requests>>

(* snapshotTable: the database cursor sees the rows committed when it      *)
(* opens, however long the batches take.                                   *)
SyncOpen(c, f) ==
  /\ fiber[c][f].pc = "open"
  /\ Step(c, f, [fiber[c][f] EXCEPT !.pc = "snapshot",
                                     !.todo = {r \in Key \X Val : table[r[1]] = r[2]}])
  /\ UNCHANGED <<sourceVars, coll, index, poller, controller, requests, past>>

SyncBatch(c, f) ==
  /\ fiber[c][f].pc = "snapshot"
  /\ \E D \in SUBSET fiber[c][f].todo :
       /\ D # {}
       /\ index' = [index EXCEPT ![c] = WithDocs(@, D)]
       /\ Step(c, f, [fiber[c][f] EXCEPT !.todo = @ \ D])
  /\ UNCHANGED <<sourceVars, coll, poller, controller, requests, past>>

(* (mutant) The mark is read after the snapshot.                           *)
SyncFinishLateMark(c, f) ==
  /\ fiber[c][f].pc = "snapshot" /\ fiber[c][f].todo = {}
  /\ \E last \in outbox :
       /\ IsLast(last, outbox)
       /\ SetRow(c, [coll[c] EXCEPT !.status = "idle", !.synced = TRUE, !.cursor = last.id])
  /\ Step(c, f, ArmedFiber)
  /\ poller' = [poller EXCEPT ![c] = f]
  /\ controller' = [controller EXCEPT ![c] = f]
  /\ UNCHANGED <<sourceVars, index, requests, past>>

(* The status update, then the first timer.                                *)
SyncFinish(c, f) ==
  /\ fiber[c][f].pc = "snapshot" /\ fiber[c][f].todo = {}
  /\ SetRow(c, [coll[c] EXCEPT !.status = "idle", !.synced = TRUE,
                               !.cursor = fiber[c][f].cursor])
  /\ Step(c, f, ArmedFiber)
  /\ poller' = [poller EXCEPT ![c] = f]
  /\ controller' = [controller EXCEPT ![c] = f]
  /\ UNCHANGED <<sourceVars, index, requests, past>>

SyncFails(c, f) ==
  /\ fiber[c][f].pc \in InitialStep \ {"sync"}
  /\ SetRow(c, [coll[c] EXCEPT !.status = "error"])
  /\ Step(c, f, IdleFiber)
  /\ UNCHANGED <<sourceVars, index, poller, controller, requests, past>>

(***************************************************************************)
(* Polling                                                                 *)
(***************************************************************************)

(* The end of a tick: stop when aborted, otherwise arm the timer again.    *)
Reschedule(c, f) ==
  IF fiber[c][f].aborted
  THEN Step(c, f, IdleFiber) /\ UNCHANGED poller
  ELSE /\ Step(c, f, ArmedFiber)
       /\ poller' = [poller EXCEPT ![c] = f]

Tick(c, f) ==
  /\ fiber[c][f].pc = "timer"
  /\ IF fiber[c][f].aborted THEN Step(c, f, IdleFiber) ELSE Goto(c, f, "read")
  /\ UNCHANGED <<sourceVars, coll, index, poller, controller, requests, past>>

ReadCursor(c, f) ==
  /\ fiber[c][f].pc = "read"
  /\ Live(c) /\ coll[c].enabled
  /\ Step(c, f, [fiber[c][f] EXCEPT !.pc = "poll", !.cursor = coll[c].cursor])
  /\ UNCHANGED <<sourceVars, coll, index, poller, controller, requests, past>>

(* A paused collection is skipped; a missing one makes the poll throw, and *)
(* the status update that follows finds no row.                            *)
ReadSkips(c, f) ==
  /\ fiber[c][f].pc = "read"
  /\ ~(Live(c) /\ coll[c].enabled)
  /\ Reschedule(c, f)
  /\ UNCHANGED <<sourceVars, coll, index, controller, requests, past>>

Unread(c, f) == {e \in outbox : e.id > fiber[c][f].cursor}

PollOutbox(c, f) ==
  /\ fiber[c][f].pc = "poll"
  /\ Unread(c, f) # {}
  /\ Step(c, f, [fiber[c][f] EXCEPT !.pc = "upsert",
                                     !.batch = First(BatchSize, Unread(c, f))])
  /\ UNCHANGED <<sourceVars, coll, index, poller, controller, requests, past>>

(* (mutant) An empty poll returns before the timer is armed again.         *)
PollEmptyStops(c, f) ==
  /\ fiber[c][f].pc = "poll"
  /\ Unread(c, f) = {}
  /\ Step(c, f, IdleFiber)
  /\ UNCHANGED <<sourceVars, coll, index, poller, controller, requests, past>>

PollEmpty(c, f) ==
  /\ fiber[c][f].pc = "poll"
  /\ Unread(c, f) = {}
  /\ Reschedule(c, f)
  /\ UNCHANGED <<sourceVars, coll, index, controller, requests, past>>

SendUpserts(c, f) ==
  /\ fiber[c][f].pc = "upsert"
  /\ index' = [index EXCEPT ![c] = WithUpserts(@, fiber[c][f].batch)]
  /\ Goto(c, f, "delete")
  /\ UNCHANGED <<sourceVars, coll, poller, controller, requests, past>>

SendDeletes(c, f) ==
  /\ fiber[c][f].pc = "delete"
  /\ index' = [index EXCEPT ![c] = WithDeletes(@, fiber[c][f].batch)]
  /\ Goto(c, f, "gc")
  /\ UNCHANGED <<sourceVars, coll, poller, controller, requests, past>>

(* gcOutbox: by table and id, whoever else may still have to read them.    *)
GcOutbox(c, f) ==
  /\ fiber[c][f].pc = "gc"
  /\ \E last \in fiber[c][f].batch :
       /\ IsLast(last, fiber[c][f].batch)
       /\ outbox' = {e \in outbox : e.id > last.id}
  /\ Goto(c, f, "save")
  /\ UNCHANGED <<table, dead, inflight, seq, trigger,
                 coll, index, poller, controller, requests, past>>

SaveCursor(c, f) ==
  /\ fiber[c][f].pc = "save"
  /\ \E last \in fiber[c][f].batch :
       /\ IsLast(last, fiber[c][f].batch)
       /\ SetRow(c, [coll[c] EXCEPT !.status = "idle", !.synced = TRUE,
                                    !.cursor = last.id])
  /\ Reschedule(c, f)
  /\ UNCHANGED <<sourceVars, index, controller, requests, past>>

PollFails(c, f) ==
  /\ fiber[c][f].pc \in PollStep
  /\ SetRow(c, [coll[c] EXCEPT !.status = "error"])
  /\ Reschedule(c, f)
  /\ UNCHANGED <<sourceVars, index, controller, requests, past>>

(* The status update of the catch block throws too: a poll loop ends with  *)
(* its timer handle still registered, an initial sync with its status as   *)
(* it was (so does one whose very first update throws).                    *)
FiberDies(c, f) ==
  /\ StatusWriteFails
  /\ fiber[c][f].pc \in Busy
  /\ Step(c, f, IdleFiber)
  /\ UNCHANGED <<sourceVars, coll, index, poller, controller, requests, past>>

(***************************************************************************)
(* The process stops, at any point, and starts again: start() adds every   *)
(* enabled collection whose status is not "error".  It adds them one after *)
(* another; here in any order, possibly side by side.                      *)
(***************************************************************************)

Restart ==
  /\ fiber' = [c \in Coll |-> [f \in Fiber |-> IdleFiber]]
  /\ poller' = [c \in Coll |-> None]
  /\ controller' = [c \in Coll |-> None]
  /\ requests' = [c \in Coll |->
       IF Live(c) /\ coll[c].enabled /\ coll[c].status # "error"
       THEN {AddStep(coll[c])} ELSE {}]
  /\ UNCHANGED <<sourceVars, coll, index, past>>

-----------------------------------------------------------------------------

Source == \/ \E k \in Key, v \in Cell : Write(k, v)
          \/ \E e \in inflight : Commit(e) \/ Rollback(e)

Admin(c) == \/ CreateCollection(c) \/ ProvisionDrop(c) \/ ProvisionCreate(c)
            \/ ProvisionFails(c)
            \/ Disable(c) \/ Remove(c) \/ Enable(c)
            \/ Resync(c) \/ Reset(c)
            \/ DeleteCollection(c) \/ DeleteProject(c) \/ Untrigger(c) \/ Unindex(c) \/ Erase(c)
            \/ AddIgnored(c)

InitialSync(c, f) ==
  \/ AddInitial(c, f) \/ SyncBegin(c, f) \/ SyncDrop(c, f) \/ SyncCreate(c, f)
  \/ SyncMark(c, f) \/ SyncOpen(c, f) \/ SyncBatch(c, f) \/ SyncFinish(c, f)

Poll(c, f) ==
  \/ AddPoll(c, f) \/ Tick(c, f) \/ ReadCursor(c, f) \/ ReadSkips(c, f)
  \/ PollOutbox(c, f) \/ PollEmpty(c, f) \/ SendUpserts(c, f) \/ SendDeletes(c, f)
  \/ GcOutbox(c, f) \/ SaveCursor(c, f)

Fault(c, f) == SyncFails(c, f) \/ PollFails(c, f) \/ FiberDies(c, f)

Next == \/ Source
        \/ \E c \in Coll : Admin(c)
        \/ \E c \in Coll, f \in Fiber :
             InitialSync(c, f) \/ Poll(c, f) \/ Fault(c, f)
        \/ Restart

Spec == Init /\ [][Next]_vars

(***************************************************************************)
(* Properties                                                              *)
(***************************************************************************)

SourceType ==
  /\ table \in [Key -> Cell]
  /\ dead \in SUBSET Key
  /\ inflight \in SUBSET Change
  /\ outbox \in SUBSET Change
  /\ seq \in 0 .. MaxId
  /\ trigger \in BOOLEAN

WorkerType ==
  /\ fiber \in [Coll -> [Fiber -> FiberState]]
  /\ poller \in [Coll -> Fiber \cup {None}]
  /\ controller \in [Coll -> Fiber \cup {None}]

RequestType == requests \in [Coll -> SUBSET RequestStep]

StoreType ==
  /\ coll \in [Coll -> CollRow]
  /\ index \in [Coll -> [Key -> Cell]]

HistoryType == past \in [Coll -> SUBSET {"refill", "delete"}]

TypeOK == SourceType /\ StoreType /\ WorkerType /\ RequestType /\ HistoryType

(* The collection claims to be in sync, nothing is left to read for it and *)
(* no request or activity of its own is under way.                         *)
Quiescent(c) ==
  /\ Live(c) /\ coll[c].enabled /\ coll[c].synced /\ coll[c].status = "idle"
  /\ requests[c] = {} /\ BusyFibers(c) = {} /\ Pending(c) = {}

(* No change is lost: a collection that is idle with nothing to read has   *)
(* the current contents of every row of the table in its index, whatever   *)
(* failures, restarts, pauses and resyncs came before.  A deletion that a  *)
(* restart cut short is the exception: the row stays, its trigger is gone. *)
LiveRowsIndexed ==
  \A c \in Coll : Quiescent(c) /\ "delete" \notin past[c] =>
    \A k \in Key : table[k] # Absent => index[c][k] = table[k]

(* No deleted row stays searchable in a collection that is idle with       *)
(* nothing to read.  (Violated after a resync, see NoStaleAfterFirstFill.) *)
NoStaleDocs ==
  \A c \in Coll : Quiescent(c) =>
    \A k \in Key : table[k] = Absent => index[c][k] = Absent

(* The same as long as no resync was requested, no initial sync ran over   *)
(* an index that already held documents and no deletion began: refilling   *)
(* an index is the only source of stale documents.                         *)
NoStaleAfterFirstFill ==
  \A c \in Coll : Quiescent(c) /\ past[c] = {} =>
    \A k \in Key : table[k] = Absent => index[c][k] = Absent

(* A change leaves the outbox only when the index of every collection that *)
(* still has to read it shows it, or a later change of the row is waiting. *)
OnlyAppliedLeaves ==
  \A e \in outbox \ outbox', c \in Coll :
    Live(c) /\ coll[c].synced /\ e.id > coll[c].cursor /\ "delete" \notin past[c] =>
      \/ index[c][e.key] = e.val
      \/ \E d \in outbox : d.key = e.key /\ d.id > e.id

(* Every step keeps to that: gcOutbox never deletes a change too early.    *)
GcOnlyApplied == [][OnlyAppliedLeaves]_vars

(* An enabled collection that reports no error is being polled, filled, or *)
(* about to be: it is never left without an activity until a restart.      *)
EnabledIsPolled ==
  \A c \in Coll :
    Live(c) /\ coll[c].enabled /\ coll[c].status # "error" /\ requests[c] = {} =>
      \E f \in Fiber : fiber[c][f].pc # "idle" /\ ~fiber[c][f].aborted

(* A deleted collection leaves no index behind once its activities end.    *)
DeletedLeavesNoIndex ==
  \A c \in Coll :
    coll[c].row = "deleted" /\ requests[c] = {} /\ BusyFibers(c) = {} =>
      index[c] = EmptyIndex

(***************************************************************************)
(* The inductive invariant behind LiveRowsIndexed and GcOnlyApplied for    *)
(* one collection with one fiber, commits in id order, keys not reused and *)
(* admin requests that do not overlap.                                     *)
(***************************************************************************)

LastOfKey(e, S) == e \in S /\ \A d \in S : d.key = e.key => d.id <= e.id

(* Source table: ids are unique, in commit order and never above seq; a    *)
(* transaction is recorded exactly when the trigger is installed; nothing  *)
(* happens to a key after its delete.                                      *)
OutboxInv ==
  /\ IsFiniteSet(outbox)
  /\ \A e \in outbox : 0 < e.id /\ e.id <= seq
  /\ \A d, e \in outbox : d.id = e.id => d = e
  /\ \A e \in outbox : \E d \in outbox : d.key = e.key /\ LastOfKey(d, outbox)
  /\ \A e \in outbox : e.val = Absent => e.key \in dead /\ LastOfKey(e, outbox)

InflightInv ==
  /\ \A e \in inflight : e.id <= seq /\ (e.id # 0 <=> trigger) /\ e.key \notin dead
  /\ \A d, e \in inflight : d.key = e.key \/ (trigger /\ d.id = e.id) => d = e
  /\ trigger => \A d \in outbox, e \in inflight : d.id < e.id

SourceInv == OutboxInv /\ InflightInv

(* Which requests and which steps of the fiber can meet.                   *)
ControlInv(c, f) ==
  /\ \A r, s \in requests[c] : r = s
  /\ requests[c] # {} => fiber[c][f].pc \notin InitialStep
  /\ fiber[c][f].pc = "timer" => poller[c] = f

(* What they tell of the collection's row until its deletion begins.       *)
RowInv(c, f) ==
  "delete" \notin past[c] =>
    /\ coll[c].row = "live" \/ (requests[c] = {} /\ fiber[c][f].pc = "idle")
    /\ coll[c].row = "none" => ~coll[c].synced
    /\ requests[c] \cap {"untrigger", "unindex", "erase"} = {}
    /\ coll[c].cursor # 0 => coll[c].synced
    /\ requests[c] \cap {"provisionDrop", "provisionCreate", "reset"} # {} =>
         fiber[c][f].pc = "idle"
    /\ requests[c] \cap {"provisionDrop", "provisionCreate", "addInitial"} # {} =>
         ~coll[c].synced
    /\ "addPoll" \in requests[c] => coll[c].synced
    /\ fiber[c][f].pc \in InitialStep => ~coll[c].synced
    /\ fiber[c][f].pc \in PollStep \cup {"timer"} => coll[c].synced
    /\ coll[c].synced \/ fiber[c][f].pc \in {"mark", "open", "snapshot"} => trigger

(* The changes recorded after id m end with the current row of their key.  *)
Unapplied(m, k) == {e \in outbox : e.id > m /\ e.key = k}
TailCurrent(m) ==
  \A e \in outbox : e.id > m /\ LastOfKey(e, outbox) => e.val = table[e.key]
(* Every change that may still come is after m.                            *)
NothingBehind(m) == m <= seq /\ \A e \in inflight : m < e.id

(* A filled index differs from the table only where a change after the     *)
(* cursor is still in the outbox.                                          *)
FilledInv(c) ==
  coll[c].synced /\ "delete" \notin past[c] =>
    /\ NothingBehind(coll[c].cursor)
    /\ TailCurrent(coll[c].cursor)
    /\ \A k \in Key : table[k] # Absent /\ Unapplied(coll[c].cursor, k) = {}
                       => index[c][k] = table[k]

(* While it is being filled, the same holds of the rows already sent, with *)
(* the id marked before the snapshot in place of the cursor.               *)
FillingInv(c, f) ==
  "delete" \notin past[c] =>
    /\ fiber[c][f].pc \in {"open", "snapshot"} =>
         NothingBehind(fiber[c][f].cursor) /\ TailCurrent(fiber[c][f].cursor)
    /\ fiber[c][f].pc = "snapshot" =>
         \A k \in Key : Unapplied(fiber[c][f].cursor, k) = {} =>
           /\ \A v \in Val : <<k, v>> \in fiber[c][f].todo => v = table[k]
           /\ table[k] # Absent /\ <<k, table[k]>> \notin fiber[c][f].todo
                => index[c][k] = table[k]

(* The batch in hand is a prefix of what the outbox holds after the cursor *)
(* until it is deleted there, and by then its effect is in the index.      *)
PollingInv(c, f) ==
  LET fb == fiber[c][f] IN
  "delete" \notin past[c] =>
    /\ fb.pc = "poll" => fb.cursor = coll[c].cursor
    /\ fb.pc \in {"upsert", "delete", "gc"} =>
         \A e \in fb.batch :
           /\ e \in outbox /\ e.id > coll[c].cursor
           /\ \A d \in outbox : coll[c].cursor < d.id /\ d.id <= e.id => d \in fb.batch
    /\ fb.pc \in {"delete", "gc"} =>
         \A e \in fb.batch : LastOfKey(e, fb.batch) /\ (e.val # Absent \/ fb.pc = "gc")
                             => index[c][e.key] = e.val
    /\ fb.pc = "save" =>
         \A e \in fb.batch : /\ NothingBehind(e.id) /\ coll[c].cursor < e.id
                             /\ \A d \in outbox : e.id < d.id

IInv(c, f) == /\ SourceInv /\ ControlInv(c, f) /\ RowInv(c, f) /\ FilledInv(c)
              /\ FillingInv(c, f) /\ PollingInv(c, f)

InductiveInv == \A c \in Coll, f \in Fiber : IInv(c, f)

(* What the process schedules: timers fire, awaited calls return, open     *)
(* transactions end.  Nothing obliges an admin to send a request, a writer *)
(* to write, or anything to fail.                                          *)
FairSpec ==
  /\ Spec
  /\ \A k \in Key : WF_vars(\E e \in inflight : e.key = k /\ (Commit(e) \/ Rollback(e)))
  /\ \A c \in Coll :
       /\ WF_vars(ProvisionDrop(c) \/ ProvisionCreate(c))
       /\ WF_vars(Remove(c) \/ Reset(c) \/ Untrigger(c) \/ Unindex(c) \/ Erase(c))
       /\ WF_vars(AddIgnored(c))
       /\ \A f \in Fiber : WF_vars(InitialSync(c, f)) /\ WF_vars(Poll(c, f))

IndexCurrent(c) == \A k \in Key : table[k] # Absent => index[c][k] = table[k]

(* The index catches up: when a collection stays enabled, filled and free  *)
(* of errors and nobody sends requests any more, its index ends up with    *)
(* every row of the table, and stays so once the writers stop.             *)
CatchesUp ==
  \A c \in Coll :
    <>[](/\ Live(c) /\ coll[c].enabled /\ coll[c].synced /\ coll[c].status = "idle"
         /\ requests[c] = {} /\ "delete" \notin past[c])
      => <>[]IndexCurrent(c)

(* The same without the premise on the status: an enabled collection that  *)
(* has been filled recovers on its own once calls no longer fail.          *)
(* (Violated: start() passes over a collection whose status is "error".)   *)
RecoversFromFaults ==
  \A c \in Coll :
    (/\ <>[][\A f \in Fiber : ~Fault(c, f)]_vars
     /\ <>[](/\ Live(c) /\ coll[c].enabled /\ coll[c].synced
             /\ requests[c] = {} /\ "delete" \notin past[c]))
      => <>[]IndexCurrent(c)

=============================================================================
