---------------------------- MODULE FileBrowser ----------------------------
(***************************************************************************)
(* The file browser of storage-ui: the page of one folder (pages/files.tsx *)
(* and hooks/use-folder-cache.ts), the cache of listings behind it         *)
(* (hooks/folder-cache-context.ts), the dialogs that change the folder,    *)
(* the upload dialog with its tus client (components/upload-zone.tsx,      *)
(* lib/tus.ts, lib/folder-upload.ts), the search and the share dialog.     *)
(* The server is what the pages see of it: what is in each folder.  Only   *)
(* this browser changes it.                                                *)
(***************************************************************************)
EXTENDS Naturals, FiniteSets

CONSTANTS Folder, Item, Upload, Query, None, Asked,
          Start,      \* what is in each folder at first
          Size,       \* the chunks of an upload
          MaxActs,    \* a bound: what the person does
          MaxFaults   \* a bound: requests that fail

ASSUME BrowserAssumption ==
    /\ Upload \subseteq Item /\ Start \in [Folder -> SUBSET (Item \ Upload)]
    /\ Size \in [Upload -> Nat] /\ {MaxActs, MaxFaults} \subseteq Nat

VARIABLES
  server,   \* what is in each folder
  cache,    \* the listings kept: None, or the items and whether the TTL still runs
  flight,   \* the listing requested: None, Asked, or what the server has read
  page,     \* the folder of the address
  result,   \* what the page has: of which folder, and its items or None
  mount,    \* the page waits for its first listing
  subs,     \* the folders a listener of the cache waits for
  change,   \* the request of each dialog
  up,       \* the uploads
  list,     \* the uploads in the dialog
  tree,     \* the folder being uploaded
  query, timer, flying, found,  \* the search: typed, waiting, asked (with its controller), answered
  share, link, linking,         \* the share dialog: its file, the file of its link, requests
  acts, faults,
  missed    \* the folders whose listing missed a change

cached == <<cache, flight, result, mount, subs>>
upload == <<up, list>>
search == <<query, timer, flying, found>>
shared == <<share, link, linking>>
vars   == <<server, cached, page, change, upload, tree, search, shared, acts, faults, missed>>

Kind == {"create", "delete", "rename"}
Act  == acts < MaxActs /\ acts' = acts + 1 /\ UNCHANGED faults
Fault == faults < MaxFaults /\ faults' = faults + 1 /\ UNCHANGED acts

Valid(c, f) == c[f] # None /\ c[f].fresh
Kept(items) == [items |-> items, fresh |-> TRUE]
Got(f, items) == [folder |-> f, items |-> items]
Contents == result.folder = page /\ result.items # None  \* the page shows the folder

-----------------------------------------------------------------------------
(* FolderCacheStore and useFolderContents *)

(* fetch: a request under way is shared *)
AskFor(f) == IF flight[f] = None THEN [flight EXCEPT ![f] = Asked] ELSE flight

(* emit: the page takes what is kept, or asks and waits; `at' are the
   folders that changed while their listing was under way. *)
Emit(c, at) ==
  /\ cache' = c
  /\ IF Valid(c, page)
     THEN /\ result' = Got(page, c[page].items)
          /\ missed' = missed \cup at
          /\ UNCHANGED <<flight, subs>>
     ELSE /\ flight' = AskFor(page) /\ subs' = subs \cup {page}
          /\ missed' = (missed \cup at) \ (IF flight[page] = None THEN {page} ELSE {})
          /\ UNCHANGED result
  /\ UNCHANGED mount

Overtaken(f) == {g \in {f} : flight[g] # None}
Invalidate(f) == Emit([cache EXCEPT ![f] = None], Overtaken(f))

UpdateCached(f, items) ==
  IF cache[f] = None THEN UNCHANGED <<cached, missed>>
  ELSE Emit([cache EXCEPT ![f] = Kept(items)], {})

(* the server reads a folder for a listing *)
Read(f) ==
  /\ flight[f] = Asked
  /\ flight' = [flight EXCEPT ![f] = server[f]]
  /\ UNCHANGED <<server, cache, page, result, mount, subs, change, upload, tree, search, shared,
                 acts, faults, missed>>

(* without contents the upload dialog is unmounted, and what it was about
   to show is not shown *)
Unmount ==
  /\ list' = {}
  /\ tree' = IF tree = None THEN None ELSE [tree EXCEPT !.here = FALSE]

(* who waits for a listing: the page, unless it was left (cancelled), and
   the listener, even when it was left *)
Waiting(f) == (mount /\ page = f) \/ f \in subs

Settled(f, items) ==
  /\ flight' = [flight EXCEPT ![f] = None]
  /\ result' = IF Waiting(f) THEN Got(f, items) ELSE result
  /\ mount' = (mount /\ page # f)
  /\ subs' = subs \ {f}

Listed(f) ==
  /\ flight[f] \notin {None, Asked}
  /\ cache' = [cache EXCEPT ![f] = Kept(flight[f])]
  /\ Settled(f, flight[f])
  /\ IF Waiting(f) /\ page # f THEN Unmount ELSE UNCHANGED <<list, tree>>
  /\ UNCHANGED <<server, page, change, up, search, shared, acts, faults, missed>>

(* mutant: nobody is told *)
ListingFailsSilently(f) ==
  /\ flight[f] # None /\ Fault
  /\ flight' = [flight EXCEPT ![f] = None]
  /\ mount' = (mount /\ page # f) /\ subs' = subs \ {f} /\ missed' = missed \cup {f}
  /\ UNCHANGED <<server, cache, page, result, change, upload, tree, search, shared>>

ListingFails(f) ==
  /\ flight[f] # None /\ Fault
  /\ Settled(f, None)
  /\ IF Waiting(f) THEN Unmount ELSE UNCHANGED <<list, tree>>
  /\ UNCHANGED <<server, cache, page, change, up, search, shared, missed>>

(* The address changes, by a click or the back button: contents of another
   folder are not shown, so the upload dialog is unmounted. *)
Navigate(f) ==
  /\ f # page /\ Act
  /\ page' = f /\ Unmount
  /\ IF Valid(cache, f)
     THEN result' = Got(f, cache[f].items) /\ mount' = FALSE /\ UNCHANGED <<flight, missed>>
     ELSE /\ mount' = TRUE /\ flight' = AskFor(f)
          /\ missed' = IF flight[f] = None THEN missed \ {f} ELSE missed
          /\ UNCHANGED result
  /\ UNCHANGED <<server, cache, subs, change, up, search, shared>>

(* the pointer moves over a folder in the list *)
Prefetch(f) ==
  /\ Contents /\ f # page /\ ~Valid(cache, f) /\ flight[f] = None /\ Act
  /\ flight' = AskFor(f) /\ missed' = missed \ {f}
  /\ UNCHANGED <<server, cache, page, result, mount, subs, change, upload, tree, search, shared>>

(* CACHE_TTL passes *)
Expire(f) ==
  /\ Valid(cache, f) /\ Act
  /\ cache' = [cache EXCEPT ![f].fresh = FALSE]
  /\ UNCHANGED <<server, flight, page, result, mount, subs, change, upload, tree, search, shared,
                 missed>>

-----------------------------------------------------------------------------
(* create-folder-dialog.tsx, delete-dialog.tsx, rename-dialog.tsx: the
   first two show the outcome before they know it. *)

Submit(k, i, j) ==
  /\ change[k] = None /\ Contents /\ Act
  /\ change' = [change EXCEPT ![k] = [folder |-> page, item |-> i, new |-> j, step |-> "sent"]]
  /\ UNCHANGED <<server, page, upload, tree, search, shared>>

CreateSubmit(i) ==
  /\ Submit("create", i, i)
  /\ UpdateCached(page, IF cache[page] = None THEN {} ELSE cache[page].items \cup {i})

DeleteSubmit(i) ==
  /\ Submit("delete", i, i) /\ i \in result.items
  /\ UpdateCached(page, IF cache[page] = None THEN {} ELSE cache[page].items \ {i})

RenameSubmit(i, j) ==
  /\ i # j /\ Submit("rename", i, j) /\ i \in result.items
  /\ UNCHANGED <<cached, missed>>

(* the server refuses a name that is taken and an item that is gone *)
Serve(k) ==
  LET c == change[k]  f == c.folder IN
  /\ c # None /\ c.step = "sent"
  /\ LET ok == CASE k = "create" -> c.item \notin server[f]
                 [] k = "delete" -> c.item \in server[f]
                 [] k = "rename" -> c.item \in server[f] /\ c.new \notin server[f]
         was == IF k = "create" THEN server[f] ELSE server[f] \ {c.item}
     IN /\ change' = [change EXCEPT ![k].step = IF ok THEN "done" ELSE "refused"]
        /\ server' = IF ~ok THEN server
                     ELSE [server EXCEPT ![f] = IF k = "delete" THEN was ELSE was \cup {c.new}]
  /\ UNCHANGED <<cached, page, upload, tree, search, shared, acts, faults, missed>>

(* mutant: a new name is left to the next listing *)
RenameDoneLater ==
  LET c == change["rename"] IN
  /\ c # None /\ c.step = "done"
  /\ change' = [change EXCEPT !["rename"] = None]
  /\ UNCHANGED <<server, cached, page, upload, tree, search, shared, acts, faults, missed>>

RenameDone ==
  LET c == change["rename"] IN
  /\ c # None /\ c.step = "done"
  /\ change' = [change EXCEPT !["rename"] = None]
  /\ Invalidate(c.folder)
  /\ UNCHANGED <<server, page, upload, tree, search, shared, acts, faults>>

(* the page already shows the folder without the item, unless a listing
   came in between *)
DeleteDone ==
  LET c == change["delete"]  f == c.folder IN
  /\ c # None /\ c.step = "done"
  /\ change' = [change EXCEPT !["delete"] = None]
  /\ missed' = IF flight[f] # None \/ (cache[f] # None /\ c.item \in cache[f].items)
               THEN missed \cup {f} ELSE missed
  /\ UNCHANGED <<server, cached, page, upload, tree, search, shared, acts, faults>>

(* the answer says no, or is lost: then a new name may be in force *)
ChangeFails(k) ==
  LET c == change[k]  f == c.folder IN
  /\ c # None
  /\ \/ c.step = "refused" /\ UNCHANGED <<acts, faults>>
     \/ Fault
  /\ change' = [change EXCEPT ![k] = None]
  /\ IF k = "rename"
     THEN /\ missed' = IF c.step = "done" THEN missed \cup {f} ELSE missed
          /\ UNCHANGED cached
     ELSE Invalidate(f)
  /\ UNCHANGED <<server, page, upload, tree, search, shared>>

CreateDone ==
  LET c == change["create"] IN
  /\ c # None /\ c.step = "done"
  /\ change' = [change EXCEPT !["create"] = None]
  /\ Invalidate(c.folder)
  /\ UNCHANGED <<server, page, upload, tree, search, shared, acts, faults>>

-----------------------------------------------------------------------------
(* upload-zone.tsx and tus.ts: one request at a time for each upload. *)

(* the effect behind allSucceeded empties the list and closes the dialog *)
Show(l, ups) ==
  list' = IF \A u \in l : ups[u].status = "completed" THEN {} ELSE l

Began(dir) == [status |-> "uploading", dir |-> dir, req |-> "post", stored |-> 0, running |-> TRUE]

AddFile(u) ==
  /\ up[u] = None /\ Contents /\ Act
  /\ up' = [up EXCEPT ![u] = Began(page)]
  /\ list' = list \cup {u}
  /\ UNCHANGED <<server, cached, page, change, tree, search, shared, missed>>

Requested(u, r) == up[u] # None /\ up[u].req = r

(* POST makes a row, PATCH appends a chunk, the last one makes the file *)
ServePost(u) ==
  /\ Requested(u, "post")
  /\ up' = [up EXCEPT ![u].req = IF up[u].running THEN "answer" ELSE "none"]
  /\ UNCHANGED <<server, cached, page, change, list, tree, search, shared, acts, faults, missed>>

Dir(u) == up[u].dir
ServePatch(u) ==
  LET last == up[u].stored + 1 = Size[u] IN
  /\ Requested(u, "patch")
  /\ up' = [up EXCEPT ![u].req = IF up[u].running THEN "answer" ELSE "none",
                      ![u].stored = @ + 1]
  /\ server' = IF last /\ Dir(u) # None THEN [server EXCEPT ![Dir(u)] = @ \cup {u}] ELSE server
  /\ missed' = IF last /\ ~up[u].running THEN missed \cup ({Dir(u)} \cap Folder) ELSE missed
  /\ UNCHANGED <<cached, page, change, list, tree, search, shared, acts, faults>>

(* the loop of createTusUpload: the offset of the answer, the next chunk *)
NextChunk(u) ==
  /\ Requested(u, "answer") /\ up[u].stored < Size[u]
  /\ up' = [up EXCEPT ![u].req = "patch"]
  /\ UNCHANGED <<server, cached, page, change, list, tree, search, shared, acts, faults, missed>>

(* completed: the folder the dialog was opened in is listed again *)
UploadDone(u) ==
  /\ Requested(u, "answer") /\ up[u].stored >= Size[u]
  /\ up' = [up EXCEPT ![u].req = "none", ![u].status = "completed", ![u].running = FALSE]
  /\ Show(list, up')
  /\ IF Dir(u) = None THEN UNCHANGED <<cached, missed>> ELSE Invalidate(Dir(u))
  /\ UNCHANGED <<server, page, change, tree, search, shared, acts, faults>>

(* a request or its answer is lost, or refused: the upload ends there *)
UploadFails(u) ==
  /\ up[u] # None /\ up[u].running /\ Fault
  /\ up' = [up EXCEPT ![u].req = "none", ![u].status = "error", ![u].running = FALSE]
  /\ missed' = IF up[u].stored > 0 /\ up[u].stored = Size[u]
               THEN missed \cup ({Dir(u)} \cap Folder) ELSE missed
  /\ UNCHANGED <<server, cached, page, change, list, tree, search, shared>>

(* cancelUpload: the request is aborted, wherever it is; no DELETE is sent,
   for the loop is always in a request *)
CancelUpload(u) ==
  /\ u \in list /\ Act
  /\ Show(list \ {u}, up)
  /\ up' = IF up[u].running
           THEN [up EXCEPT ![u].running = FALSE, ![u].status = "cancelled",
                           ![u].req = IF @ = "answer" THEN "none" ELSE @]
           ELSE up
  /\ missed' = IF up[u].running /\ up[u].stored > 0 /\ up[u].stored = Size[u]
               THEN missed \cup ({Dir(u)} \cap Folder) ELSE missed
  /\ UNCHANGED <<server, cached, page, change, tree, search, shared>>

(* an aborted request need not have reached the server *)
NeverServed(u) ==
  /\ up[u] # None /\ up[u].status = "cancelled" /\ up[u].req # "none"
  /\ up' = [up EXCEPT ![u].req = "none"]
  /\ UNCHANGED <<server, cached, page, change, list, tree, search, shared, acts, faults, missed>>

ClearCompleted ==
  /\ \E u \in list : up[u].status = "completed" /\ Act
  /\ list' = {u \in list : up[u].status # "completed"}
  /\ UNCHANGED <<server, cached, page, change, up, tree, search, shared, missed>>

-----------------------------------------------------------------------------
(* folder-upload.ts: a dropped folder is created under a name that is free,
   its subfolders inside, then its files are uploaded there. *)

DropTree(u, i, j) ==
  /\ tree = None /\ up[u] = None /\ Contents /\ i # j /\ Act
  /\ tree' = [folder |-> page, upload |-> u, left |-> {j}, name |-> i,
              here |-> TRUE, step |-> "root"]
  /\ UNCHANGED <<server, cached, page, change, upload, search, shared, missed>>

(* createFolderDeduped: a name that is taken is left for the next one *)
TreeRoot ==
  LET f == tree.folder IN
  /\ tree # None /\ tree.step = "root"
  /\ IF tree.name \notin server[f]
     THEN tree' = [tree EXCEPT !.step = "sub"]
     ELSE \E n \in tree.left : tree' = [tree EXCEPT !.name = n, !.left = @ \ {n}]
  /\ server' = [server EXCEPT ![f] = @ \cup {tree.name}]
  /\ UNCHANGED <<cached, page, change, upload, search, shared, acts, faults, missed>>

(* the subfolders are there: the folder is listed again, the upload begins *)
TreeDone ==
  LET u == tree.upload IN
  /\ tree # None /\ tree.step = "sub"
  /\ tree' = None
  /\ Invalidate(tree.folder)
  /\ IF up[u] = None
     THEN /\ up' = [up EXCEPT ![u] = Began(None)]
          /\ list' = IF tree.here THEN list \cup {u} ELSE list
     ELSE UNCHANGED upload
  /\ UNCHANGED <<server, page, change, search, shared, acts, faults>>

TreeFails ==
  /\ tree # None
  /\ \/ tree.step = "root" /\ tree.left = {} /\ tree.name \in server[tree.folder]
        /\ UNCHANGED <<acts, faults>>
     \/ Fault
  /\ tree' = None
  /\ Invalidate(tree.folder)
  /\ UNCHANGED <<server, page, change, upload, search, shared>>

-----------------------------------------------------------------------------
(* the search of files.tsx: after 300 ms, with the controller of the text
   as it was then *)

Type(q) ==
  /\ q # query /\ Act
  /\ query' = q /\ timer' = (q # None)
  /\ flying' = {[a EXCEPT !.live = FALSE] : a \in flying}
  /\ UNCHANGED <<server, cached, page, change, upload, tree, found, shared, missed>>

AskSearch ==
  /\ timer /\ timer' = FALSE
  /\ flying' = flying \cup {[of |-> query, live |-> TRUE]}
  /\ UNCHANGED <<server, cached, page, change, upload, tree, query, found, shared, acts, faults,
                 missed>>

SearchAnswer(a) ==
  /\ a \in flying
  /\ flying' = flying \ {a}
  /\ found' = IF a.live THEN a.of ELSE found
  /\ UNCHANGED <<server, cached, page, change, upload, tree, query, timer, shared, acts, faults,
                 missed>>

-----------------------------------------------------------------------------
(* share-dialog.tsx *)

OpenShare(i) ==
  /\ share = None /\ Contents /\ i \in result.items /\ Act
  /\ share' = i
  /\ UNCHANGED <<server, cached, page, change, upload, tree, search, link, linking, missed>>

CloseShare ==
  /\ share # None
  /\ share' = None /\ link' = None
  /\ UNCHANGED <<server, cached, page, change, upload, tree, search, linking, acts, faults, missed>>

CreateLink ==
  /\ share # None /\ link = None /\ linking = {}
  /\ linking' = {share}
  /\ UNCHANGED <<server, cached, page, change, upload, tree, search, share, link, acts, faults,
                 missed>>

LinkAnswer(i) ==
  /\ i \in linking
  /\ linking' = {} /\ link' \in {link, i}
  /\ UNCHANGED <<server, cached, page, change, upload, tree, search, share, acts, faults, missed>>

-----------------------------------------------------------------------------
Init ==
  /\ server = Start /\ page \in Folder
  /\ cache = [f \in Folder |-> None]
  /\ flight = [f \in Folder |-> IF f = page THEN Asked ELSE None]
  /\ result = Got(None, None) /\ mount = TRUE /\ subs = {}
  /\ change = [k \in Kind |-> None]
  /\ up = [u \in Upload |-> None] /\ list = {} /\ tree = None
  /\ query = None /\ timer = FALSE /\ flying = {} /\ found = None
  /\ share = None /\ link = None /\ linking = {}
  /\ acts = 0 /\ faults = 0 /\ missed = {}

Listing(f) == Read(f) \/ Listed(f) \/ ListingFails(f) \/ Navigate(f) \/ Prefetch(f) \/ Expire(f)

Dialogs ==
  \/ \E i \in Item \ Upload : CreateSubmit(i)
  \/ \E i \in Item : DeleteSubmit(i) \/ \E j \in Item \ Upload : RenameSubmit(i, j)
  \/ \E k \in Kind : Serve(k) \/ ChangeFails(k)
  \/ CreateDone \/ DeleteDone \/ RenameDone

Uploading(u) ==
  \/ AddFile(u) \/ ServePost(u) \/ ServePatch(u) \/ NextChunk(u) \/ UploadDone(u)
  \/ UploadFails(u) \/ CancelUpload(u) \/ NeverServed(u)

Trees ==
  \/ \E u \in Upload, i, j \in Item \ Upload : DropTree(u, i, j)
  \/ TreeRoot \/ TreeDone \/ TreeFails

Searching ==
  \/ \E q \in Query \cup {None} : Type(q)
  \/ AskSearch
  \/ \E a \in flying : SearchAnswer(a)

Sharing == CloseShare \/ CreateLink \/ \E i \in Item : OpenShare(i) \/ LinkAnswer(i)

Next ==
  \/ \E f \in Folder : Listing(f)
  \/ \E u \in Upload : Uploading(u)
  \/ Dialogs \/ ClearCompleted \/ Trees \/ Searching \/ Sharing

Spec == Init /\ [][Next]_vars

(* Requests are answered or fail. *)
FairSpec ==
  /\ Spec
  /\ \A f \in Folder : WF_vars(Read(f)) /\ WF_vars(Listed(f))

-----------------------------------------------------------------------------
(* The types of the state; what is in progress belongs to what is shown. *)
TypeOK ==
  /\ server \in [Folder -> SUBSET Item] /\ page \in Folder
  /\ cache \in [Folder -> {None} \cup [items : SUBSET Item, fresh : BOOLEAN]]
  /\ flight \in [Folder -> {None, Asked} \cup SUBSET Item]
  /\ result \in [folder : Folder \cup {None}, items : {None} \cup SUBSET Item]
  /\ mount \in BOOLEAN /\ subs \subseteq Folder
  /\ (mount => flight[page] # None) /\ \A f \in subs : flight[f] # None
  /\ change \in [Kind -> {None} \cup
       [folder : Folder, item : Item, new : Item, step : {"sent", "done", "refused"}]]
  /\ up \in [Upload -> {None} \cup
       [status : {"uploading", "completed", "error", "cancelled"}, dir : Folder \cup {None},
        req : {"post", "patch", "answer", "none"}, stored : Nat, running : BOOLEAN]]
  /\ list \subseteq {u \in Upload : up[u] # None} /\ (list # {} => Contents)
  /\ query \in Query \cup {None} /\ timer \in BOOLEAN /\ found \in Query \cup {None}
  /\ flying \subseteq [of : Query, live : BOOLEAN]
  /\ share \in Item \cup {None} /\ link \in Item \cup {None} /\ linking \subseteq Item
  /\ acts \in 0..MaxActs /\ faults \in 0..MaxFaults /\ missed \subseteq Folder

Busy(f) ==
  \/ flight[f] # None
  \/ \E k \in Kind : change[k] # None /\ change[k].folder = f
  \/ \E u \in Upload : up[u] # None /\ up[u].dir = f /\ up[u].req # "none"
  \/ tree # None /\ tree.folder = f

(* What the cache keeps and the page shows is what the person has made of
   the folder, through any order of requests and listings, unless a change
   was acknowledged while a listing was under way, or its answer was lost
   (folder-cache-context.ts:33-69). *)
OwnChangesShown ==
  \A f \in Folder \ missed :
    ~Busy(f) =>
      /\ cache[f] # None => cache[f].items = server[f]
      /\ result.folder = f /\ page = f /\ result.items # None => result.items = server[f]

(* The hits shown in the end are those of the text (files.tsx:57-92). *)
SearchSettles ==
  query # None /\ ~timer /\ flying = {} => found = query

(* The page does not load for ever: it gets its folder or an error, as long
   as no listing asked for by a listener is left behind by a navigation
   (use-folder-cache.ts:22-75). *)
Loading == result.folder # page
LoadingEnds == [](subs \subseteq {page}) => (Loading ~> ~Loading)

(* The link in the share dialog is one of the file in its title
   (share-dialog.tsx:32-44; violated by an answer that comes when the
   dialog was closed or opened for another file). *)
LinkIsOfFile == share # None /\ link # None => link = share
=============================================================================
