------------------------------ MODULE StorageTree ------------------------------
(***************************************************************************)
(* Folders and files of the storage API: rows in Postgres, directories and *)
(* files on the SSD, documents in the search index.                        *)
(*                                                                         *)
(* Every path is stored whole, in the row and on the disk, so that moving  *)
(* a folder rewrites all rows below it.  A handler reads its rows, changes *)
(* the disk, then the rows, and answers; the index follows behind, in      *)
(* promises nobody awaits.  An action is one of these steps (a step's      *)
(* reads are taken together).                                              *)
(*                                                                         *)
(* A path is the sequence of its segments.  "torn" collects the rows whose *)
(* handler stopped between disk and rows, "suspect" the documents whose    *)
(* index requests failed or overtook each other: the properties say that   *)
(* everything else agrees.                                                 *)
(***************************************************************************)
EXTENDS Integers, FiniteSets, SequencesExt

CONSTANTS
  Folder,     \* ids of folders, the root not counted
  File,       \* ids of files
  Top,        \* id of the root folder
  Name,       \* normalized names
  RootName,   \* name of the root folder
  Handler,    \* requests that may be in progress at once
  Gone,       \* no row, no document
  Keep,       \* no word about a document
  Hdd,        \* the place of a file on the HDD, which no path changes
  Nowhere,    \* the place of bytes that are lost
  Indexed,    \* bound: ids whose documents are followed, each on its own
  MaxDepth,   \* bound: segments of a path
  MaxTasks,   \* bound: index requests in flight
  MaxFaults   \* bound: failing calls, and restarts

ASSUME ConstantsAssumption ==
  /\ Top \notin Folder \cup File /\ Folder \cap File = {}
  /\ Indexed \subseteq Folder \cup File
  /\ MaxDepth \in Nat /\ MaxTasks \in Nat /\ MaxFaults \in Nat

VARIABLES
  folder,   \* rows of folders
  file,     \* rows of files
  unused,   \* ids no row has had yet
  dirs,     \* directories on the SSD
  bytes,    \* where the bytes of each file are
  op,       \* what each handler is doing
  index,    \* the search index
  tasks,    \* requests to the index in flight
  reindex,  \* the step a reindex is at
  faults,   \* failures so far
  torn,     \* rows that a failure has separated from the disk
  suspect   \* documents whose index requests failed or overtook each other

rows == <<folder, file, unused>>
disk == <<dirs, bytes>>
search == <<index, tasks, reindex, suspect>>
vars == <<folder, file, unused, dirs, bytes, op, index, tasks, reindex, faults, torn, suspect>>

(***************************************************************************)
(* Types and helpers                                                       *)
(***************************************************************************)

Id == Folder \cup File
Root == <<RootName>>
Path == {p \in Seq({RootName} \cup Name) : /\ p # <<>> /\ p[1] = RootName
                                          /\ \A i \in 2 .. Len(p) : p[i] \in Name}

FolderRow == [path : Path, name : Name, parent : Folder \cup {Top}]
FileRow == [path : Path, name : Name, folder : Folder \cup {Top}, disk : Path \cup {Hdd}]

(* A document shows the row as it is, or as it was.                        *)
Doc == {"current", "old", Gone}
Task == [scan : Path \cup {Keep}, ids : SUBSET Indexed, docs : [Indexed -> Doc \cup {Keep}]]

Op == [kind : {"create", "moveFolder", "deleteFolder", "moveFile", "deleteFile"},
       step : {"disk", "rows", "back"}, id : Id, parent : Folder \cup {Top},
       from : Path \cup {Hdd}, to : Path, name : Name]
NoOp == Gone

(* The special values are told from what stands in their places.           *)
ASSUME SpecialAssumption ==
  /\ Gone \notin FolderRow \cup FileRow \cup Op \cup {"current", "old"}
  /\ Keep \notin Path \cup Doc
  /\ Hdd \notin Path /\ Nowhere \notin Path \cup {Hdd}

Folders == {f \in Folder : folder[f] # Gone}
Files == {x \in File : file[x] # Gone}
Parents == Folders \cup {Top}

PathOf(i) == IF i = Top THEN Root
             ELSE IF i \in Folder THEN folder[i].path ELSE file[i].path
Row(i) == IF i \in Folder THEN folder[i] ELSE file[i]
Under(p) == {i \in Folders \cup Files : IsPrefix(p, PathOf(i))}

(* mkdir -p                                                                *)
Blocked(p) == \E x \in File : bytes[x] \in Path /\ IsPrefix(bytes[x], p)
WithDir(p) == dirs \cup {SubSeq(p, 1, n) : n \in 1 .. Len(p)}

(* Where rename(old, new) takes a path.                                    *)
Renamed(p, old, new) ==
  IF p \in Path /\ IsPrefix(old, p) THEN new \o SubSeq(p, Len(old) + 1, Len(p)) ELSE p

(* SQL REPLACE: every occurrence of old in p, from the left.               *)
Replaced(p, old, new) ==
  LET tail[i \in 1 .. Len(p) + 1] ==
        IF i > Len(p) THEN <<>>
        ELSE IF i + Len(old) <= Len(p) + 1 /\ SubSeq(p, i, i + Len(old) - 1) = old
        THEN new \o tail[i + Len(old)]
        ELSE <<p[i]>> \o tail[i + 1]
  IN tail[1]

(* The bound on depth, for a move.                                         *)
Fits(from, to) ==
  \A p \in dirs \cup {PathOf(i) : i \in Folders \cup Files} \cup {bytes[x] : x \in File} :
    p \in Path /\ IsPrefix(from, p) => Len(p) - Len(from) + Len(to) <= MaxDepth

Fault == faults < MaxFaults /\ faults' = faults + 1

(***************************************************************************)
(* Requests to the index                                                   *)
(***************************************************************************)

Silent == [i \in Indexed |-> Keep]
Put(i, doc) == [scan |-> Keep, ids |-> {i} \cap Indexed, docs |-> [Silent EXCEPT ![i] = doc]]

InFlight == UNION {t.ids : t \in tasks}

Aged(docs, ids) == [i \in Indexed |-> IF i \in ids /\ docs[i] = "current" THEN "old" ELSE docs[i]]

(* Rows change and a request goes out.  What it says may race with what is *)
(* in flight.                                                              *)
SendFor(t, changed) ==
  /\ Cardinality(tasks) < MaxTasks
  /\ tasks' = {[u EXCEPT !.docs = Aged(@, changed)] : u \in tasks}
                \cup (IF t.ids = {} /\ t.scan = Keep THEN {} ELSE {t})
  /\ suspect' = suspect \cup (t.ids \cap InFlight) \cup ((changed \cap Indexed) \ t.ids)
  /\ index' = Aged(index, changed)
  /\ UNCHANGED reindex
Send(t) == SendFor(t, t.ids)

(***************************************************************************)
(* The initial state: an empty root folder.                                *)
(***************************************************************************)

Init ==
  /\ folder = [f \in Folder |-> Gone] /\ file = [x \in File |-> Gone]
  /\ unused = Id
  /\ dirs = {Root} /\ bytes = [x \in File |-> Nowhere]
  /\ op = [h \in Handler |-> NoOp]
  /\ index = [i \in Indexed |-> Gone] /\ tasks = {} /\ reindex = "no" /\ suspect = {}
  /\ faults = 0 /\ torn = {}

(***************************************************************************)
(* Requests: what a handler reads and refuses                              *)
(***************************************************************************)

(* What a request may touch: rows under either of its paths.  Requests     *)
(* about rows that are torn are not followed.                              *)
Touching(o) == {o.id} \cup Under(o.to) \cup (IF o.from = Hdd THEN {} ELSE Under(o.from))

Start(h, o) ==
  /\ op[h] = NoOp
  /\ torn \cap (Touching(o) \cup {o.parent}) = {}
  /\ op' = [op EXCEPT ![h] = o]

StartCreate(h, f, p, n) ==
  LET to == Append(PathOf(p), n) IN
  /\ f \in Folder \cap unused /\ p \in Parents /\ Len(to) <= MaxDepth
  /\ \A g \in Folders : folder[g].path # to
  /\ Start(h, [kind |-> "create", step |-> "disk", id |-> f, parent |-> p,
               from |-> Hdd, to |-> to, name |-> n])
  /\ unused' = unused \ {f}
  /\ UNCHANGED <<folder, file, disk, search, faults, torn>>

(* A rename keeps the parent that the row and the path name.               *)
StartMoveFolder(h, f, p, n) ==
  LET from == folder[f].path
      renames == p = folder[f].parent
      to == Append(IF renames THEN Front(from) ELSE PathOf(p), n) IN
  /\ f \in Folders /\ p \in Parents
  /\ renames \/ ~IsPrefix(from, PathOf(p))
  /\ to # from /\ \A g \in Folders : folder[g].path # to
  /\ Fits(from, to)
  /\ Start(h, [kind |-> "moveFolder", step |-> "disk", id |-> f, parent |-> p,
               from |-> from, to |-> to, name |-> n])
  /\ UNCHANGED <<rows, disk, search, faults, torn>>

StartDeleteFolder(h, f) ==
  /\ f \in Folders
  /\ \A g \in Folders : folder[g].parent # f
  /\ \A x \in Files : file[x].folder # f
  /\ Start(h, [kind |-> "deleteFolder", step |-> "disk", id |-> f, parent |-> folder[f].parent,
               from |-> folder[f].path, to |-> folder[f].path, name |-> folder[f].name])
  /\ UNCHANGED <<rows, disk, search, faults, torn>>

StartMoveFile(h, x, p, n) ==
  LET to == Append(IF p = file[x].folder THEN Front(file[x].path) ELSE PathOf(p), n) IN
  /\ x \in Files /\ p \in Parents /\ Len(to) <= MaxDepth
  /\ to # file[x].path /\ \A y \in Files : file[y].path # to
  /\ Start(h, [kind |-> "moveFile", step |-> "disk", id |-> x, parent |-> p,
               from |-> file[x].disk, to |-> to, name |-> n])
  /\ UNCHANGED <<rows, disk, search, faults, torn>>

StartDeleteFile(h, x) ==
  /\ x \in Files
  /\ Start(h, [kind |-> "deleteFile", step |-> "disk", id |-> x, parent |-> file[x].folder,
               from |-> file[x].disk, to |-> file[x].path, name |-> file[x].name])
  /\ UNCHANGED <<rows, disk, search, faults, torn>>

(* The upload of a file, which Uploads models step by step.                *)
Upload(x, p, n, tier) ==
  LET to == Append(PathOf(p), n)
      place == IF tier = "ssd" THEN to ELSE Hdd IN
  /\ x \in File \cap unused /\ p \in Parents \ torn /\ Len(to) <= MaxDepth
  /\ \A h \in Handler : op[h] = NoOp
  /\ \A y \in Files : file[y].path # to
  /\ to \notin dirs /\ ~Blocked(to)
  /\ unused' = unused \ {x}
  /\ file' = [file EXCEPT ![x] = [path |-> to, name |-> n, folder |-> p, disk |-> place]]
  /\ dirs' = WithDir(Front(to))
  /\ bytes' = [bytes EXCEPT ![x] = place]
  /\ Send(Put(x, "current"))
  /\ UNCHANGED <<folder, op, faults, torn>>

(***************************************************************************)
(* The disk                                                                *)
(***************************************************************************)

Goto(h, step) == op' = [op EXCEPT ![h].step = step]
End(h) == op' = [op EXCEPT ![h] = NoOp]

MakeDir(h) ==
  /\ op[h] # NoOp /\ op[h].kind = "create" /\ op[h].step = "disk"
  /\ IF Blocked(op[h].to) THEN End(h) /\ UNCHANGED dirs
     ELSE Goto(h, "rows") /\ dirs' = WithDir(op[h].to)
  /\ UNCHANGED <<rows, bytes, search, faults, torn>>

(* rename fails when there is nothing to move, when the target holds       *)
(* something, and when it lies inside of what is moved.                    *)
CanRename(old, new) ==
  /\ old \in dirs /\ ~IsPrefix(old, new)
  /\ \A d \in dirs : ~IsStrictPrefix(new, d)
  /\ \A x \in File : bytes[x] \in Path => ~IsPrefix(new, bytes[x])

RenameDir(h) ==
  LET o == op[h] IN
  /\ o # NoOp /\ o.kind = "moveFolder" /\ o.step = "disk"
  /\ IF Blocked(Front(o.to)) THEN End(h) /\ UNCHANGED disk
     ELSE IF ~CanRename(o.from, o.to)
     THEN End(h) /\ dirs' = WithDir(Front(o.to)) /\ UNCHANGED bytes
     ELSE /\ Goto(h, "rows")
          /\ dirs' = {Renamed(d, o.from, o.to) : d \in WithDir(Front(o.to))}
          /\ bytes' = [x \in File |-> Renamed(bytes[x], o.from, o.to)]
  /\ UNCHANGED <<rows, search, faults, torn>>

(* rename of a file: whatever is at the source goes, whatever is at the    *)
(* target is lost.                                                         *)
FileRenamed(old, new) ==
  [x \in File |-> IF bytes[x] = old THEN new ELSE IF bytes[x] = new THEN Nowhere ELSE bytes[x]]

RenameFile(h) ==
  LET o == op[h] IN
  /\ o # NoOp /\ o.kind = "moveFile" /\ o.step = "disk"
  /\ IF o.from = Hdd THEN Goto(h, "rows") /\ UNCHANGED disk
     ELSE IF Blocked(Front(o.to)) THEN End(h) /\ UNCHANGED disk
     ELSE /\ dirs' = WithDir(Front(o.to))
          /\ IF (\E x \in File : bytes[x] = o.from) /\ o.to \notin dirs
             THEN Goto(h, "rows") /\ bytes' = FileRenamed(o.from, o.to)
             ELSE End(h) /\ UNCHANGED bytes
  /\ UNCHANGED <<rows, search, faults, torn>>

(* rm -rf, and rm -f                                                       *)
RemoveDir(h) ==
  LET o == op[h] IN
  /\ o # NoOp /\ o.kind = "deleteFolder" /\ o.step = "disk"
  /\ dirs' = {d \in dirs : ~IsPrefix(o.from, d)}
  /\ bytes' = [x \in File |-> IF bytes[x] \in Path /\ IsPrefix(o.from, bytes[x])
                              THEN Nowhere ELSE bytes[x]]
  /\ Goto(h, "rows")
  /\ UNCHANGED <<rows, search, faults, torn>>

RemoveFile(h) ==
  LET o == op[h] IN
  /\ o # NoOp /\ o.kind = "deleteFile" /\ o.step = "disk"
  /\ bytes' = [x \in File |-> IF bytes[x] = o.from /\ (o.from = Hdd => x = o.id)
                              THEN Nowhere ELSE bytes[x]]
  /\ Goto(h, "rows")
  /\ UNCHANGED <<rows, dirs, search, faults, torn>>

(***************************************************************************)
(* The rows, and the promise that tells the index                          *)
(***************************************************************************)

InsertFolder(h) ==
  LET o == op[h] IN
  /\ o # NoOp /\ o.kind = "create" /\ o.step = "rows"
  /\ \A g \in Folders : folder[g].path # o.to
  /\ folder' = [folder EXCEPT ![o.id] = [path |-> o.to, name |-> o.name, parent |-> o.parent]]
  /\ Send(Put(o.id, "current"))
  /\ End(h)
  /\ UNCHANGED <<file, unused, disk, faults, torn>>

MovedFolder(f, o) ==
  IF f = o.id THEN [path |-> o.to, name |-> o.name, parent |-> o.parent]
  ELSE [folder[f] EXCEPT !.path = IF IsStrictPrefix(o.from, @) THEN Replaced(@, o.from, o.to) ELSE @]

MovedFile(x, o) ==
  IF IsStrictPrefix(o.from, file[x].path)
  THEN [file[x] EXCEPT !.path = Replaced(@, o.from, o.to),
                       !.disk = IF @ = Hdd THEN Hdd ELSE Renamed(@, o.from, o.to)]
  ELSE file[x]

(* (mutant) The rows below the folder keep their paths.                    *)
UpdateFolderAlone(h) ==
  LET o == op[h] IN
  /\ o # NoOp /\ o.kind = "moveFolder" /\ o.step = "rows" /\ o.id \in Folders
  /\ folder' = [folder EXCEPT ![o.id] = MovedFolder(o.id, o)]
  /\ Send([scan |-> o.to, ids |-> ({o.id} \cup Under(o.from)) \cap Indexed, docs |-> Silent])
  /\ End(h)
  /\ UNCHANGED <<file, unused, disk, faults, torn>>

(* One transaction: the row, the rows below it, the files below it.  The   *)
(* index is told what the rows say when the promise gets to read them.     *)
UpdateFolders(h) ==
  LET o == op[h] IN
  /\ o # NoOp /\ o.kind = "moveFolder" /\ o.step = "rows" /\ o.id \in Folders
  /\ LET moved == [f \in Folders |-> MovedFolder(f, o)] IN
     /\ \A f, g \in Folders : moved[f].path = moved[g].path => f = g
     /\ folder' = [f \in Folder |-> IF f \in Folders THEN moved[f] ELSE Gone]
  /\ file' = [x \in File |-> IF x \in Files THEN MovedFile(x, o) ELSE Gone]
  /\ Send([scan |-> o.to, ids |-> ({o.id} \cup Under(o.from)) \cap Indexed, docs |-> Silent])
  /\ End(h)
  /\ UNCHANGED <<unused, disk, faults, torn>>

UpdateFile(h) ==
  LET o == op[h] IN
  /\ o # NoOp /\ o.kind = "moveFile" /\ o.step = "rows" /\ o.id \in Files
  /\ \A y \in Files \ {o.id} : file[y].path # o.to
  /\ file' = [file EXCEPT ![o.id] =
       [path |-> o.to, name |-> o.name, folder |-> o.parent,
        disk |-> IF o.from = Hdd THEN Hdd ELSE o.to]]
  /\ Send(Put(o.id, "current"))
  /\ End(h)
  /\ UNCHANGED <<folder, unused, disk, faults, torn>>

(* Files of a folder go with it, but not their documents.                  *)
DeleteRow(h) ==
  LET o == op[h]
      cascaded == {x \in Files : file[x].folder = o.id} IN
  /\ o # NoOp /\ o.kind \in {"deleteFolder", "deleteFile"} /\ o.step = "rows"
  /\ folder' = [f \in Folder |-> IF f = o.id THEN Gone ELSE folder[f]]
  /\ file' = [x \in File |-> IF x = o.id \/ x \in cascaded THEN Gone ELSE file[x]]
  /\ SendFor(Put(o.id, Gone), {o.id} \cup cascaded)
  /\ End(h)
  /\ UNCHANGED <<unused, disk, faults, torn>>

(* The statement fails: a move goes back on the disk, the rest stays as    *)
(* the disk has it.                                                        *)
RowsFail(h) ==
  LET o == op[h] IN
  /\ Fault
  /\ o # NoOp /\ o.step = "rows"
  /\ IF o.kind = "moveFolder" \/ (o.kind = "moveFile" /\ o.from # Hdd)
     THEN Goto(h, "back") /\ UNCHANGED torn
     ELSE End(h) /\ torn' = IF o.kind \in {"create", "moveFile"} THEN torn ELSE torn \cup Touching(o)
  /\ UNCHANGED <<rows, disk, search>>

MoveBack(h) ==
  LET o == op[h] IN
  /\ o # NoOp /\ o.step = "back"
  /\ IF o.kind = "moveFile" THEN bytes' = FileRenamed(o.to, o.from) /\ UNCHANGED dirs
     ELSE /\ dirs' = {Renamed(d, o.to, o.from) : d \in dirs}
          /\ bytes' = [x \in File |-> Renamed(bytes[x], o.to, o.from)]
  /\ End(h)
  /\ UNCHANGED <<rows, search, faults, torn>>

(***************************************************************************)
(* The index                                                               *)
(***************************************************************************)

(* (mutant) The promise of a folder move forgets the files.                *)
ReadMovedFolders(t) ==
  LET found == Under(t.scan) \cap Indexed \cap Folders IN
  /\ t \in tasks /\ t.scan # Keep
  /\ tasks' = (tasks \ {t}) \cup {[scan |-> Keep, ids |-> found,
                  docs |-> [i \in Indexed |-> IF i \in found THEN "current" ELSE Keep]]}
  /\ UNCHANGED <<rows, disk, op, index, reindex, faults, torn, suspect>>

(* The promise of a folder move reads every row under the new path.        *)
ReadMoved(t) ==
  LET found == Under(t.scan) \cap Indexed
      others == UNION {u.ids : u \in tasks \ {t}} IN
  /\ t \in tasks /\ t.scan # Keep
  /\ tasks' = (tasks \ {t}) \cup {[scan |-> Keep, ids |-> found,
                  docs |-> [i \in Indexed |-> IF i \in found THEN "current" ELSE Keep]]}
  /\ suspect' = suspect \cup (found \cap others) \cup (t.ids \ found)
  /\ UNCHANGED <<rows, disk, op, index, reindex, faults, torn>>

Deliver(t) ==
  /\ t \in tasks /\ t.scan = Keep
  /\ index' = [i \in Indexed |-> IF t.docs[i] = Keep THEN index[i] ELSE t.docs[i]]
  /\ tasks' = tasks \ {t}
  /\ UNCHANGED <<rows, disk, op, reindex, faults, torn, suspect>>

TaskFails(t) ==
  /\ Fault
  /\ t \in tasks
  /\ tasks' = tasks \ {t}
  /\ suspect' = suspect \cup t.ids
  /\ UNCHANGED <<rows, disk, op, index, reindex, torn>>

(* POST /reindex, by a superuser: the index is emptied, then every row is  *)
(* read and sent again.  The document of a deleted row that came between   *)
(* stays.                                                                  *)
ReindexClear ==
  /\ reindex = "no" /\ reindex' = "read"
  /\ index' = [i \in Indexed |-> Gone]
  /\ suspect' = Indexed
  /\ UNCHANGED <<rows, disk, op, tasks, faults, torn>>

ReindexRead ==
  /\ reindex = "read" /\ reindex' = "no" /\ Cardinality(tasks) < MaxTasks
  /\ tasks' = tasks \cup {[scan |-> Keep, ids |-> (Folders \cup Files) \cap Indexed,
                  docs |-> [i \in Indexed |-> IF i \in Folders \cup Files THEN "current" ELSE Keep]]}
  /\ suspect' = InFlight \cup {i \in Indexed \ (Folders \cup Files) : index[i] # Gone}
  /\ UNCHANGED <<rows, disk, op, index, faults, torn>>

(***************************************************************************)
(* The process restarts: handlers and promises are gone.                   *)
(***************************************************************************)

Crash ==
  /\ Fault
  /\ op' = [h \in Handler |-> NoOp]
  /\ tasks' = {} /\ reindex' = "no"
  /\ torn' = torn \cup UNION {Touching(op[h]) :
               h \in {h \in Handler : op[h] # NoOp /\ op[h].step # "disk"}}
  /\ suspect' = suspect \cup InFlight
  /\ UNCHANGED <<rows, disk, index>>

-----------------------------------------------------------------------------

Request(h) ==
  \/ \E f \in Folder, p \in Folder \cup {Top}, n \in Name :
       StartCreate(h, f, p, n) \/ StartMoveFolder(h, f, p, n)
  \/ \E f \in Folder : StartDeleteFolder(h, f)
  \/ \E x \in File, p \in Folder \cup {Top}, n \in Name : StartMoveFile(h, x, p, n)
  \/ \E x \in File : StartDeleteFile(h, x)

Proceed(h) ==
  \/ MakeDir(h) \/ RenameDir(h) \/ RenameFile(h) \/ RemoveDir(h) \/ RemoveFile(h)
  \/ InsertFolder(h) \/ UpdateFolders(h) \/ UpdateFile(h) \/ DeleteRow(h)
  \/ RowsFail(h) \/ MoveBack(h)

Search == \/ \E t \in tasks : ReadMoved(t) \/ Deliver(t) \/ TaskFails(t)
          \/ ReindexClear \/ ReindexRead

Next ==
  \/ \E h \in Handler : Request(h) \/ Proceed(h)
  \/ \E x \in File, p \in Folder \cup {Top}, n \in Name, tier \in {"ssd", "hdd"} :
       Upload(x, p, n, tier)
  \/ Search
  \/ Crash

Spec == Init /\ [][Next]_vars

(***************************************************************************)
(* Properties                                                              *)
(***************************************************************************)

TypeOK ==
  /\ folder \in [Folder -> FolderRow \cup {Gone}]
  /\ file \in [File -> FileRow \cup {Gone}]
  /\ unused \in SUBSET Id
  /\ dirs \in SUBSET Path
  /\ bytes \in [File -> Path \cup {Hdd, Nowhere}]
  /\ op \in [Handler -> Op \cup {NoOp}]
  /\ index \in [Indexed -> Doc]
  /\ tasks \in SUBSET Task /\ reindex \in {"no", "read"}
  /\ faults \in 0 .. MaxFaults
  /\ torn \in SUBSET Id /\ suspect \in SUBSET Indexed

Busy == UNION {Touching(op[h]) : h \in {h \in Handler : op[h] # NoOp}}

FolderAgrees(f) ==
  LET r == folder[f] IN
  /\ r.parent \in Parents /\ r.path = Append(PathOf(r.parent), r.name)
  /\ r.path \in dirs

FileAgrees(x) ==
  LET r == file[x] IN
  /\ r.folder \in Parents /\ r.path = Append(PathOf(r.folder), r.name)
  /\ r.disk \in {r.path, Hdd} /\ bytes[x] = r.disk

(* Rows, paths and disk agree: between requests, and for everything a      *)
(* running request does not touch, every row is where its parent says, its *)
(* directory exists and its bytes are where the row says.                  *)
RowsMatchDisk ==
  /\ \A f \in Folders \ (Busy \cup torn) : FolderAgrees(f)
  /\ \A x \in Files \ (Busy \cup torn) : FileAgrees(x)

(* No folder lies in itself: the parents of every folder end at the root.  *)
NoCycle == \A S \in SUBSET Folders \ {{}} : \E f \in S : folder[f].parent \notin S

(* The search index follows the rows, except for the ids that requests in  *)
(* flight, failed requests or races concern; a reindex settles these.      *)
SearchFollows ==
  \A i \in Indexed \ (suspect \cup InFlight) :
    index[i] = IF i \in Folders \cup Files THEN "current" ELSE Gone
================================================================================
