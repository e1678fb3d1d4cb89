------------------------------- MODULE Uploads -------------------------------
(***************************************************************************)
(* Resumable uploads of the storage API (routes/uploads.ts, cleanup.ts),   *)
(* with the deletion of files and folders they meet on the disk.           *)
(*                                                                         *)
(* A POST creates an empty temporary file and a row; PATCH requests append *)
(* to the file and advance bytesReceived; the request that completes the   *)
(* file finalizes it: checksum, choice of a tier, move to the final place, *)
(* row in files.  An hourly job removes what has expired.                  *)
(*                                                                         *)
(* Requests interleave at every await.  Content is abstracted to which     *)
(* bytes of a file are the ones the client sent, in their place.  An open  *)
(* file follows its inode: renamed, it is at the new place; removed or     *)
(* replaced, it is nowhere.  There is one folder; access checks, names and *)
(* the search index are left out.                                          *)
(***************************************************************************)
EXTENDS FiniteSets, Naturals

CONSTANTS
  Upload,           \* upload ids
  Path,             \* paths of files in the folder, and their places on the SSD
  FileId,           \* ids of files, and their places on the HDD
  NoPath, NoFile, NoRow, Nowhere,
  Size,             \* the Upload-Length of every upload
  MaxChunk,         \* bound: bytes of a network chunk
  CopyTiers,        \* tiers on another device than the temporary files
  Patch,            \* slots for overlapping PATCH requests
  Deleter,          \* slots for overlapping deletions of files
  MaxRestarts,      \* bound: restarts of the process
  SameTarget,       \* uploads may aim at the target of another one
  Overlap,          \* requests about one upload may overlap
  LateRequests,     \* uploads that may have requests in progress, or get some, when expired
  FolderRaces,      \* the folder may be deleted while requests write to it
  ShortWrites,      \* a write may write less than it was given
  ExcessAborts,     \* a request may end early after more bytes than announced
  DbFaults          \* the transaction of a finalization may fail

ASSUME UploadsAssumption ==
  /\ Size \in Nat \ {0} /\ MaxChunk \in Nat \ {0} /\ MaxRestarts \in Nat
  /\ CopyTiers \subseteq {"ssd", "hdd"} /\ LateRequests \subseteq Upload
  /\ Upload \cap (Path \cup FileId) = {} /\ Path \cap FileId = {}
  /\ NoPath \notin Path /\ Nowhere \notin Upload \cup Path \cup FileId
  /\ \A flag \in {SameTarget, Overlap, FolderRaces, ShortWrites,
                    ExcessAborts, DbFaults} : flag \in BOOLEAN

VARIABLES
  \* the database
  upload,     \* tus_uploads
  file,       \* files, by path
  folder,     \* is there a row for the folder, and a directory for it on the SSD
  \* the disk: temporary files by upload, SSD by path, HDD by file id
  disk,
  \* requests and jobs in progress
  post,       \* POST: the path of a row still to be inserted
  patch,      \* PATCH
  cancel,     \* DELETE: uploads whose row is still to be deleted
  sweep,      \* cleanupExpiredUploads
  deleter,    \* DELETE of a file
  fdel,       \* DELETE of the folder
  late,       \* uploads past expiresAt
  restarts,
  \* history
  deleting,   \* uploads whose file somebody asked to delete
  dropped     \* uploads cancelled or refused: nobody expects their data any more

db == <<upload, file, folder>>
jobs == <<post, cancel, sweep, deleter, fdel>>
env == <<late, restarts, deleting, dropped>>
vars == <<db, disk, patch, jobs, env>>

(***************************************************************************)
(* Types and helpers                                                       *)
(***************************************************************************)

Place == Path \cup FileId
Location == Upload \cup Place
Byte == 0 .. Size - 1

File == [of : Upload, len : 0 .. Size + MaxChunk, good : SUBSET Byte]
Empty(u) == [of |-> u, len |-> 0, good |-> {}]
Whole(u) == [of |-> u, len |-> Size, good |-> Byte]

UploadRow == [status : {"none", "in_progress", "expired", "completed", "gone"},
              path : Path \cup {NoPath}, received : 0 .. Size]
FileRow == [of : Upload, place : Place, checksum : File]

ASSUME NullsAssumption == NoFile \notin File /\ NoRow \notin FileRow

IdlePatch == [pc |-> "idle", up |-> Nowhere, pos |-> 0, at |-> Nowhere, gap |-> FALSE,
              place |-> Nowhere, checksum |-> NoFile]
PatchState ==
  [pc : {"idle", "late", "open", "write", "exceed", "refuse", "record", "read", "checksum",
         "move", "verify", "unlink", "insert", "drop"},
   up : Upload \cup {Nowhere}, pos : 0 .. Size + MaxChunk, at : Location \cup {Nowhere},
   gap : BOOLEAN, place : Place \cup {Nowhere}, checksum : File \cup {NoFile}]

IdleSweep == [pc |-> "idle", todo |-> {}, up |-> Nowhere]
IdleDeleter == [pc |-> "idle", row |-> NoRow]

Row(u) == upload[u].status \notin {"none", "gone"}
Serves(c, u) == patch[c].pc # "idle" /\ patch[c].up = u
Served(u) == u \in cancel \/ \E c \in Patch : Serves(c, u)
SetStatus(u, s) == upload' = IF Row(u) THEN [upload EXCEPT ![u].status = s] ELSE upload

(* What becomes of the open files when the file at l is gone, and when the *)
(* one at k takes its place.                                               *)
Closed(f, l) == [c \in Patch |-> IF f[c].at = l THEN [f[c] EXCEPT !.at = Nowhere] ELSE f[c]]
Carried(f, k, l) == [c \in Patch |-> IF f[c].at = k THEN [f[c] EXCEPT !.at = l] ELSE f[c]]

(* deleteFile, in a request or job other than a PATCH.                     *)
Remove(l) == /\ disk' = [disk EXCEPT ![l] = NoFile]
             /\ patch' = Closed(patch, l)

Init ==
  /\ upload = [u \in Upload |-> [status |-> "none", path |-> NoPath, received |-> 0]]
  /\ file = [p \in Path |-> NoRow]
  /\ folder = [row |-> TRUE, dir |-> TRUE]
  /\ disk = [l \in Location |-> NoFile]
  /\ post = [u \in Upload |-> NoPath]
  /\ patch = [c \in Patch |-> IdlePatch]
  /\ cancel = {} /\ fdel = "idle"
  /\ sweep = IdleSweep
  /\ deleter = [d \in Deleter |-> IdleDeleter]
  /\ late = {} /\ restarts = 0 /\ deleting = {} /\ dropped = {}

(***************************************************************************)
(* POST                                                                    *)
(***************************************************************************)

(* The path is in the hands of an upload.                                  *)
Aimed(p) ==
  \E u \in Upload : \/ post[u] = p
                    \/ upload[u].path = p /\ (upload[u].status = "in_progress" \/ Served(u))

(* The checks, and the temporary file.                                     *)
PostCheck(u, p) ==
  /\ upload[u].status = "none" /\ post[u] = NoPath /\ disk[u] = NoFile
  /\ folder.row /\ file[p] = NoRow
  /\ SameTarget \/ ~Aimed(p)
  /\ FolderRaces \/ fdel = "idle"
  /\ disk' = [disk EXCEPT ![u] = Empty(u)]
  /\ post' = [post EXCEPT ![u] = p]
  /\ UNCHANGED <<db, patch, cancel, sweep, deleter, fdel, env>>

PostInsert(u) ==
  /\ post[u] # NoPath
  /\ upload' = [upload EXCEPT ![u].status = "in_progress", ![u].path = post[u]]
  /\ post' = [post EXCEPT ![u] = NoPath]
  /\ UNCHANGED <<file, folder, disk, patch, cancel, sweep, deleter, fdel, env>>

(***************************************************************************)
(* PATCH                                                                   *)
(***************************************************************************)

Goto(c, step) == patch' = [patch EXCEPT ![c].pc = step]
End(c) == patch' = [patch EXCEPT ![c] = IdlePatch]

(* (mutant) The offset of the client is taken as it is.                    *)
PatchCheckAnyOffset(c, u) ==
  /\ patch[c].pc = "idle" /\ upload[u].status = "in_progress"
  /\ Overlap \/ ~Served(u)
  /\ u \in LateRequests \/ u \notin late
  /\ FolderRaces \/ fdel = "idle"
  /\ \E offset \in 0 .. Size :
       patch' = [patch EXCEPT ![c] = [IdlePatch EXCEPT
                   !.pc = IF u \in late THEN "late" ELSE "open", !.up = u, !.pos = offset]]
  /\ UNCHANGED <<db, disk, jobs, env>>

(* The row is read and checked; other offsets are refused without effect.  *)
PatchCheck(c, u) ==
  /\ patch[c].pc = "idle" /\ upload[u].status = "in_progress"
  /\ Overlap \/ ~Served(u)
  /\ u \in LateRequests \/ u \notin late
  /\ FolderRaces \/ fdel = "idle"
  /\ patch' = [patch EXCEPT ![c] = [IdlePatch EXCEPT
                 !.pc = IF u \in late THEN "late" ELSE "open",
                 !.up = u, !.pos = upload[u].received]]
  /\ UNCHANGED <<db, disk, jobs, env>>

PatchLate(c) ==
  /\ patch[c].pc = "late"
  /\ SetStatus(patch[c].up, "expired")
  /\ End(c)
  /\ UNCHANGED <<file, folder, disk, jobs, env>>

(* At offset 0 the file is created or emptied, else it must be there.      *)
PatchOpen(c) ==
  LET u == patch[c].up IN
  /\ patch[c].pc = "open"
  /\ IF patch[c].pos > 0 /\ disk[u] = NoFile THEN End(c) /\ UNCHANGED disk
     ELSE /\ patch' = [patch EXCEPT ![c].pc = "write", ![c].at = u]
          /\ disk' = IF patch[c].pos = 0 THEN [disk EXCEPT ![u] = Empty(u)] ELSE disk
  /\ UNCHANGED <<db, jobs, env>>

(* The file f with n more bytes from pos on.                               *)
Written(f, pos, n, gap) ==
  LET bytes == (pos .. pos + n - 1) \cap Byte IN
  [f EXCEPT !.len = IF @ < pos + n THEN pos + n ELSE @,
            !.good = IF gap THEN @ \ bytes ELSE @ \cup bytes]

(* A chunk of n bytes of which m are written; the rest is not tried again. *)
PatchWrite(c, n, m) ==
  LET r == patch[c] IN
  /\ r.pc = "write" /\ r.pos + n <= Size + MaxChunk /\ r.pos <= Size
  /\ m = n \/ ShortWrites
  /\ disk' = IF r.at = Nowhere THEN disk
             ELSE [disk EXCEPT ![r.at] = Written(@, r.pos, m, r.gap)]
  /\ patch' = [patch EXCEPT ![c].pos = @ + m, ![c].gap = @ \/ m < n]
  /\ UNCHANGED <<db, jobs, env>>

Excess(c) == patch[c].pc \in {"write", "exceed"} /\ patch[c].pos > Size

(* The connection breaks.                                                  *)
PatchAbort(c) ==
  /\ patch[c].pc = "write"
  /\ ExcessAborts \/ ~Excess(c)
  /\ End(c)
  /\ UNCHANGED <<db, disk, jobs, env>>

(* (mutant) The position is recorded before the bytes are written.         *)
PatchCloseEarly(c) ==
  /\ patch[c].pc = "write"
  /\ LET pos == IF patch[c].pos < Size THEN patch[c].pos + 1 ELSE patch[c].pos IN
     patch' = [patch EXCEPT ![c].pc = IF pos > Size THEN "exceed" ELSE "record",
                            ![c].pos = pos, ![c].at = Nowhere, ![c].gap = FALSE]
  /\ UNCHANGED <<db, disk, jobs, env>>

PatchClose(c) ==
  /\ patch[c].pc = "write"
  /\ patch' = [patch EXCEPT ![c].pc = IF patch[c].pos > Size THEN "exceed" ELSE "record",
                            ![c].at = Nowhere, ![c].gap = FALSE]
  /\ UNCHANGED <<db, disk, jobs, env>>

PatchExceed(c) ==
  /\ patch[c].pc = "exceed"
  /\ disk' = [disk EXCEPT ![patch[c].up] = NoFile]
  /\ patch' = [Closed(patch, patch[c].up) EXCEPT ![c].pc = "refuse"]
  /\ dropped' = dropped \cup {patch[c].up}
  /\ UNCHANGED <<db, jobs, late, restarts, deleting>>

PatchRefuse(c) ==
  /\ patch[c].pc = "refuse"
  /\ SetStatus(patch[c].up, "expired")
  /\ End(c)
  /\ UNCHANGED <<file, folder, disk, jobs, env>>

PatchRecord(c) ==
  LET r == patch[c] IN
  /\ r.pc = "record"
  /\ upload' = IF Row(r.up) THEN [upload EXCEPT ![r.up].received = r.pos] ELSE upload
  /\ IF r.pos = Size THEN Goto(c, "read") ELSE End(c)
  /\ UNCHANGED <<file, folder, disk, jobs, env>>

(***************************************************************************)
(* finalizeUpload                                                          *)
(***************************************************************************)

FinalRead(c) ==
  /\ patch[c].pc = "read"
  /\ IF Row(patch[c].up) THEN Goto(c, "checksum") ELSE End(c)
  /\ UNCHANGED <<db, disk, jobs, env>>

Fresh(h) == /\ disk[h] = NoFile /\ \A p \in Path : file[p] # NoRow => file[p].place # h
            /\ \A c \in Patch : patch[c].place # h

(* The checksum throws without a file.  The disk usage decides for a tier  *)
(* and the directory of the place is created.                              *)
FinalChecksum(c) ==
  LET u == patch[c].up IN
  /\ patch[c].pc = "checksum"
  /\ IF disk[u] = NoFile THEN End(c) /\ UNCHANGED folder
     ELSE \E place \in {upload[u].path} \cup {h \in FileId : Fresh(h)} :
            /\ patch' = [patch EXCEPT ![c].pc = "move", ![c].place = place,
                                      ![c].checksum = disk[u]]
            /\ folder' = [folder EXCEPT !.dir = @ \/ place \in Path]
  /\ UNCHANGED <<upload, file, disk, jobs, env>>

Tier(place) == IF place \in Path THEN "ssd" ELSE "hdd"

(* moveToFinalPath: rename, or copy, compare and remove.  Without the file *)
(* or the directory it throws.                                             *)
FinalMove(c) ==
  LET u == patch[c].up
      place == patch[c].place IN
  /\ patch[c].pc = "move"
  /\ IF disk[u] = NoFile \/ (place \in Path /\ ~folder.dir) THEN End(c) /\ UNCHANGED disk
     ELSE IF Tier(place) \in CopyTiers
     THEN /\ disk' = [disk EXCEPT ![place] = disk[u]]
          /\ patch' = [patch EXCEPT ![c].pc = "verify"]
     ELSE /\ disk' = [disk EXCEPT ![place] = disk[u], ![u] = NoFile]
          /\ patch' = [Carried(Closed(patch, place), u, place) EXCEPT ![c].pc = "insert"]
  /\ UNCHANGED <<db, jobs, env>>

FinalVerify(c) ==
  /\ patch[c].pc = "verify"
  /\ Goto(c, IF disk[patch[c].place] = patch[c].checksum THEN "unlink" ELSE "drop")
  /\ UNCHANGED <<db, disk, jobs, env>>

FinalUnlink(c) ==
  /\ patch[c].pc = "unlink"
  /\ disk' = [disk EXCEPT ![patch[c].up] = NoFile]
  /\ patch' = [Closed(patch, patch[c].up) EXCEPT ![c].pc = "insert"]
  /\ UNCHANGED <<db, jobs, env>>

(* (mutant) The two statements are not in a transaction.                   *)
FinalInsertHalf(c) ==
  LET r == patch[c]
      p == upload[r.up].path IN
  /\ r.pc = "insert" /\ folder.row /\ file[p] = NoRow
  /\ file' = [file EXCEPT ![p] = [of |-> r.up, place |-> r.place, checksum |-> r.checksum]]
  /\ \/ SetStatus(r.up, "completed") /\ End(c)
     \/ DbFaults /\ Goto(c, "drop") /\ UNCHANGED upload
  /\ UNCHANGED <<folder, disk, jobs, env>>

(* The folder is looked up, then the transaction inserts the file and      *)
(* completes the upload.  A path in use or a missing folder makes it fail. *)
FinalInsert(c) ==
  LET r == patch[c]
      p == upload[r.up].path IN
  /\ r.pc = "insert"
  /\ \/ /\ folder.row /\ file[p] = NoRow
        /\ file' = [file EXCEPT ![p] = [of |-> r.up, place |-> r.place, checksum |-> r.checksum]]
        /\ SetStatus(r.up, "completed")
        /\ End(c)
     \/ /\ ~folder.row \/ file[p] # NoRow \/ DbFaults
        /\ Goto(c, "drop")
        /\ UNCHANGED <<upload, file>>
  /\ UNCHANGED <<folder, disk, jobs, env>>

(* (mutant) The moved file stays where it is when the transaction fails.   *)
FinalDropNothing(c) ==
  /\ patch[c].pc = "drop"
  /\ End(c)
  /\ UNCHANGED <<db, disk, jobs, env>>

FinalDrop(c) ==
  /\ patch[c].pc = "drop"
  /\ disk' = [disk EXCEPT ![patch[c].place] = NoFile]
  /\ patch' = [Closed(patch, patch[c].place) EXCEPT ![c] = IdlePatch]
  /\ UNCHANGED <<db, jobs, env>>

(***************************************************************************)
(* Cancellation and expiry                                                 *)
(***************************************************************************)

Cancel(u) ==
  /\ Row(u) /\ u \notin cancel
  /\ Overlap \/ ~Served(u)
  /\ u \in LateRequests \/ u \notin late
  /\ Remove(u)
  /\ cancel' = cancel \cup {u} /\ dropped' = dropped \cup {u}
  /\ UNCHANGED <<db, post, sweep, deleter, fdel, late, restarts, deleting>>

CancelRow(u) ==
  /\ u \in cancel
  /\ SetStatus(u, "gone")
  /\ cancel' = cancel \ {u}
  /\ UNCHANGED <<file, folder, disk, patch, post, sweep, deleter, fdel, env>>

(* 24 hours have passed.                                                   *)
Expire(u) ==
  /\ upload[u].status = "in_progress" /\ u \notin late
  /\ u \in LateRequests \/ ~Served(u)
  /\ late' = late \cup {u}
  /\ UNCHANGED <<db, disk, patch, jobs, restarts, deleting, dropped>>

SweepBegin ==
  /\ sweep.pc = "idle"
  /\ LET expired == {u \in late : upload[u].status = "in_progress"} IN
     expired # {} /\ sweep' = [IdleSweep EXCEPT !.pc = "remove", !.todo = expired]
  /\ UNCHANGED <<db, disk, patch, post, cancel, deleter, fdel, env>>

SweepRemove ==
  /\ sweep.pc = "remove"
  /\ \E u \in sweep.todo : Remove(u) /\ sweep' = [sweep EXCEPT !.pc = "mark", !.up = u]
  /\ UNCHANGED <<db, post, cancel, deleter, fdel, env>>

(* (mutant) Only files are removed; the rows stay in progress.             *)
SweepMarkNothing ==
  /\ sweep.pc = "mark"
  /\ LET todo == sweep.todo \ {sweep.up} IN
     sweep' = [pc |-> IF todo = {} THEN "idle" ELSE "remove", todo |-> todo, up |-> Nowhere]
  /\ UNCHANGED <<db, disk, patch, post, cancel, deleter, fdel, env>>

SweepMark ==
  /\ sweep.pc = "mark"
  /\ SetStatus(sweep.up, "expired")
  /\ LET todo == sweep.todo \ {sweep.up} IN
     sweep' = [pc |-> IF todo = {} THEN "idle" ELSE "remove", todo |-> todo, up |-> Nowhere]
  /\ UNCHANGED <<file, folder, disk, patch, post, cancel, deleter, fdel, env>>

(***************************************************************************)
(* Deletion of files and of the folder                                     *)
(***************************************************************************)

DeleteFile(d, p) ==
  /\ deleter[d].pc = "idle" /\ file[p] # NoRow
  /\ deleter' = [deleter EXCEPT ![d] = [pc |-> "unlink", row |-> file[p]]]
  /\ deleting' = deleting \cup {file[p].of}
  /\ UNCHANGED <<db, disk, patch, post, cancel, sweep, fdel, late, restarts, dropped>>

DeleteUnlink(d) ==
  /\ deleter[d].pc = "unlink"
  /\ Remove(deleter[d].row.place)
  /\ deleter' = [deleter EXCEPT ![d].pc = "row"]
  /\ UNCHANGED <<db, post, cancel, sweep, fdel, env>>

DeleteRow(d) ==
  /\ deleter[d].pc = "row"
  /\ file' = [p \in Path |-> IF file[p] = deleter[d].row THEN NoRow ELSE file[p]]
  /\ deleter' = [deleter EXCEPT ![d] = IdleDeleter]
  /\ UNCHANGED <<upload, folder, disk, patch, post, cancel, sweep, fdel, env>>

(* The folder has to be empty: the rows are counted.                       *)
DeleteFolder ==
  /\ fdel = "idle" /\ folder.row /\ \A p \in Path : file[p] = NoRow
  /\ FolderRaces \/ \A c \in Patch : patch[c].pc = "idle"
  /\ fdel' = "remove"
  /\ UNCHANGED <<db, disk, patch, post, cancel, sweep, deleter, env>>

(* deleteDir takes everything below the directory.                         *)
FolderRemove ==
  /\ fdel = "remove" /\ fdel' = "row"
  /\ disk' = [l \in Location |-> IF l \in Path THEN NoFile ELSE disk[l]]
  /\ patch' = [c \in Patch |-> IF patch[c].at \in Path THEN [patch[c] EXCEPT !.at = Nowhere]
                               ELSE patch[c]]
  /\ folder' = [folder EXCEPT !.dir = FALSE]
  /\ UNCHANGED <<upload, file, post, cancel, sweep, deleter, env>>

(* The rows of files go with the row of their folder.                      *)
FolderRow ==
  /\ fdel = "row" /\ fdel' = "idle"
  /\ folder' = [folder EXCEPT !.row = FALSE] /\ file' = [p \in Path |-> NoRow]
  /\ UNCHANGED <<upload, disk, patch, post, cancel, sweep, deleter, env>>

CreateFolder ==
  /\ ~folder.row /\ folder' = [row |-> TRUE, dir |-> TRUE]
  /\ UNCHANGED <<upload, file, disk, patch, jobs, env>>

(* The process ends, at any point, and another one begins.                 *)
Restart ==
  /\ restarts < MaxRestarts /\ restarts' = restarts + 1
  /\ ExcessAborts \/ \A c \in Patch : ~Excess(c)
  /\ post' = [u \in Upload |-> NoPath]
  /\ patch' = [c \in Patch |-> IdlePatch]
  /\ cancel' = {} /\ fdel' = "idle"
  /\ sweep' = IdleSweep
  /\ deleter' = [d \in Deleter |-> IdleDeleter]
  /\ UNCHANGED <<db, disk, late, deleting, dropped>>

-----------------------------------------------------------------------------

Receive(c) == \/ PatchLate(c) \/ PatchOpen(c) \/ PatchAbort(c) \/ PatchClose(c)
              \/ (\E n \in 1 .. MaxChunk, m \in 1 .. MaxChunk : m <= n /\ PatchWrite(c, n, m))
              \/ PatchExceed(c) \/ PatchRefuse(c) \/ PatchRecord(c)

Finalize(c) == \/ FinalRead(c) \/ FinalChecksum(c) \/ FinalMove(c) \/ FinalVerify(c)
               \/ FinalUnlink(c) \/ FinalInsert(c) \/ FinalDrop(c)

Sweep == SweepBegin \/ SweepRemove \/ SweepMark

Next == \/ \E u \in Upload : \/ PostInsert(u) \/ Cancel(u) \/ CancelRow(u) \/ Expire(u)
                             \/ \E p \in Path : PostCheck(u, p)
        \/ \E c \in Patch : Receive(c) \/ Finalize(c) \/ \E u \in Upload : PatchCheck(c, u)
        \/ \E d \in Deleter : DeleteUnlink(d) \/ DeleteRow(d) \/ \E p \in Path : DeleteFile(d, p)
        \/ DeleteFolder \/ FolderRemove \/ FolderRow \/ CreateFolder
        \/ Sweep \/ Restart

Spec == Init /\ [][Next]_vars

(* Time passes and the hourly job runs and gets its answers.  Nothing is   *)
(* asked of requests: the server has no idle timeout, so that a connection *)
(* may stall for ever.                                                     *)
FairSpec == Spec /\ WF_vars(Sweep) /\ \A u \in Upload : WF_vars(Expire(u))

(***************************************************************************)
(* Properties                                                              *)
(***************************************************************************)

TypeOK ==
  /\ upload \in [Upload -> UploadRow]
  /\ file \in [Path -> FileRow \cup {NoRow}]
  /\ folder \in [row : BOOLEAN, dir : BOOLEAN]
  /\ disk \in [Location -> File \cup {NoFile}]
  /\ post \in [Upload -> Path \cup {NoPath}]
  /\ patch \in [Patch -> PatchState]
  /\ cancel \in SUBSET Upload
  /\ sweep \in [pc : {"idle", "remove", "mark"}, todo : SUBSET Upload,
                up : Upload \cup {Nowhere}]
  /\ deleter \in [Deleter -> [pc : {"idle", "unlink", "row"}, row : FileRow \cup {NoRow}]]
  /\ fdel \in {"idle", "remove", "row"}
  /\ late \in SUBSET Upload /\ restarts \in 0 .. MaxRestarts
  /\ deleting \in SUBSET Upload /\ dropped \in SUBSET Upload

(* A file stays what was uploaded until somebody asks for its deletion:    *)
(* its row points to the whole content and holds its checksum, and every   *)
(* completed upload has such a row, whatever uploads, cancellations,       *)
(* expiries, failures and restarts come in between.                        *)
UploadsKept ==
  /\ \A p \in Path : file[p] # NoRow /\ file[p].of \notin deleting =>
       /\ disk[file[p].place] = Whole(file[p].of)
       /\ file[p].checksum = Whole(file[p].of)
  /\ \A u \in Upload : upload[u].status = "completed" /\ u \notin deleting =>
       \E p \in Path : file[p] # NoRow /\ file[p].of = u

(* A client may resume where the server says: the bytes before the offset  *)
(* are in the temporary file, also after a restart in the middle of        *)
(* anything.  (An upload received in full is the subject of FullIsThere.)  *)
ResumePoint ==
  \A u \in Upload :
    /\ upload[u].status = "in_progress" /\ u \notin late \cup dropped
    /\ upload[u].received < Size
    => disk[u] # NoFile /\ 0 .. upload[u].received - 1 \subseteq disk[u].good

(* An upload that is received in full and in nobody's hands can still be   *)
(* finalized.  (Violated by a restart or an error during finalizeUpload.)  *)
FullIsThere ==
  \A u \in Upload :
    /\ upload[u].status = "in_progress" /\ u \notin late \cup dropped
    /\ upload[u].received = Size /\ ~Served(u)
    => disk[u] = Whole(u)

(* The offset of an upload never goes back.                                *)
OffsetForward == [][\A u \in Upload : upload'[u].received >= upload[u].received]_vars

AtRest == /\ cancel = {} /\ sweep.pc = "idle" /\ fdel = "idle"
          /\ \A u \in Upload : post[u] = NoPath
          /\ \A c \in Patch : patch[c].pc = "idle"
          /\ \A d \in Deleter : deleter[d].pc = "idle"

(* Without a restart nothing is left on the disk for good: when all        *)
(* requests are through, a temporary file belongs to an upload that goes   *)
(* on and a file in its final place to a row.  (An upload that expires     *)
(* under its own requests does leave its temporary file.)                  *)
NoLitter ==
  restarts = 0 /\ AtRest =>
    /\ \A u \in Upload \ (LateRequests \cap late) :
         disk[u] # NoFile => upload[u].status = "in_progress"
    /\ \A l \in Place : disk[l] # NoFile => \E p \in Path : file[p] # NoRow /\ file[p].place = l

(* Every upload is over in the end, completed, cancelled or expired,       *)
(* whatever requests of it are open.                                       *)
UploadsEnd ==
  \A u \in LateRequests :
    upload[u].status = "in_progress" ~> upload[u].status # "in_progress"

=============================================================================
