---------------------------- MODULE UploadsProofs ----------------------------
(***************************************************************************)
(* Types and safety properties of Uploads, for every set of uploads,       *)
(* paths, requests and file ids and every size.                            *)
(*                                                                         *)
(* First the steps, field by field and variable by variable: rows and      *)
(* requests are records, so that a lemma for each way to change one says   *)
(* what becomes of its fields; a lemma for each variable names the steps   *)
(* that change it.                                                         *)
(*                                                                         *)
(* Then the properties. Each follows from an invariant of its own: Alone   *)
(* (one request per upload), Held (the bytes before the offset are in the  *)
(* file), Kept (paths and places are exclusive, and what is finalized is   *)
(* whole), and what is on the disk is in somebody's hands. The assumptions *)
(* on the flags exclude the races that the code does not guard against;    *)
(* each theorem names the ones it needs.                                   *)
(***************************************************************************)
EXTENDS Uploads, TLAPS

-----------------------------------------------------------------------------
(* What the fields of rows, requests and jobs hold when they are used. *)

Final == {"read", "checksum", "move", "verify", "unlink", "insert", "drop"}
Placed == {"move", "verify", "unlink", "insert", "drop"}
Moved == {"verify", "unlink", "insert", "drop"}
Active(c) == patch[c].pc # "idle"

RequestFields(c) ==
  /\ Active(c) => patch[c].up \in Upload /\ upload[patch[c].up].status # "none"
  /\ patch[c].pc \in {"open", "record"} \cup Final => patch[c].pos <= Size
  /\ patch[c].pc \in Placed => patch[c].checksum # NoFile /\ patch[c].place # Nowhere
RowsInv == \A u \in Upload : upload[u].status # "none" => upload[u].path \in Path
PostedInv == \A u \in Upload : post[u] # NoPath => upload[u].status = "none"
OpenInv == \A c \in Patch : patch[c].at # Nowhere => disk[patch[c].at] # NoFile
JobsInv ==
  /\ sweep.pc = "mark" => sweep.up \in sweep.todo
  /\ \A d \in Deleter : deleter[d].pc # "idle" => deleter[d].row # NoRow
FieldsInv ==
  RowsInv /\ PostedInv /\ OpenInv /\ JobsInv /\ (\A c \in Patch : RequestFields(c))

-----------------------------------------------------------------------------
(* The types, one per variable *)

UploadType == upload \in [Upload -> UploadRow]
FileType == file \in [Path -> FileRow \cup {NoRow}] /\ folder \in [row : BOOLEAN, dir : BOOLEAN]
DiskType == disk \in [Location -> File \cup {NoFile}]
PatchType == patch \in [Patch -> PatchState]
JobType ==
  /\ post \in [Upload -> Path \cup {NoPath}]
  /\ cancel \in SUBSET Upload
  /\ sweep \in [pc : {"idle", "remove", "mark"}, todo : SUBSET Upload, up : Upload \cup {Nowhere}]
  /\ deleter \in [Deleter -> [pc : {"idle", "unlink", "row"}, row : FileRow \cup {NoRow}]]
  /\ fdel \in {"idle", "remove", "row"}
EnvType ==
  /\ late \in SUBSET Upload /\ restarts \in 0 .. MaxRestarts
  /\ deleting \in SUBSET Upload /\ dropped \in SUBSET Upload

(* The type invariant is the conjunction of these parts.                   *)
LEMMA TypeParts ==
  TypeOK <=> UploadType /\ FileType /\ DiskType /\ PatchType /\ JobType /\ EnvType
BY DEF TypeOK, UploadType, FileType, DiskType, PatchType, JobType, EnvType

(* The constants, and what they keep apart.                                *)
LEMMA Constants ==
  /\ Size \in Nat \ {0} /\ MaxChunk \in Nat \ {0} /\ MaxRestarts \in Nat
  /\ Upload \cap Place = {} /\ Path \cap FileId = {}
  /\ NoPath \notin Path /\ Nowhere \notin Location
  /\ NoFile \notin File /\ NoRow \notin FileRow
BY UploadsAssumption, NullsAssumption DEF Place, Location

(* Files as uploads begin and end with them, and what a write makes.       *)
LEMMA FileKinds ==
  /\ \A u \in Upload : /\ Empty(u) \in File /\ Empty(u).of = u /\ Empty(u).len = 0
                       /\ Empty(u).good = {}
  /\ \A u \in Upload : Whole(u) \in File /\ Whole(u).of = u /\ Whole(u).len = Size
                       /\ Whole(u).good = Byte
BY Constants DEF Empty, Whole, File, Byte

(* What a chunk makes of a file: its length, and the bytes it holds.       *)
LEMMA WrittenFile ==
  ASSUME NEW f \in File, NEW pos \in Nat, NEW n \in Nat, pos + n <= Size + MaxChunk,
         NEW gap \in BOOLEAN
  PROVE  /\ Written(f, pos, n, gap) \in File
         /\ Written(f, pos, n, gap).of = f.of
         /\ Written(f, pos, n, gap).len = IF f.len < pos + n THEN pos + n ELSE f.len
         /\ ~gap => Written(f, pos, n, gap).good = f.good \cup ((pos .. pos + n - 1) \cap Byte)
<1> DEFINE bytes == (pos .. pos + n - 1) \cap Byte
           len == IF f.len < pos + n THEN pos + n ELSE f.len
           good == IF gap THEN f.good \ bytes ELSE f.good \cup bytes
<1>1. len \in 0 .. Size + MaxChunk
  BY Constants DEF File
<1>2. good \in SUBSET Byte
  BY DEF File
<1>3. Written(f, pos, n, gap) = [f EXCEPT !.len = len, !.good = good]
  BY DEF Written
<1> HIDE DEF len, good
<1>4. [f EXCEPT !.len = len, !.good = good] \in File
  BY <1>1, <1>2 DEF File
<1>5. /\ [f EXCEPT !.len = len, !.good = good].len = len
      /\ [f EXCEPT !.len = len, !.good = good].good = good
      /\ [f EXCEPT !.len = len, !.good = good].of = f.of
  BY <1>1, <1>2 DEF File
<1>6. /\ Written(f, pos, n, gap) \in File /\ Written(f, pos, n, gap).of = f.of
      /\ Written(f, pos, n, gap).len = len /\ Written(f, pos, n, gap).good = good
  BY <1>3, <1>4, <1>5
<1> QED
  BY <1>6 DEF len, good

(* What a step of one request leaves of the others: all but their handles, *)
(* and those as well unless a file is removed or moved.                    *)
OthersStay(c) ==
  \A d \in Patch \ {c} :
    /\ patch'[d].pc = patch[d].pc /\ patch'[d].up = patch[d].up /\ patch'[d].pos = patch[d].pos
    /\ patch'[d].gap = patch[d].gap /\ patch'[d].place = patch[d].place
    /\ patch'[d].checksum = patch[d].checksum
HandlesStay(c) == \A d \in Patch \ {c} : patch'[d].at = patch[d].at

(* What a step keeps of its own request.                                   *)
SameJob(c) == /\ patch'[c].up = patch[c].up /\ patch'[c].place = patch[c].place
              /\ patch'[c].checksum = patch[c].checksum
SamePosition(c) == patch'[c].pos = patch[c].pos /\ patch'[c].gap = patch[c].gap
Idle(c) == /\ patch'[c].pc = "idle" /\ patch'[c].up = Nowhere /\ patch'[c].at = Nowhere
           /\ patch'[c].place = Nowhere /\ patch'[c].checksum = NoFile

(* One request gets a new record.                                          *)
LEMMA OneRequest ==
  ASSUME PatchType, NEW c \in Patch, NEW r \in PatchState, patch' = [patch EXCEPT ![c] = r]
  PROVE  PatchType' /\ patch'[c] = r /\ OthersStay(c) /\ HandlesStay(c)
BY DEF PatchType, OthersStay, HandlesStay

(* A request goes to another step.                                         *)
LEMMA GotoFields ==
  ASSUME PatchType, NEW c \in Patch, NEW s \in {"read", "checksum", "verify", "unlink", "drop"},
         Goto(c, s)
  PROVE  /\ PatchType' /\ OthersStay(c) /\ HandlesStay(c) /\ patch'[c].pc = s
         /\ SameJob(c) /\ SamePosition(c) /\ patch'[c].at = patch[c].at
<1> DEFINE r == [patch[c] EXCEPT !.pc = s]
<1>1. r \in PatchState
  BY DEF PatchType, PatchState
<1>2. patch' = [patch EXCEPT ![c] = r]
  BY DEF Goto, PatchType
<1>3. /\ r.pc = s /\ r.up = patch[c].up /\ r.pos = patch[c].pos /\ r.gap = patch[c].gap
      /\ r.at = patch[c].at /\ r.place = patch[c].place /\ r.checksum = patch[c].checksum
  BY DEF PatchType, PatchState
<1> HIDE DEF r
<1> QED
  BY <1>1, <1>2, <1>3, OneRequest DEF SameJob, SamePosition

(* An idle request.                                                        *)
LEMMA IdleFields ==
  /\ IdlePatch.pc = "idle" /\ IdlePatch.up = Nowhere /\ IdlePatch.pos = 0 /\ IdlePatch.at = Nowhere
  /\ IdlePatch.gap = FALSE /\ IdlePatch.place = Nowhere /\ IdlePatch.checksum = NoFile
  /\ IdlePatch \in PatchState
BY Constants DEF IdlePatch, PatchState

(* A request ends.                                                         *)
LEMMA EndFields ==
  ASSUME PatchType, NEW c \in Patch, End(c)
  PROVE  PatchType' /\ OthersStay(c) /\ HandlesStay(c) /\ Idle(c)
BY IdleFields, OneRequest DEF End, Idle

(* A closed handle points nowhere, a carried one to the new place; nothing *)
(* else changes in a request.                                              *)
LEMMA ClosedFields ==
  ASSUME NEW f \in [Patch -> PatchState], NEW k
  PROVE  /\ Closed(f, k) \in [Patch -> PatchState]
         /\ \A c \in Patch :
              LET r == Closed(f, k)[c] IN
              /\ r.pc = f[c].pc /\ r.up = f[c].up /\ r.pos = f[c].pos
              /\ r.gap = f[c].gap /\ r.place = f[c].place /\ r.checksum = f[c].checksum
              /\ r.at = IF f[c].at = k THEN Nowhere ELSE f[c].at
<1>1. ASSUME NEW c \in Patch
      PROVE  LET r == [f[c] EXCEPT !.at = Nowhere] IN
             /\ r \in PatchState /\ r.at = Nowhere
             /\ r.pc = f[c].pc /\ r.up = f[c].up /\ r.pos = f[c].pos
             /\ r.gap = f[c].gap /\ r.place = f[c].place /\ r.checksum = f[c].checksum
  BY DEF PatchState
<1> DEFINE g == Closed(f, k)
<1>2. ASSUME NEW c \in Patch
      PROVE  g[c] = IF f[c].at = k THEN [f[c] EXCEPT !.at = Nowhere] ELSE f[c]
  BY DEF Closed
<1>3. g \in [Patch -> PatchState]
  BY <1>1 DEF Closed
<1> HIDE DEF g
<1>4. ASSUME NEW c \in Patch
      PROVE  /\ g[c].pc = f[c].pc /\ g[c].up = f[c].up /\ g[c].pos = f[c].pos
             /\ g[c].gap = f[c].gap /\ g[c].place = f[c].place /\ g[c].checksum = f[c].checksum
             /\ g[c].at = IF f[c].at = k THEN Nowhere ELSE f[c].at
  <2>1. CASE f[c].at = k
    BY <1>1, <1>2, <2>1
  <2>2. CASE f[c].at # k
    BY <1>2, <2>2
  <2> QED
    BY <2>1, <2>2
<1> QED
  BY <1>3, <1>4 DEF g

(* Open files follow a file that is renamed.                               *)
LEMMA CarriedFields ==
  ASSUME NEW f \in [Patch -> PatchState], NEW k, NEW l \in Location
  PROVE  /\ Carried(f, k, l) \in [Patch -> PatchState]
         /\ \A c \in Patch :
              LET r == Carried(f, k, l)[c] IN
              /\ r.pc = f[c].pc /\ r.up = f[c].up /\ r.pos = f[c].pos
              /\ r.gap = f[c].gap /\ r.place = f[c].place /\ r.checksum = f[c].checksum
              /\ r.at = IF f[c].at = k THEN l ELSE f[c].at
<1>1. ASSUME NEW c \in Patch
      PROVE  LET r == [f[c] EXCEPT !.at = l] IN
             /\ r \in PatchState /\ r.at = l
             /\ r.pc = f[c].pc /\ r.up = f[c].up /\ r.pos = f[c].pos
             /\ r.gap = f[c].gap /\ r.place = f[c].place /\ r.checksum = f[c].checksum
  BY DEF PatchState
<1> DEFINE g == Carried(f, k, l)
<1>2. ASSUME NEW c \in Patch
      PROVE  g[c] = IF f[c].at = k THEN [f[c] EXCEPT !.at = l] ELSE f[c]
  BY DEF Carried
<1>3. g \in [Patch -> PatchState]
  BY <1>1 DEF Carried
<1> HIDE DEF g
<1>4. ASSUME NEW c \in Patch
      PROVE  /\ g[c].pc = f[c].pc /\ g[c].up = f[c].up /\ g[c].pos = f[c].pos
             /\ g[c].gap = f[c].gap /\ g[c].place = f[c].place /\ g[c].checksum = f[c].checksum
             /\ g[c].at = IF f[c].at = k THEN l ELSE f[c].at
  <2>1. CASE f[c].at = k
    BY <1>1, <1>2, <2>1
  <2>2. CASE f[c].at # k
    BY <1>2, <2>2
  <2> QED
    BY <2>1, <2>2
<1> QED
  BY <1>3, <1>4 DEF g

(* A status is set in a row that is there.                                 *)
LEMMA StatusFields ==
  ASSUME UploadType, NEW u \in Upload, NEW s \in {"expired", "completed", "gone"}, SetStatus(u, s)
  PROVE  /\ upload' \in [Upload -> UploadRow]
         /\ \A v \in Upload : /\ upload'[v].path = upload[v].path
                              /\ upload'[v].received = upload[v].received
                              /\ v # u => upload'[v] = upload[v]
         /\ upload'[u].status = IF Row(u) THEN s ELSE upload[u].status
<1>1. CASE ~Row(u)
  BY <1>1 DEF SetStatus, UploadType
<1>2. CASE Row(u)
  <2>1. upload' = [upload EXCEPT ![u] = [upload[u] EXCEPT !.status = s]]
    BY <1>2 DEF SetStatus, UploadType
  <2>2. [upload[u] EXCEPT !.status = s] \in UploadRow
    BY DEF UploadType, UploadRow
  <2>3. /\ [upload[u] EXCEPT !.status = s].status = s
        /\ [upload[u] EXCEPT !.status = s].path = upload[u].path
        /\ [upload[u] EXCEPT !.status = s].received = upload[u].received
    BY DEF UploadType, UploadRow
  <2>4. upload'[u] = [upload[u] EXCEPT !.status = s]
        /\ \A v \in Upload \ {u} : upload'[v] = upload[v]
    BY <2>1 DEF UploadType
  <2> QED
    BY <1>2, <2>1, <2>2, <2>3, <2>4 DEF UploadType
<1> QED
  BY <1>1, <1>2
-----------------------------------------------------------------------------
(* What the steps of a PATCH do, field by field.                           *)

(* The row is read: a request for u at a position.                         *)
LEMMA CheckFields ==
  ASSUME UploadType, PatchType, NEW c \in Patch, NEW u \in Upload, PatchCheck(c, u)
  PROVE  /\ PatchType' /\ OthersStay(c) /\ HandlesStay(c)
         /\ patch'[c].pc = IF u \in late THEN "late" ELSE "open"
         /\ patch'[c].up = u /\ patch'[c].pos = upload[u].received /\ patch'[c].at = Nowhere
         /\ patch'[c].place = Nowhere /\ patch'[c].gap = FALSE
<1> DEFINE pc == IF u \in late THEN "late" ELSE "open"
           pos == upload[u].received
           r == [IdlePatch EXCEPT !.pc = pc, !.up = u, !.pos = pos]
<1>1. pc \in {"late", "open"} /\ pos \in 0 .. Size + MaxChunk
  BY Constants DEF UploadType, UploadRow
<1>2. patch' = [patch EXCEPT ![c] = r]
  BY DEF PatchCheck
<1> HIDE DEF pc, pos
<1>3. r \in PatchState
  BY <1>1, IdleFields DEF PatchState
<1>4. /\ r.pc = pc /\ r.up = u /\ r.pos = pos /\ r.at = IdlePatch.at
      /\ r.place = IdlePatch.place /\ r.gap = IdlePatch.gap
  BY IdleFields DEF PatchState
<1> HIDE DEF r
<1> QED
  BY <1>2, <1>3, <1>4, IdleFields, OneRequest DEF pc, pos

(* The file is opened.                                                     *)
LEMMA OpenFields ==
  ASSUME PatchType, NEW c \in Patch, PatchOpen(c), patch[c].up \in Upload,
         ~(patch[c].pos > 0 /\ disk[patch[c].up] = NoFile)
  PROVE  /\ PatchType' /\ OthersStay(c) /\ HandlesStay(c) /\ SameJob(c) /\ SamePosition(c)
         /\ patch'[c].pc = "write" /\ patch'[c].at = patch[c].up
<1> DEFINE u == patch[c].up
           r == [patch[c] EXCEPT !.pc = "write", !.at = u]
<1>1. patch' = [patch EXCEPT ![c] = r]
  BY DEF PatchOpen, PatchType
<1>2. r \in PatchState
  BY DEF PatchType, PatchState, Location
<1>3. /\ r.pc = "write" /\ r.up = patch[c].up /\ r.pos = patch[c].pos /\ r.gap = patch[c].gap
      /\ r.at = u /\ r.place = patch[c].place /\ r.checksum = patch[c].checksum
  BY DEF PatchType, PatchState
<1> HIDE DEF r
<1> QED
  BY <1>1, <1>2, <1>3, OneRequest DEF SameJob, SamePosition

(* A chunk is written.                                                     *)
LEMMA WriteFields ==
  ASSUME PatchType, NEW c \in Patch, NEW n \in 1 .. MaxChunk, NEW m \in 1 .. MaxChunk, m <= n,
         PatchWrite(c, n, m)
  PROVE  /\ PatchType' /\ OthersStay(c) /\ HandlesStay(c) /\ SameJob(c)
         /\ patch'[c].pc = "write" /\ patch'[c].at = patch[c].at
         /\ patch'[c].pos = patch[c].pos + m /\ patch'[c].gap = (patch[c].gap \/ m < n)
<1> DEFINE pos == patch[c].pos + m
           gap == patch[c].gap \/ m < n
           r == [patch[c] EXCEPT !.pos = pos, !.gap = gap]
<1>1. patch[c].pos + n <= Size + MaxChunk /\ patch[c].pc = "write"
  BY DEF PatchWrite
<1>2. pos \in 0 .. Size + MaxChunk
  BY <1>1, Constants DEF PatchType, PatchState
<1>3. gap \in BOOLEAN
  OBVIOUS
<1>4. patch' = [patch EXCEPT ![c] = r]
  BY DEF PatchWrite, PatchType
<1> HIDE DEF pos, gap
<1>5. r \in PatchState
  BY <1>2, <1>3 DEF PatchType, PatchState
<1>6. /\ r.pc = patch[c].pc /\ r.up = patch[c].up /\ r.pos = pos /\ r.gap = gap
      /\ r.at = patch[c].at /\ r.place = patch[c].place /\ r.checksum = patch[c].checksum
  BY <1>2, <1>3 DEF PatchType, PatchState
<1> HIDE DEF r
<1> QED
  BY <1>1, <1>4, <1>5, <1>6, OneRequest DEF SameJob, pos, gap

(* The end of the body.                                                    *)
LEMMA CloseFields ==
  ASSUME PatchType, NEW c \in Patch, PatchClose(c)
  PROVE  /\ PatchType' /\ OthersStay(c) /\ HandlesStay(c) /\ SameJob(c)
         /\ patch'[c].pc = IF patch[c].pos > Size THEN "exceed" ELSE "record"
         /\ patch'[c].at = Nowhere /\ patch'[c].pos = patch[c].pos /\ patch'[c].gap = FALSE
<1> DEFINE pc == IF patch[c].pos > Size THEN "exceed" ELSE "record"
           r == [patch[c] EXCEPT !.pc = pc, !.at = Nowhere, !.gap = FALSE]
<1>1. pc \in {"exceed", "record"}
  OBVIOUS
<1>2. patch' = [patch EXCEPT ![c] = r]
  BY DEF PatchClose, PatchType
<1> HIDE DEF pc
<1>3. r \in PatchState
  BY <1>1 DEF PatchType, PatchState
<1>4. /\ r.pc = pc /\ r.up = patch[c].up /\ r.pos = patch[c].pos /\ r.gap = FALSE
      /\ r.at = Nowhere /\ r.place = patch[c].place /\ r.checksum = patch[c].checksum
  BY <1>1 DEF PatchType, PatchState
<1> HIDE DEF r
<1> QED
  BY <1>2, <1>3, <1>4, OneRequest DEF SameJob, pc

(* A step that removes a file, or moves it.  The request itself has none   *)
(* open.                                                                   *)
LEMMA RemoveFields ==
  ASSUME PatchType, NEW c \in Patch, NEW k \in Location,
         NEW s \in {"refuse", "insert"}, patch' = [Closed(patch, k) EXCEPT ![c].pc = s]
  PROVE  /\ PatchType' /\ OthersStay(c) /\ SameJob(c) /\ SamePosition(c) /\ patch'[c].pc = s
         /\ \A d \in Patch : patch'[d].at = IF patch[d].at = k THEN Nowhere ELSE patch[d].at
<1> DEFINE f == Closed(patch, k)
           r == [f[c] EXCEPT !.pc = s]
<1>1. f \in [Patch -> PatchState]
  BY ClosedFields DEF PatchType
<1>2. /\ \A d \in Patch :
           /\ f[d].pc = patch[d].pc /\ f[d].up = patch[d].up /\ f[d].pos = patch[d].pos
           /\ f[d].gap = patch[d].gap /\ f[d].place = patch[d].place
           /\ f[d].checksum = patch[d].checksum
           /\ f[d].at = IF patch[d].at = k THEN Nowhere ELSE patch[d].at
  BY ClosedFields DEF PatchType
<1> HIDE DEF f
<1>3. patch' = [f EXCEPT ![c] = r]
  BY <1>1 DEF f
<1>4. r \in PatchState
  BY <1>1 DEF PatchState
<1>5. /\ r.pc = s /\ r.up = f[c].up /\ r.pos = f[c].pos /\ r.gap = f[c].gap
      /\ r.at = f[c].at /\ r.place = f[c].place /\ r.checksum = f[c].checksum
  BY <1>1 DEF PatchState
<1> HIDE DEF r
<1>6. PatchType' /\ patch'[c] = r /\ \A d \in Patch \ {c} : patch'[d] = f[d]
  BY <1>1, <1>3, <1>4 DEF PatchType
<1>7. ASSUME NEW d \in Patch \ {c}
      PROVE  /\ patch'[d].pc = patch[d].pc /\ patch'[d].up = patch[d].up
             /\ patch'[d].pos = patch[d].pos /\ patch'[d].gap = patch[d].gap
             /\ patch'[d].place = patch[d].place /\ patch'[d].checksum = patch[d].checksum
             /\ patch'[d].at = IF patch[d].at = k THEN Nowhere ELSE patch[d].at
  BY <1>2, <1>6
<1>8. SameJob(c) /\ SamePosition(c) /\ patch'[c].pc = s
  BY <1>2, <1>5, <1>6 DEF SameJob, SamePosition
<1>9. patch'[c].at = IF patch[c].at = k THEN Nowhere ELSE patch[c].at
  BY <1>2, <1>5, <1>6
<1> QED
  BY <1>6, <1>7, <1>8, <1>9 DEF OthersStay

(* A place for the file is chosen, and what was read is remembered.        *)
Chosen(c, place, f) ==
  patch' = [patch EXCEPT ![c].pc = "move", ![c].place = place, ![c].checksum = f]

(* A place is chosen.                                                      *)
LEMMA ChecksumFields ==
  ASSUME PatchType, NEW c \in Patch, NEW place \in Place, NEW f \in File,
         Chosen(c, place, f)
  PROVE  /\ PatchType' /\ OthersStay(c) /\ HandlesStay(c) /\ SamePosition(c)
         /\ patch'[c].pc = "move" /\ patch'[c].at = patch[c].at /\ patch'[c].up = patch[c].up
         /\ patch'[c].place = place /\ patch'[c].checksum = f
<1> DEFINE r == [patch[c] EXCEPT !.pc = "move", !.place = place, !.checksum = f]
<1>1. patch' = [patch EXCEPT ![c] = r]
  BY DEF PatchType, Chosen
<1>2. r \in PatchState
  BY DEF PatchType, PatchState
<1>3. /\ r.pc = "move" /\ r.up = patch[c].up /\ r.pos = patch[c].pos /\ r.gap = patch[c].gap
      /\ r.at = patch[c].at /\ r.place = place /\ r.checksum = f
  BY DEF PatchType, PatchState
<1> HIDE DEF r
<1> QED
  BY <1>1, <1>2, <1>3, OneRequest DEF SamePosition

(* The copy is made; it is still to be compared.                           *)
LEMMA CopyFields ==
  ASSUME PatchType, NEW c \in Patch, patch' = [patch EXCEPT ![c].pc = "verify"]
  PROVE  /\ PatchType' /\ OthersStay(c) /\ HandlesStay(c) /\ SameJob(c) /\ SamePosition(c)
         /\ patch'[c].pc = "verify" /\ patch'[c].at = patch[c].at
BY GotoFields DEF Goto

(* The file is renamed: handles of the file it replaces are closed, its    *)
(* own go with it.                                                         *)
LEMMA RenameFields ==
  ASSUME PatchType, NEW c \in Patch, NEW k \in Location, NEW l \in Location, k # l,
         patch' = [Carried(Closed(patch, l), k, l) EXCEPT ![c].pc = "insert"]
  PROVE  /\ PatchType' /\ OthersStay(c) /\ SameJob(c) /\ SamePosition(c)
         /\ patch'[c].pc = "insert"
         /\ \A d \in Patch : patch'[d].at = IF patch[d].at = l THEN Nowhere
                                            ELSE IF patch[d].at = k THEN l ELSE patch[d].at
<1> DEFINE e == Closed(patch, l)
           f == Carried(e, k, l)
           r == [f[c] EXCEPT !.pc = "insert"]
<1>1. /\ e \in [Patch -> PatchState]
      /\ \A d \in Patch :
           /\ e[d].pc = patch[d].pc /\ e[d].up = patch[d].up /\ e[d].pos = patch[d].pos
           /\ e[d].gap = patch[d].gap /\ e[d].place = patch[d].place
           /\ e[d].checksum = patch[d].checksum
           /\ e[d].at = IF patch[d].at = l THEN Nowhere ELSE patch[d].at
  BY ClosedFields DEF PatchType
<1> HIDE DEF e
<1>2. /\ f \in [Patch -> PatchState]
      /\ \A d \in Patch :
           /\ f[d].pc = e[d].pc /\ f[d].up = e[d].up /\ f[d].pos = e[d].pos
           /\ f[d].gap = e[d].gap /\ f[d].place = e[d].place
           /\ f[d].checksum = e[d].checksum
           /\ f[d].at = IF e[d].at = k THEN l ELSE e[d].at
  BY <1>1, CarriedFields
<1>3. patch' = [f EXCEPT ![c] = r]
  BY <1>2 DEF e
<1> HIDE DEF f
<1>4. r \in PatchState
  BY <1>2 DEF PatchState
<1>5. /\ r.pc = "insert" /\ r.up = f[c].up /\ r.pos = f[c].pos /\ r.gap = f[c].gap
      /\ r.at = f[c].at /\ r.place = f[c].place /\ r.checksum = f[c].checksum
  BY <1>2 DEF PatchState
<1> HIDE DEF r
<1>6. PatchType' /\ patch'[c] = r /\ \A d \in Patch \ {c} : patch'[d] = f[d]
  BY <1>2, <1>3, <1>4 DEF PatchType
<1>7. OthersStay(c)
  BY <1>1, <1>2, <1>6 DEF OthersStay
<1>8. SameJob(c) /\ SamePosition(c) /\ patch'[c].pc = "insert"
  <2>1. /\ f[c].up = patch[c].up /\ f[c].pos = patch[c].pos /\ f[c].gap = patch[c].gap
        /\ f[c].place = patch[c].place /\ f[c].checksum = patch[c].checksum
    BY <1>1, <1>2
  <2>2. patch'[c] = r
    BY <1>6
  <2> QED
    BY <1>5, <2>1, <2>2 DEF SameJob, SamePosition
<1>9. \A d \in Patch : patch'[d].at = f[d].at
  BY <1>5, <1>6
<1>10. Nowhere # k
  BY Constants
<1> QED
  BY <1>1, <1>2, <1>6, <1>7, <1>8, <1>9, <1>10

(* The moved file is removed, and the request is over.                     *)
LEMMA DropFields ==
  ASSUME PatchType, NEW c \in Patch, NEW k \in Location,
         patch' = [Closed(patch, k) EXCEPT ![c] = IdlePatch]
  PROVE  /\ PatchType' /\ OthersStay(c) /\ Idle(c)
         /\ \A d \in Patch \ {c} :
              patch'[d].at = IF patch[d].at = k THEN Nowhere ELSE patch[d].at
<1> DEFINE f == Closed(patch, k)
<1>1. /\ f \in [Patch -> PatchState]
      /\ \A d \in Patch :
           /\ f[d].pc = patch[d].pc /\ f[d].up = patch[d].up /\ f[d].pos = patch[d].pos
           /\ f[d].gap = patch[d].gap /\ f[d].place = patch[d].place
           /\ f[d].checksum = patch[d].checksum
           /\ f[d].at = IF patch[d].at = k THEN Nowhere ELSE patch[d].at
  BY ClosedFields DEF PatchType
<1>2. patch' = [f EXCEPT ![c] = IdlePatch]
  OBVIOUS
<1> HIDE DEF f
<1>3. PatchType' /\ patch'[c] = IdlePatch /\ \A d \in Patch \ {c} : patch'[d] = f[d]
  BY <1>1, <1>2, IdleFields DEF PatchType
<1> QED
  BY <1>1, <1>3, IdleFields DEF OthersStay, Idle

(* A file is removed that no request of its own does: only handles change. *)
OnlyHandles(S) ==
  \A d \in Patch :
    /\ patch'[d].pc = patch[d].pc /\ patch'[d].up = patch[d].up /\ patch'[d].pos = patch[d].pos
    /\ patch'[d].gap = patch[d].gap /\ patch'[d].place = patch[d].place
    /\ patch'[d].checksum = patch[d].checksum
    /\ patch'[d].at = IF patch[d].at \in S THEN Nowhere ELSE patch[d].at

(* A file that is removed outside of a request takes its handles with it.  *)
LEMMA ClosedHandles ==
  ASSUME PatchType, NEW l, patch' = Closed(patch, l)
  PROVE  PatchType' /\ OnlyHandles({l})
BY ClosedFields DEF PatchType, OnlyHandles

(* So do the files of a folder.                                            *)
LEMMA FolderHandles ==
  ASSUME PatchType, FolderRemove
  PROVE  PatchType' /\ OnlyHandles(Path)
<1>1. ASSUME NEW c \in Patch
      PROVE  LET r == [patch[c] EXCEPT !.at = Nowhere] IN
             /\ r \in PatchState /\ r.at = Nowhere
             /\ r.pc = patch[c].pc /\ r.up = patch[c].up /\ r.pos = patch[c].pos
             /\ r.gap = patch[c].gap /\ r.place = patch[c].place
             /\ r.checksum = patch[c].checksum
  BY DEF PatchState, PatchType
<1>2. \A c \in Patch : patch'[c] = IF patch[c].at \in Path
                                   THEN [patch[c] EXCEPT !.at = Nowhere] ELSE patch[c]
  BY DEF FolderRemove
<1>3. PatchType'
  BY <1>1 DEF FolderRemove, PatchType
<1>4. ASSUME NEW d \in Patch
      PROVE  /\ patch'[d].pc = patch[d].pc /\ patch'[d].up = patch[d].up
             /\ patch'[d].pos = patch[d].pos /\ patch'[d].gap = patch[d].gap
             /\ patch'[d].place = patch[d].place /\ patch'[d].checksum = patch[d].checksum
             /\ patch'[d].at = IF patch[d].at \in Path THEN Nowhere ELSE patch[d].at
  <2>1. CASE patch[d].at \in Path
    BY <1>1, <1>2, <2>1
  <2>2. CASE patch[d].at \notin Path
    BY <1>2, <2>2
  <2> QED
    BY <2>1, <2>2
<1> QED
  BY <1>3, <1>4 DEF OnlyHandles

(* Rows are inserted and advance.                                          *)
LEMMA InsertedFields ==
  ASSUME UploadType, JobType, NEW u \in Upload, PostInsert(u)
  PROVE  /\ UploadType'
         /\ upload'[u].status = "in_progress" /\ upload'[u].path = post[u]
         /\ upload'[u].received = upload[u].received
         /\ \A v \in Upload \ {u} : upload'[v] = upload[v]
<1> DEFINE r == [upload[u] EXCEPT !.status = "in_progress", !.path = post[u]]
<1>1. upload' = [upload EXCEPT ![u] = r]
  BY DEF PostInsert, UploadType
<1>2. post[u] \in Path
  BY DEF PostInsert, JobType
<1>3. r \in UploadRow
  BY <1>2 DEF UploadType, UploadRow
<1>4. r.status = "in_progress" /\ r.path = post[u] /\ r.received = upload[u].received
  BY <1>2 DEF UploadType, UploadRow
<1> HIDE DEF r
<1> QED
  BY <1>1, <1>3, <1>4 DEF UploadType

(* The offset of an upload is recorded.                                    *)
LEMMA RecordedFields ==
  ASSUME UploadType, NEW c \in Patch, PatchRecord(c), patch[c].up \in Upload,
         patch[c].pos \in 0 .. Size
  PROVE  /\ UploadType'
         /\ \A v \in Upload :
              /\ upload'[v].status = upload[v].status /\ upload'[v].path = upload[v].path
              /\ upload'[v].received = IF v = patch[c].up /\ Row(v) THEN patch[c].pos
                                       ELSE upload[v].received
<1> DEFINE u == patch[c].up
           pos == patch[c].pos
           r == [upload[u] EXCEPT !.received = pos]
<1>1. CASE ~Row(u)
  BY <1>1 DEF PatchRecord, UploadType
<1>2. CASE Row(u)
  <2>1. upload' = [upload EXCEPT ![u] = r]
    BY <1>2 DEF PatchRecord, UploadType
  <2>2. r \in UploadRow
    BY DEF UploadType, UploadRow
  <2>3. r.status = upload[u].status /\ r.path = upload[u].path /\ r.received = pos
    BY DEF UploadType, UploadRow
  <2> HIDE DEF r
  <2> QED
    BY <1>2, <2>1, <2>2, <2>3 DEF UploadType
<1> QED
  BY <1>1, <1>2
-----------------------------------------------------------------------------
(* The steps that change a variable; all others leave it.                  *)

(* A request writes a chunk, or a part of it.                              *)
Writes(c) == \E n \in 1 .. MaxChunk, m \in 1 .. MaxChunk : m <= n /\ PatchWrite(c, n, m)

(* The steps that change rows of uploads.                                  *)
LEMMA UploadSteps ==
  ASSUME [Next]_vars
  PROVE  \/ UNCHANGED upload
         \/ \E u \in Upload : PostInsert(u) \/ CancelRow(u)
         \/ \E c \in Patch : PatchLate(c) \/ PatchRefuse(c) \/ PatchRecord(c)
         \/ \E c \in Patch : FinalInsert(c)
         \/ SweepMark
<1>1. CASE UNCHANGED vars
  BY <1>1 DEF vars, db
<1>2. ASSUME NEW u \in Upload, PostInsert(u) \/ CancelRow(u) \/ Cancel(u) \/ Expire(u)
                               \/ \E p \in Path : PostCheck(u, p)
      PROVE  UNCHANGED upload \/ PostInsert(u) \/ CancelRow(u)
  BY <1>2 DEF Cancel, Expire, PostCheck, db
<1>3. ASSUME NEW c \in Patch, Receive(c)
      PROVE  UNCHANGED upload \/ PatchLate(c) \/ PatchRefuse(c) \/ PatchRecord(c)
  BY <1>3 DEF Receive, PatchOpen, PatchAbort, PatchClose, PatchWrite, PatchExceed, db
<1>4. ASSUME NEW c \in Patch, Finalize(c)
      PROVE  UNCHANGED upload \/ FinalInsert(c)
  BY <1>4 DEF Finalize, FinalRead, FinalChecksum, FinalMove, FinalVerify, FinalUnlink
                        , FinalDrop, db
<1>5. ASSUME NEW c \in Patch, NEW u \in Upload, PatchCheck(c, u)
      PROVE  UNCHANGED upload
  BY <1>5 DEF PatchCheck, db
<1>6. ASSUME NEW d \in Deleter,
             DeleteUnlink(d) \/ DeleteRow(d) \/ \E p \in Path : DeleteFile(d, p)
      PROVE  UNCHANGED upload
  BY <1>6 DEF DeleteUnlink, DeleteRow, DeleteFile, db
<1>7. ASSUME DeleteFolder \/ FolderRemove \/ FolderRow \/ CreateFolder \/ Restart
      PROVE  UNCHANGED upload
  BY <1>7 DEF DeleteFolder, FolderRemove, FolderRow, CreateFolder, Restart, db
<1>8. ASSUME Sweep
      PROVE  UNCHANGED upload \/ SweepMark
  BY <1>8 DEF Sweep, SweepBegin, SweepRemove, db
<1> QED
  BY <1>1, <1>2, <1>3, <1>4, <1>5, <1>6, <1>7, <1>8 DEF Next

(* The steps that change rows of files or the folder.                      *)
LEMMA FileSteps ==
  ASSUME [Next]_vars
  PROVE  \/ UNCHANGED <<file, folder>>
         \/ \E c \in Patch : FinalChecksum(c) \/ FinalInsert(c)
         \/ \E d \in Deleter : DeleteRow(d)
         \/ FolderRemove \/ FolderRow \/ CreateFolder
<1>1. CASE UNCHANGED vars
  BY <1>1 DEF vars, db
<1>2. ASSUME NEW u \in Upload, PostInsert(u) \/ CancelRow(u) \/ Cancel(u) \/ Expire(u)
                               \/ \E p \in Path : PostCheck(u, p)
      PROVE  UNCHANGED <<file, folder>>
  BY <1>2 DEF PostInsert, CancelRow, Cancel, Expire, PostCheck, db
<1>3. ASSUME NEW c \in Patch, Receive(c)
      PROVE  UNCHANGED <<file, folder>>
  BY <1>3 DEF Receive, PatchLate, PatchOpen, PatchAbort, PatchClose, PatchWrite, PatchExceed
                       , PatchRefuse, PatchRecord, db
<1>4. ASSUME NEW c \in Patch, Finalize(c)
      PROVE  UNCHANGED <<file, folder>> \/ FinalChecksum(c) \/ FinalInsert(c)
  BY <1>4 DEF Finalize, FinalRead, FinalMove, FinalVerify, FinalUnlink, FinalDrop, db
<1>5. ASSUME NEW c \in Patch, NEW u \in Upload, PatchCheck(c, u)
      PROVE  UNCHANGED <<file, folder>>
  BY <1>5 DEF PatchCheck, db
<1>6. ASSUME NEW d \in Deleter,
             DeleteUnlink(d) \/ DeleteRow(d) \/ \E p \in Path : DeleteFile(d, p)
      PROVE  UNCHANGED <<file, folder>> \/ DeleteRow(d)
  BY <1>6 DEF DeleteUnlink, DeleteFile, db
<1>7. ASSUME DeleteFolder \/ FolderRemove \/ FolderRow \/ CreateFolder \/ Restart
      PROVE  UNCHANGED <<file, folder>> \/ FolderRemove \/ FolderRow \/ CreateFolder
  BY <1>7 DEF DeleteFolder, Restart, db
<1>8. ASSUME Sweep
      PROVE  UNCHANGED <<file, folder>>
  BY <1>8 DEF Sweep, SweepBegin, SweepRemove, SweepMark, db
<1> QED
  BY <1>1, <1>2, <1>3, <1>4, <1>5, <1>6, <1>7, <1>8 DEF Next

(* The steps that change files.                                            *)
LEMMA DiskSteps ==
  ASSUME [Next]_vars
  PROVE  \/ UNCHANGED disk
         \/ \E u \in Upload : Cancel(u) \/ \E p \in Path : PostCheck(u, p)
         \/ \E c \in Patch : PatchOpen(c) \/ PatchExceed(c) \/ Writes(c)
         \/ \E c \in Patch : FinalMove(c) \/ FinalUnlink(c) \/ FinalDrop(c)
         \/ \E d \in Deleter : DeleteUnlink(d)
         \/ FolderRemove \/ SweepRemove
<1>1. CASE UNCHANGED vars
  BY <1>1 DEF vars
<1>2. ASSUME NEW u \in Upload, PostInsert(u) \/ CancelRow(u) \/ Cancel(u) \/ Expire(u)
                               \/ \E p \in Path : PostCheck(u, p)
      PROVE  UNCHANGED disk \/ Cancel(u) \/ \E p \in Path : PostCheck(u, p)
  BY <1>2 DEF PostInsert, CancelRow, Expire
<1>3. ASSUME NEW c \in Patch, Receive(c)
      PROVE  UNCHANGED disk \/ PatchOpen(c) \/ PatchExceed(c) \/ Writes(c)
  BY <1>3 DEF Receive, Writes, PatchLate, PatchAbort, PatchClose, PatchRefuse, PatchRecord
                               
<1>4. ASSUME NEW c \in Patch, Finalize(c)
      PROVE  UNCHANGED disk \/ FinalMove(c) \/ FinalUnlink(c) \/ FinalDrop(c)
  BY <1>4 DEF Finalize, FinalRead, FinalChecksum, FinalVerify, FinalInsert
<1>5. ASSUME NEW c \in Patch, NEW u \in Upload, PatchCheck(c, u)
      PROVE  UNCHANGED disk
  BY <1>5 DEF PatchCheck
<1>6. ASSUME NEW d \in Deleter,
             DeleteUnlink(d) \/ DeleteRow(d) \/ \E p \in Path : DeleteFile(d, p)
      PROVE  UNCHANGED disk \/ DeleteUnlink(d)
  BY <1>6 DEF DeleteRow, DeleteFile
<1>7. ASSUME DeleteFolder \/ FolderRemove \/ FolderRow \/ CreateFolder \/ Restart
      PROVE  UNCHANGED disk \/ FolderRemove
  BY <1>7 DEF DeleteFolder, FolderRow, CreateFolder, Restart
<1>8. ASSUME Sweep
      PROVE  UNCHANGED disk \/ SweepRemove
  BY <1>8 DEF Sweep, SweepBegin, SweepMark
<1> QED
  BY <1>1, <1>2, <1>3, <1>4, <1>5, <1>6, <1>7, <1>8 DEF Next

(* The steps that change what is to be inserted.                           *)
LEMMA PostSteps ==
  ASSUME [Next]_vars
  PROVE  \/ UNCHANGED post
         \/ \E u \in Upload : PostInsert(u) \/ \E p \in Path : PostCheck(u, p)
         \/ Restart
<1>1. CASE UNCHANGED vars
  BY <1>1 DEF vars, jobs
<1>2. ASSUME NEW u \in Upload, PostInsert(u) \/ CancelRow(u) \/ Cancel(u) \/ Expire(u)
                               \/ \E p \in Path : PostCheck(u, p)
      PROVE  UNCHANGED post \/ PostInsert(u) \/ \E p \in Path : PostCheck(u, p)
  BY <1>2 DEF CancelRow, Cancel, Expire, jobs
<1>3. ASSUME NEW c \in Patch, Receive(c)
      PROVE  UNCHANGED post
  BY <1>3 DEF Receive, PatchLate, PatchOpen, PatchAbort, PatchClose, PatchWrite, PatchExceed
                       , PatchRefuse, PatchRecord, jobs
<1>4. ASSUME NEW c \in Patch, Finalize(c)
      PROVE  UNCHANGED post
  BY <1>4 DEF Finalize, FinalRead, FinalChecksum, FinalMove, FinalVerify, FinalUnlink
                        , FinalInsert, FinalDrop, jobs
<1>5. ASSUME NEW c \in Patch, NEW u \in Upload, PatchCheck(c, u)
      PROVE  UNCHANGED post
  BY <1>5 DEF PatchCheck, jobs
<1>6. ASSUME NEW d \in Deleter,
             DeleteUnlink(d) \/ DeleteRow(d) \/ \E p \in Path : DeleteFile(d, p)
      PROVE  UNCHANGED post
  BY <1>6 DEF DeleteUnlink, DeleteRow, DeleteFile, jobs
<1>7. ASSUME DeleteFolder \/ FolderRemove \/ FolderRow \/ CreateFolder \/ Restart
      PROVE  UNCHANGED post \/ Restart
  BY <1>7 DEF DeleteFolder, FolderRemove, FolderRow, CreateFolder, jobs
<1>8. ASSUME Sweep
      PROVE  UNCHANGED post
  BY <1>8 DEF Sweep, SweepBegin, SweepRemove, SweepMark, jobs
<1> QED
  BY <1>1, <1>2, <1>3, <1>4, <1>5, <1>6, <1>7, <1>8 DEF Next
-----------------------------------------------------------------------------
(* Types and fields *)

(* A row keeps its path, and is not forgotten.                             *)
RowsStay ==
  \A u \in Upload :
    /\ upload[u].status # "none" => /\ upload'[u].status # "none"
                                    /\ upload'[u].path = upload[u].path
    /\ upload[u].status = "none" => upload'[u].status = "none" \/ post'[u] = NoPath

(* The rows of uploads keep their type and their paths.                    *)
LEMMA UploadTypeStep ==
  ASSUME TypeOK, FieldsInv, [Next]_vars
  PROVE  UploadType' /\ RowsStay /\ RowsInv'
<1>1. UploadType /\ PatchType /\ JobType
  BY TypeParts
<1>2. CASE UNCHANGED upload
  BY <1>1, <1>2 DEF UploadType, RowsStay, FieldsInv, RowsInv
<1>3. ASSUME NEW u \in Upload, PostInsert(u)
      PROVE  UploadType' /\ RowsStay /\ RowsInv'
  <2>1. post[u] \in Path
    BY <1>1, <1>3 DEF PostInsert, JobType
  <2>2. upload[u].status = "none" /\ post'[u] = NoPath
    BY <1>1, <1>3 DEF PostInsert, JobType, FieldsInv, PostedInv
  <2>3. /\ UploadType'
        /\ upload'[u].status = "in_progress" /\ upload'[u].path = post[u]
        /\ \A v \in Upload \ {u} : upload'[v] = upload[v]
    BY <1>1, <1>3, InsertedFields
  <2>4. RowsStay
    BY <2>2, <2>3 DEF RowsStay
  <2>5. RowsInv'
    BY <2>1, <2>3 DEF RowsInv, FieldsInv
  <2> QED
    BY <2>3, <2>4, <2>5
<1>4. ASSUME NEW u \in Upload, NEW s \in {"expired", "completed", "gone"}, SetStatus(u, s)
      PROVE  UploadType' /\ RowsStay /\ RowsInv'
  <2>1. s # "none"
    OBVIOUS
  <2> QED
    BY <1>1, <1>4, <2>1, StatusFields DEF FieldsInv, RowsStay, RowsInv, Row, UploadType
<1>5. ASSUME NEW u \in Upload, CancelRow(u)
      PROVE  UploadType' /\ RowsStay /\ RowsInv'
  BY <1>4, <1>5 DEF CancelRow
<1>6. ASSUME NEW c \in Patch, PatchLate(c) \/ PatchRefuse(c) \/ FinalInsert(c)
      PROVE  UploadType' /\ RowsStay /\ RowsInv'
  <2>1. patch[c].up \in Upload
    BY <1>6 DEF FieldsInv, RequestFields, Active, PatchLate, PatchRefuse, FinalInsert
  <2>2. UNCHANGED upload \/ SetStatus(patch[c].up, "expired") \/ SetStatus(patch[c].up, "completed")
    BY <1>6 DEF PatchLate, PatchRefuse, FinalInsert
  <2> QED
    BY <1>2, <1>4, <2>1, <2>2
<1>7. ASSUME NEW c \in Patch, PatchRecord(c)
      PROVE  UploadType' /\ RowsStay /\ RowsInv'
  <2>1. patch[c].up \in Upload /\ patch[c].pos \in 0 .. Size
    BY <1>1, <1>7, Constants
       DEF FieldsInv, RequestFields, Active, PatchRecord, PatchType, PatchState
  <2> QED
    BY <1>1, <1>7, <2>1, RecordedFields DEF FieldsInv, RowsStay, RowsInv
<1>8. CASE SweepMark
  <2>1. sweep.up \in Upload
    BY <1>1, <1>8 DEF SweepMark, FieldsInv, JobsInv, JobType
  <2> QED
    BY <1>4, <1>8, <2>1 DEF SweepMark
<1> QED
  BY <1>2, <1>3, <1>5, <1>6, <1>7, <1>8, UploadSteps

(* The rows of files and of the folder keep their type.                    *)
LEMMA FileTypeStep ==
  ASSUME TypeOK, FieldsInv, [Next]_vars
  PROVE  FileType'
<1>1. FileType /\ UploadType /\ PatchType
  BY TypeParts
<1>2. CASE UNCHANGED <<file, folder>>
  BY <1>1, <1>2 DEF FileType
<1>3. ASSUME NEW c \in Patch, FinalChecksum(c)
      PROVE  FileType'
  BY <1>1, <1>3 DEF FinalChecksum, FileType
<1>4. ASSUME NEW c \in Patch, FinalInsert(c)
      PROVE  FileType'
  <2> DEFINE r == patch[c]
             row == [of |-> r.up, place |-> r.place, checksum |-> r.checksum]
  <2>1. r.pc = "insert" /\ folder' = folder
    BY <1>4 DEF FinalInsert
  <2>2. r.up \in Upload /\ r.place \in Place /\ r.checksum \in File
    BY <1>1, <2>1, Constants DEF FieldsInv, RequestFields, Active, Placed, PatchType, PatchState
  <2>3. row \in FileRow
    BY <2>2 DEF FileRow
  <2>4. file' = file \/ file' = [file EXCEPT ![upload[r.up].path] = row]
    BY <1>4 DEF FinalInsert
  <2> HIDE DEF row
  <2> QED
    BY <1>1, <2>1, <2>3, <2>4 DEF FileType
<1>5. ASSUME NEW d \in Deleter, DeleteRow(d)
      PROVE  FileType'
  BY <1>1, <1>5 DEF DeleteRow, FileType
<1>6. CASE FolderRemove
  BY <1>1, <1>6 DEF FolderRemove, FileType
<1>7. CASE FolderRow
  BY <1>1, <1>7 DEF FolderRow, FileType
<1>8. CASE CreateFolder
  BY <1>1, <1>8 DEF CreateFolder, FileType
<1> QED
  BY <1>2, <1>3, <1>4, <1>5, <1>6, <1>7, <1>8, FileSteps

(* The files keep their type.                                              *)
LEMMA DiskTypeStep ==
  ASSUME TypeOK, FieldsInv, [Next]_vars
  PROVE  DiskType'
<1>1. DiskType /\ PatchType /\ UploadType /\ JobType
  BY TypeParts
<1>2. CASE UNCHANGED disk
  BY <1>1, <1>2 DEF DiskType
<1>3. ASSUME NEW l, NEW f \in File \cup {NoFile}, disk' = [disk EXCEPT ![l] = f]
      PROVE  DiskType'
  BY <1>1, <1>3 DEF DiskType
<1>4. ASSUME NEW u \in Upload, Cancel(u) \/ \E p \in Path : PostCheck(u, p)
      PROVE  DiskType'
  BY <1>3, <1>4, FileKinds DEF Cancel, Remove, PostCheck
<1>5. ASSUME NEW c \in Patch, PatchOpen(c) \/ PatchExceed(c)
      PROVE  DiskType'
  <2>1. patch[c].up \in Upload
    BY <1>5 DEF PatchOpen, PatchExceed, FieldsInv, RequestFields, Active
  <2> QED
    BY <1>2, <1>3, <1>5, <2>1, FileKinds DEF PatchOpen, PatchExceed
<1>6. ASSUME NEW c \in Patch, Writes(c)
      PROVE  DiskType'
  <2> DEFINE r == patch[c]
  <2>1. PICK n \in 1 .. MaxChunk, m \in 1 .. MaxChunk : m <= n /\ PatchWrite(c, n, m)
    BY <1>6 DEF Writes
  <2>2. CASE r.at = Nowhere
    BY <1>2, <2>1, <2>2 DEF PatchWrite
  <2>3. CASE r.at # Nowhere
    <3>0. disk[r.at] # NoFile
      BY <2>3 DEF FieldsInv, OpenInv
    <3>1. disk[r.at] \in File /\ r.pos \in Nat /\ r.gap \in BOOLEAN /\ m \in Nat
          /\ r.pos + m <= Size + MaxChunk
      BY <1>1, <2>1, <2>3, <3>0, Constants DEF DiskType, PatchType, PatchState, PatchWrite
    <3>2. Written(disk[r.at], r.pos, m, r.gap) \in File
      BY <3>1, WrittenFile
    <3>3. disk' = [disk EXCEPT ![r.at] = Written(disk[r.at], r.pos, m, r.gap)]
      BY <1>1, <2>1, <2>3 DEF PatchWrite, DiskType
    <3> QED
      BY <1>3, <3>2, <3>3
  <2> QED
    BY <2>2, <2>3
<1>7. ASSUME NEW c \in Patch, FinalMove(c)
      PROVE  DiskType'
  <2>1. patch[c].up \in Upload
    BY <1>7 DEF FinalMove, FieldsInv, RequestFields, Active
  <2>2. disk[patch[c].up] \in File \cup {NoFile}
    BY <1>1, <2>1 DEF DiskType, Location
  <2> QED
    BY <1>1, <1>7, <2>2 DEF FinalMove, DiskType
<1>8. ASSUME NEW c \in Patch, FinalUnlink(c) \/ FinalDrop(c)
      PROVE  DiskType'
  BY <1>3, <1>8 DEF FinalUnlink, FinalDrop
<1>9. ASSUME NEW d \in Deleter, DeleteUnlink(d)
      PROVE  DiskType'
  BY <1>3, <1>9 DEF DeleteUnlink, Remove
<1>10. CASE SweepRemove \/ FolderRemove
  BY <1>1, <1>3, <1>10 DEF SweepRemove, Remove, FolderRemove, DiskType
<1> QED
  BY <1>2, <1>4, <1>5, <1>6, <1>7, <1>8, <1>9, <1>10, DiskSteps

(* The jobs keep their type, and have what they are about to use.          *)
LEMMA JobTypeStep ==
  ASSUME TypeOK, FieldsInv, [Next]_vars
  PROVE  JobType' /\ JobsInv'
<1>1. JobType /\ FileType /\ EnvType
  BY TypeParts
<1>2. CASE UNCHANGED jobs
  BY <1>1, <1>2 DEF jobs, JobType, FieldsInv, JobsInv
<1>3. ASSUME NEW u \in Upload, PostInsert(u) \/ CancelRow(u) \/ Cancel(u) \/ Expire(u)
                               \/ \E p \in Path : PostCheck(u, p)
      PROVE  JobType' /\ JobsInv'
  BY <1>1, <1>3
     DEF PostInsert, CancelRow, Cancel, Expire, PostCheck, jobs, JobType, FieldsInv, JobsInv
<1>4. ASSUME NEW d \in Deleter, DeleteRow(d)
      PROVE  JobType' /\ JobsInv'
  <2>1. deleter' = [deleter EXCEPT ![d] = IdleDeleter] /\ UNCHANGED <<post, cancel, sweep, fdel>>
    BY <1>4 DEF DeleteRow
  <2>2. IdleDeleter \in [pc : {"idle", "unlink", "row"}, row : FileRow \cup {NoRow}]
        /\ IdleDeleter.pc = "idle"
    BY DEF IdleDeleter
  <2> QED
    BY <1>1, <2>1, <2>2 DEF JobType, FieldsInv, JobsInv
<1>5. ASSUME NEW d \in Deleter, NEW p \in Path, DeleteFile(d, p)
      PROVE  JobType' /\ JobsInv'
  <2> DEFINE r == [pc |-> "unlink", row |-> file[p]]
  <2>1. deleter' = [deleter EXCEPT ![d] = r] /\ UNCHANGED <<post, cancel, sweep, fdel>>
    BY <1>5 DEF DeleteFile
  <2>2. r \in [pc : {"idle", "unlink", "row"}, row : FileRow \cup {NoRow}] /\ r.row # NoRow
    BY <1>1, <1>5 DEF DeleteFile, FileType
  <2> HIDE DEF r
  <2> QED
    BY <1>1, <2>1, <2>2 DEF JobType, FieldsInv, JobsInv
<1>6. ASSUME NEW d \in Deleter, DeleteUnlink(d)
      PROVE  JobType' /\ JobsInv'
  <2> DEFINE r == [deleter[d] EXCEPT !.pc = "row"]
  <2>1. deleter' = [deleter EXCEPT ![d] = r] /\ UNCHANGED <<post, cancel, sweep, fdel>>
    BY <1>1, <1>6 DEF DeleteUnlink, JobType
  <2>2. r \in [pc : {"idle", "unlink", "row"}, row : FileRow \cup {NoRow}]
        /\ r.row = deleter[d].row /\ deleter[d].pc # "idle"
    BY <1>1, <1>6 DEF DeleteUnlink, JobType
  <2> HIDE DEF r
  <2> QED
    BY <1>1, <2>1, <2>2 DEF JobType, FieldsInv, JobsInv
<1>7. CASE DeleteFolder \/ FolderRemove \/ FolderRow \/ CreateFolder
  BY <1>1, <1>7 DEF DeleteFolder, FolderRemove, FolderRow, CreateFolder, jobs, JobType,
                    FieldsInv, JobsInv
<1>8. CASE SweepBegin
  <2> DEFINE expired == {u \in late : upload[u].status = "in_progress"}
             s == [IdleSweep EXCEPT !.pc = "remove", !.todo = expired]
  <2>1. sweep' = s /\ UNCHANGED <<post, cancel, deleter, fdel>>
    BY <1>8 DEF SweepBegin
  <2>2. expired \in SUBSET Upload
    BY <1>1 DEF EnvType
  <2> HIDE DEF expired
  <2>3. s \in [pc : {"idle", "remove", "mark"}, todo : SUBSET Upload, up : Upload \cup {Nowhere}]
        /\ s.pc = "remove"
    BY <2>2 DEF IdleSweep
  <2> HIDE DEF s
  <2> QED
    BY <1>1, <2>1, <2>3 DEF JobType, FieldsInv, JobsInv
<1>9. CASE SweepRemove
  <2>1. PICK u \in sweep.todo : sweep' = [sweep EXCEPT !.pc = "mark", !.up = u]
    BY <1>9 DEF SweepRemove
  <2>2. UNCHANGED <<post, cancel, deleter, fdel>>
    BY <1>9 DEF SweepRemove
  <2>3. sweep' \in [pc : {"idle", "remove", "mark"}, todo : SUBSET Upload,
                    up : Upload \cup {Nowhere}]
    BY <1>1, <2>1 DEF JobType
  <2>4. sweep'.up = u /\ sweep'.todo = sweep.todo
    BY <1>1, <2>1 DEF JobType
  <2> QED
    BY <1>1, <2>2, <2>3, <2>4 DEF JobType, FieldsInv, JobsInv
<1>10. CASE SweepMark
  BY <1>1, <1>10 DEF SweepMark, JobType, FieldsInv, JobsInv
<1>11. CASE Restart
  <2>1. IdleDeleter \in [pc : {"idle", "unlink", "row"}, row : FileRow \cup {NoRow}]
        /\ IdleDeleter.pc = "idle"
    BY DEF IdleDeleter
  <2>2. IdleSweep \in [pc : {"idle", "remove", "mark"}, todo : SUBSET Upload,
                       up : Upload \cup {Nowhere}] /\ IdleSweep.pc = "idle"
    BY DEF IdleSweep
  <2> QED
    BY <1>11, <2>1, <2>2 DEF Restart, JobType, JobsInv
<1>12. ASSUME NEW c \in Patch, Receive(c) \/ Finalize(c) \/ \E u \in Upload : PatchCheck(c, u)
       PROVE  UNCHANGED jobs
  BY <1>12 DEF Receive, PatchLate, PatchOpen, PatchAbort, PatchClose, PatchWrite, PatchExceed,
               PatchRefuse, PatchRecord, Finalize, FinalRead, FinalChecksum, FinalMove,
               FinalVerify, FinalUnlink, FinalInsert, FinalDrop, PatchCheck
<1>13. CASE UNCHANGED vars
  BY <1>2, <1>13 DEF vars
<1> QED
  BY <1>2, <1>3, <1>4, <1>5, <1>6, <1>7, <1>8, <1>9, <1>10, <1>11, <1>12, <1>13 DEF Next, Sweep

(* The environment and the history keep their type.                        *)
LEMMA EnvTypeStep ==
  ASSUME TypeOK, FieldsInv, [Next]_vars
  PROVE  EnvType'
<1>1. FileType /\ EnvType
  BY TypeParts
<1>2. CASE UNCHANGED env
  BY <1>1, <1>2 DEF env, EnvType
<1>3. ASSUME NEW u \in Upload, PostInsert(u) \/ CancelRow(u) \/ Cancel(u) \/ Expire(u)
                               \/ \E p \in Path : PostCheck(u, p)
      PROVE  EnvType'
  BY <1>1, <1>3 DEF PostInsert, CancelRow, Cancel, Expire, PostCheck, env, EnvType
<1>4. ASSUME NEW c \in Patch, PatchExceed(c)
      PROVE  EnvType'
  <2>1. patch[c].up \in Upload
    BY <1>4 DEF PatchExceed, FieldsInv, RequestFields, Active
  <2> QED
    BY <1>1, <1>4, <2>1 DEF PatchExceed, EnvType
<1>5. ASSUME NEW c \in Patch, Receive(c) \/ Finalize(c) \/ \E u \in Upload : PatchCheck(c, u)
      PROVE  UNCHANGED env \/ PatchExceed(c)
  BY <1>5 DEF Receive, PatchLate, PatchOpen, PatchAbort, PatchClose, PatchWrite,
              PatchRefuse, PatchRecord, Finalize, FinalRead, FinalChecksum, FinalMove,
              FinalVerify, FinalUnlink, FinalInsert, FinalDrop, PatchCheck
<1>6. ASSUME NEW d \in Deleter,
             DeleteUnlink(d) \/ DeleteRow(d) \/ \E p \in Path : DeleteFile(d, p)
      PROVE  EnvType'
  BY <1>1, <1>6 DEF DeleteUnlink, DeleteRow, DeleteFile, env, EnvType, FileType, FileRow
<1>7. CASE DeleteFolder \/ FolderRemove \/ FolderRow \/ CreateFolder \/ Sweep
  BY <1>2, <1>7 DEF DeleteFolder, FolderRemove, FolderRow, CreateFolder, Sweep, SweepBegin,
                    SweepRemove, SweepMark
<1>8. CASE Restart
  BY <1>1, <1>8, Constants DEF Restart, EnvType
<1>9. CASE UNCHANGED vars
  BY <1>2, <1>9 DEF vars
<1> QED
  BY <1>2, <1>3, <1>4, <1>5, <1>6, <1>7, <1>8, <1>9 DEF Next

(* What a request holds stays true while other requests go on.             *)
LEMMA OthersFields ==
  ASSUME FieldsInv, RowsStay, NEW c \in Patch, OthersStay(c), NEW d \in Patch \ {c}
  PROVE  RequestFields(d)'
BY DEF FieldsInv, RequestFields, OthersStay, RowsStay, Active

(* A request that works leaves the fields of the others as good as they    *)
(* were.                                                                   *)
LEMMA OneRequestStep ==
  ASSUME FieldsInv, RowsStay, PatchType', NEW c \in Patch, OthersStay(c), RequestFields(c)'
  PROVE  PatchType' /\ \A d \in Patch : RequestFields(d)'
<1>1. ASSUME NEW d \in Patch
      PROVE  RequestFields(d)'
  <2>1. CASE d = c
    BY <2>1
  <2>2. CASE d # c
    BY <2>2, OthersFields
  <2> QED
    BY <2>1, <2>2
<1> QED
  BY <1>1

(* The steps that change requests.                                         *)
LEMMA PatchSteps ==
  ASSUME [Next]_vars
  PROVE  \/ UNCHANGED patch
         \/ \E c \in Patch : Receive(c) \/ Finalize(c) \/ \E u \in Upload : PatchCheck(c, u)
         \/ \E l : patch' = Closed(patch, l) /\ disk' = [disk EXCEPT ![l] = NoFile]
         \/ FolderRemove \/ Restart
<1>1. CASE UNCHANGED vars
  BY <1>1 DEF vars
<1>2. ASSUME NEW u \in Upload, PostInsert(u) \/ CancelRow(u) \/ Cancel(u) \/ Expire(u)
                               \/ \E p \in Path : PostCheck(u, p)
      PROVE  \/ UNCHANGED patch
             \/ \E l : patch' = Closed(patch, l) /\ disk' = [disk EXCEPT ![l] = NoFile]
  BY <1>2 DEF PostInsert, CancelRow, Cancel, Expire, PostCheck, Remove
<1>3. ASSUME NEW d \in Deleter, DeleteRow(d) \/ \E p \in Path : DeleteFile(d, p)
      PROVE  UNCHANGED patch
  BY <1>3 DEF DeleteRow, DeleteFile
<1>4. CASE DeleteFolder \/ FolderRow \/ CreateFolder \/ SweepBegin \/ SweepMark
  BY <1>4 DEF DeleteFolder, FolderRow, CreateFolder, SweepBegin, SweepMark
<1>5. CASE SweepRemove \/ \E d \in Deleter : DeleteUnlink(d)
  BY <1>5 DEF SweepRemove, DeleteUnlink, Remove
<1> QED
  BY <1>1, <1>2, <1>3, <1>4, <1>5 DEF Next, Sweep

(* The requests keep their type, and have what they are about to use.      *)
LEMMA RequestTypeStep ==
  ASSUME TypeOK, FieldsInv, [Next]_vars
  PROVE  PatchType' /\ \A c \in Patch : RequestFields(c)'
<1>1. PatchType /\ UploadType /\ JobType /\ DiskType /\ RowsStay
  BY TypeParts, UploadTypeStep
<1>2. ASSUME NEW c \in Patch
      PROVE  RequestFields(c) /\ patch[c] \in PatchState
  BY <1>1 DEF FieldsInv, PatchType
<1>3. CASE UNCHANGED patch
  BY <1>1, <1>2, <1>3 DEF PatchType, RequestFields, RowsStay, Active
<1>4. ASSUME NEW S, PatchType', OnlyHandles(S)
      PROVE  \A c \in Patch : RequestFields(c)'
  BY <1>1, <1>2, <1>4 DEF OnlyHandles, RequestFields, RowsStay, Active
<1>5. ASSUME NEW c \in Patch, PatchType', OthersStay(c), Idle(c)
      PROVE  PatchType' /\ \A d \in Patch : RequestFields(d)'
  <2>1. RequestFields(c)'
    BY <1>5 DEF RequestFields, Active, Idle, Final, Placed
  <2> QED
    BY <1>1, <1>5, <2>1, OneRequestStep
<1>6. ASSUME NEW c \in Patch, NEW u \in Upload, PatchCheck(c, u)
      PROVE  PatchType' /\ \A d \in Patch : RequestFields(d)'
  <2>1. /\ PatchType' /\ OthersStay(c)
        /\ patch'[c].pc \in {"late", "open"} /\ patch'[c].up = u
        /\ patch'[c].pos = upload[u].received
    BY <1>1, <1>6, CheckFields
  <2>2. upload[u].status # "none" /\ upload[u].received <= Size
    BY <1>1, <1>6, Constants DEF PatchCheck, UploadType, UploadRow
  <2>3. RequestFields(c)'
    BY <1>1, <2>1, <2>2 DEF RequestFields, RowsStay, Final, Placed
  <2> QED
    BY <1>1, <2>1, <2>3, OneRequestStep
<1>7. ASSUME NEW c \in Patch, PatchType', OthersStay(c), SameJob(c), Active(c),
             patch'[c].pc \in Placed => patch[c].pc \in Placed,
             patch'[c].pc \in {"open", "record"} \cup Final => patch'[c].pos <= Size
      PROVE  PatchType' /\ \A d \in Patch : RequestFields(d)'
  <2>1. RequestFields(c)'
    BY <1>1, <1>2, <1>7 DEF RequestFields, RowsStay, SameJob
  <2> QED
    BY <1>1, <1>7, <2>1, OneRequestStep
<1>8. ASSUME NEW c \in Patch, Receive(c)
      PROVE  PatchType' /\ \A d \in Patch : RequestFields(d)'
  <2>1. CASE PatchLate(c) \/ PatchAbort(c) \/ PatchRefuse(c)
    BY <1>1, <1>5, <2>1, EndFields DEF PatchLate, PatchAbort, PatchRefuse
  <2>2. CASE PatchOpen(c)
    <3>1. Active(c) /\ patch[c].up \in Upload
      BY <1>2, <2>2 DEF PatchOpen, Active, RequestFields
    <3>2. CASE patch[c].pos > 0 /\ disk[patch[c].up] = NoFile
      BY <1>1, <1>5, <2>2, <3>2, EndFields DEF PatchOpen
    <3>3. CASE ~(patch[c].pos > 0 /\ disk[patch[c].up] = NoFile)
      BY <1>1, <1>7, <2>2, <3>1, <3>3, OpenFields DEF Final, Placed
    <3> QED
      BY <3>2, <3>3
  <2>3. CASE Writes(c)
    <3>1. PICK n \in 1 .. MaxChunk, m \in 1 .. MaxChunk : m <= n /\ PatchWrite(c, n, m)
      BY <2>3 DEF Writes
    <3>2. Active(c)
      BY <3>1 DEF PatchWrite, Active
    <3> QED
      BY <1>1, <1>7, <3>1, <3>2, WriteFields DEF Final, Placed
  <2>4. CASE PatchClose(c)
    <3>1. Active(c) /\ patch[c].pos \in Nat
      BY <1>2, <2>4, Constants DEF PatchClose, Active, PatchState
    <3>2. /\ PatchType' /\ OthersStay(c) /\ SameJob(c)
          /\ patch'[c].pc = IF patch[c].pos > Size THEN "exceed" ELSE "record"
          /\ patch'[c].pos = patch[c].pos
      BY <1>1, <2>4, CloseFields
    <3> QED
      BY <1>7, <3>1, <3>2, Constants DEF Final, Placed
  <2>5. CASE PatchExceed(c)
    <3>1. Active(c) /\ patch[c].up \in Location
      BY <1>2, <2>5 DEF PatchExceed, Active, RequestFields, Location
    <3> QED
      BY <1>1, <1>7, <2>5, <3>1, RemoveFields DEF PatchExceed, Final, Placed
  <2>6. CASE PatchRecord(c)
    <3>1. Active(c) /\ patch[c].pos <= Size
      BY <1>2, <2>6 DEF PatchRecord, Active, RequestFields
    <3>2. CASE Goto(c, "read")
      BY <1>1, <1>7, <3>1, <3>2, GotoFields DEF Placed, SamePosition
    <3>3. CASE End(c)
      BY <1>1, <1>5, <3>3, EndFields
    <3> QED
      BY <2>6, <3>2, <3>3 DEF PatchRecord
  <2> QED
    BY <1>8, <2>1, <2>2, <2>3, <2>4, <2>5, <2>6 DEF Receive, Writes
<1>9. ASSUME NEW c \in Patch, Finalize(c)
      PROVE  PatchType' /\ \A d \in Patch : RequestFields(d)'
  <2>1. /\ patch[c].pc \in Final /\ Active(c) /\ patch[c].up \in Upload
        /\ patch[c].up \in Location /\ patch[c].pos <= Size
        /\ patch[c].pc \in Placed =>
             patch[c].place \in Location /\ patch[c].place # patch[c].up
    BY <1>2, <1>9, Constants
       DEF Finalize, FinalRead, FinalChecksum, FinalMove, FinalVerify, FinalUnlink, FinalInsert,
           FinalDrop, Final, Placed, Active, RequestFields, PatchState, Location
  <2>2. CASE FinalRead(c)
    <3>1. CASE Goto(c, "checksum")
      BY <1>1, <1>7, <2>1, <3>1, GotoFields DEF Placed, SamePosition
    <3>2. CASE End(c)
      BY <1>1, <1>5, <3>2, EndFields
    <3> QED
      BY <2>2, <3>1, <3>2 DEF FinalRead
  <2>3. CASE FinalChecksum(c)
    <3> DEFINE u == patch[c].up
    <3>1. CASE disk[u] = NoFile
      BY <1>1, <1>5, <2>3, <3>1, EndFields DEF FinalChecksum
    <3>2. CASE disk[u] # NoFile
      <4>1. upload[u].path \in Place
        BY <1>2, <2>1 DEF RequestFields, FieldsInv, RowsInv, Place
      <4>2. PICK f \in File : f = disk[u]
        BY <1>1, <2>1, <3>2 DEF DiskType
      <4>3. PICK place \in Place :
              Chosen(c, place, f)
        BY <2>3, <3>2, <4>1, <4>2 DEF FinalChecksum, Place, Chosen
      <4>4. place # Nowhere /\ f # NoFile
        BY Constants DEF Location
      <4>5. /\ PatchType' /\ OthersStay(c) /\ SamePosition(c)
            /\ patch'[c].pc = "move" /\ patch'[c].up = patch[c].up
            /\ patch'[c].place = place /\ patch'[c].checksum = f
        BY <1>1, <4>3, ChecksumFields
      <4>6. RequestFields(c)'
        BY <1>1, <1>2, <2>1, <4>5, <4>4
           DEF RequestFields, RowsStay, SamePosition, Active, Placed
      <4> QED
        BY <1>1, <4>5, <4>6, OneRequestStep
    <3> QED
      BY <3>1, <3>2
  <2>4. CASE FinalMove(c)
    <3>1. patch[c].pc \in Placed
      BY <2>4 DEF FinalMove, Placed
    <3>2. CASE End(c)
      BY <1>1, <1>5, <3>2, EndFields
    <3>3. CASE patch' = [patch EXCEPT ![c].pc = "verify"]
      BY <1>1, <1>7, <2>1, <3>1, <3>3, CopyFields DEF SamePosition
    <3>4. CASE patch' = [Carried(Closed(patch, patch[c].place), patch[c].up, patch[c].place)
                           EXCEPT ![c].pc = "insert"]
      BY <1>1, <1>7, <2>1, <3>1, <3>4, RenameFields DEF SamePosition
    <3> QED
      BY <2>4, <3>2, <3>3, <3>4 DEF FinalMove
  <2>5. CASE FinalVerify(c)
    <3>1. patch[c].pc \in Placed
      BY <2>5 DEF FinalVerify, Placed
    <3>2. Goto(c, "unlink") \/ Goto(c, "drop")
      BY <2>5 DEF FinalVerify
    <3> QED
      BY <1>1, <1>7, <2>1, <3>1, <3>2, GotoFields DEF SamePosition
  <2>6. CASE FinalUnlink(c)
    <3>1. patch[c].pc \in Placed
      BY <2>6 DEF FinalUnlink, Placed
    <3>2. patch' = [Closed(patch, patch[c].up) EXCEPT ![c].pc = "insert"]
      BY <2>6 DEF FinalUnlink
    <3> QED
      BY <1>1, <1>7, <2>1, <3>1, <3>2, RemoveFields DEF SamePosition
  <2>7. CASE FinalInsert(c)
    <3>1. patch[c].pc \in Placed
      BY <2>7 DEF FinalInsert, Placed
    <3>2. CASE Goto(c, "drop")
      BY <1>1, <1>7, <2>1, <3>1, <3>2, GotoFields DEF SamePosition
    <3>3. CASE End(c)
      BY <1>1, <1>5, <3>3, EndFields
    <3> QED
      BY <2>7, <3>2, <3>3 DEF FinalInsert
  <2>8. CASE FinalDrop(c)
    <3>1. patch[c].place \in Location
      BY <2>1, <2>8 DEF FinalDrop, Placed
    <3> QED
      BY <1>1, <1>5, <2>8, <3>1, DropFields DEF FinalDrop
  <2> QED
    BY <1>9, <2>2, <2>3, <2>4, <2>5, <2>6, <2>7, <2>8 DEF Finalize
<1>10. ASSUME NEW l, patch' = Closed(patch, l)
       PROVE  PatchType' /\ \A c \in Patch : RequestFields(c)'
  BY <1>1, <1>4, <1>10, ClosedHandles
<1>11. CASE FolderRemove
  BY <1>1, <1>4, <1>11, FolderHandles
<1>12. CASE Restart
  BY <1>12, IdleFields DEF Restart, PatchType, RequestFields, Active, Final, Placed
<1> QED
  BY <1>3, <1>6, <1>8, <1>9, <1>10, <1>11, <1>12, PatchSteps

(* A row that is still to be inserted is not there.                        *)
LEMMA PostedStep ==
  ASSUME TypeOK, FieldsInv, [Next]_vars
  PROVE  PostedInv'
<1>1. RowsStay /\ JobType /\ PostedInv
  BY TypeParts, UploadTypeStep DEF FieldsInv
<1>2. CASE UNCHANGED post
  BY <1>1, <1>2 DEF RowsStay, PostedInv
<1>3. ASSUME NEW u \in Upload, PostInsert(u) \/ \E p \in Path : PostCheck(u, p)
      PROVE  PostedInv'
  BY <1>1, <1>3 DEF PostInsert, PostCheck, RowsStay, PostedInv, JobType, db
<1>4. CASE Restart
  BY <1>4 DEF Restart, PostedInv
<1> QED
  BY <1>2, <1>3, <1>4, PostSteps

(* An open file is on the disk.                                            *)
LEMMA OpenStep ==
  ASSUME TypeOK, FieldsInv, [Next]_vars
  PROVE  OpenInv'
<1>1. PatchType /\ DiskType /\ OpenInv
  BY TypeParts DEF FieldsInv
<1>2. ASSUME UNCHANGED disk, \A d \in Patch : patch'[d].at \in {Nowhere, patch[d].at}
      PROVE  OpenInv'
  BY <1>1, <1>2 DEF OpenInv
<1>3. ASSUME NEW l, disk' = [disk EXCEPT ![l] = NoFile],
             \A d \in Patch : \/ patch'[d].at = Nowhere
                              \/ patch'[d].at = patch[d].at /\ patch[d].at # l
      PROVE  OpenInv'
  <2>1. \A d \in Patch : patch[d].at \in Location \cup {Nowhere}
    BY <1>1 DEF PatchType, PatchState
  <2>2. \A k \in Location \ {l} : disk'[k] = disk[k]
    BY <1>1, <1>3 DEF DiskType
  <2> QED
    BY <1>1, <1>3, <2>1, <2>2 DEF OpenInv
<1>4. ASSUME NEW c \in Patch, OthersStay(c), HandlesStay(c), UNCHANGED disk,
             patch'[c].at \in {Nowhere, patch[c].at}
      PROVE  OpenInv'
  BY <1>2, <1>4 DEF HandlesStay
<1>5. ASSUME NEW c \in Patch, UNCHANGED disk, End(c) \/ \E s \in {"read", "checksum", "verify",
             "unlink", "drop"} : Goto(c, s)
      PROVE  OpenInv'
  BY <1>1, <1>4, <1>5, EndFields, GotoFields DEF Idle
<1>6. ASSUME NEW c \in Patch, Receive(c)
      PROVE  OpenInv'
  <2>1. CASE PatchLate(c) \/ PatchAbort(c) \/ PatchRefuse(c) \/ PatchRecord(c)
    BY <1>5, <2>1 DEF PatchLate, PatchAbort, PatchRefuse, PatchRecord
  <2>2. CASE PatchOpen(c)
    <3> DEFINE u == patch[c].up
    <3>0. u \in Upload
      BY <2>2 DEF PatchOpen, FieldsInv, RequestFields, Active
    <3>1. CASE patch[c].pos > 0 /\ disk[u] = NoFile
      BY <1>5, <2>2, <3>1 DEF PatchOpen
    <3>2. CASE ~(patch[c].pos > 0 /\ disk[u] = NoFile)
      <4>1. HandlesStay(c) /\ patch'[c].at = u
        BY <1>1, <2>2, <3>0, <3>2, OpenFields
      <4>2. disk' = [disk EXCEPT ![u] = Empty(u)] \/ (disk' = disk /\ patch[c].pos # 0)
        BY <2>2, <3>2 DEF PatchOpen
      <4>3. patch[c].pos \in Nat
        BY <1>1, Constants DEF PatchType, PatchState
      <4>4. disk'[u] # NoFile /\ \A k \in Location : disk[k] # NoFile => disk'[k] # NoFile
        BY <1>1, <3>0, <3>2, <4>2, <4>3, FileKinds, Constants DEF DiskType, Location
      <4>5. \A d \in Patch : patch[d].at \in Location \cup {Nowhere}
        BY <1>1 DEF PatchType, PatchState
      <4> QED
        BY <1>1, <4>1, <4>4, <4>5 DEF OpenInv, HandlesStay
    <3> QED
      BY <3>1, <3>2
  <2>3. CASE Writes(c)
    <3>1. PICK n \in 1 .. MaxChunk, m \in 1 .. MaxChunk : m <= n /\ PatchWrite(c, n, m)
      BY <2>3 DEF Writes
    <3>2. HandlesStay(c) /\ patch'[c].at = patch[c].at
      BY <1>1, <3>1, WriteFields
    <3>3. DiskType'
      BY DiskTypeStep
    <3>4. \A d \in Patch : patch[d].at \in Location \cup {Nowhere}
      BY <1>1 DEF PatchType, PatchState
    <3>5. CASE patch[c].at = Nowhere
      BY <1>2, <3>1, <3>2, <3>5 DEF PatchWrite, HandlesStay
    <3>6. CASE patch[c].at # Nowhere
      <4> DEFINE r == patch[c]
      <4>1. disk[r.at] \in File /\ r.pos \in Nat /\ r.gap \in BOOLEAN /\ m \in Nat
            /\ r.pos + m <= Size + MaxChunk /\ r.at \in Location
        BY <1>1, <3>1, <3>4, <3>6, Constants
           DEF DiskType, PatchType, PatchState, PatchWrite, OpenInv
      <4>2. Written(disk[r.at], r.pos, m, r.gap) \in File
        BY <4>1, WrittenFile
      <4>3. disk' = [disk EXCEPT ![r.at] = Written(disk[r.at], r.pos, m, r.gap)]
        BY <1>1, <3>1, <3>6 DEF PatchWrite, DiskType
      <4>4. \A k \in Location : disk[k] # NoFile => disk'[k] # NoFile
        BY <1>1, <4>1, <4>2, <4>3, Constants DEF DiskType
      <4> QED
        BY <1>1, <3>2, <3>4, <4>4 DEF OpenInv, HandlesStay
    <3> QED
      BY <3>5, <3>6
  <2>4. CASE PatchClose(c)
    BY <1>1, <1>4, <2>4, CloseFields DEF PatchClose
  <2>5. CASE PatchExceed(c)
    <3>1. patch[c].up \in Location
      BY <2>5 DEF PatchExceed, FieldsInv, RequestFields, Active, Location
    <3>2. \A d \in Patch : patch'[d].at = IF patch[d].at = patch[c].up THEN Nowhere
                                          ELSE patch[d].at
      BY <1>1, <2>5, <3>1, RemoveFields DEF PatchExceed
    <3> QED
      BY <1>3, <2>5, <3>2 DEF PatchExceed
  <2> QED
    BY <1>6, <2>1, <2>2, <2>3, <2>4, <2>5 DEF Receive, Writes
<1>7. ASSUME NEW c \in Patch, Finalize(c)
      PROVE  OpenInv'
  <2>0. /\ patch[c].up \in Location
        /\ patch[c].pc \in Placed => patch[c].place \in Location /\ patch[c].place # patch[c].up
    BY <1>1, <1>7, Constants
       DEF Finalize, FinalRead, FinalChecksum, FinalMove, FinalVerify, FinalUnlink, FinalInsert,
           FinalDrop, Final, Placed, Active, FieldsInv, RequestFields, PatchType, PatchState,
           Location
  <2>1. CASE FinalRead(c) \/ FinalVerify(c) \/ FinalInsert(c)
    BY <1>5, <2>1 DEF FinalRead, FinalVerify, FinalInsert
  <2>2. CASE FinalChecksum(c)
    <3> DEFINE u == patch[c].up
    <3>1. CASE disk[u] = NoFile
      BY <1>5, <2>2, <3>1 DEF FinalChecksum
    <3>2. CASE disk[u] # NoFile
      <4>1. PICK f \in File : f = disk[u]
        BY <1>1, <2>0, <3>2 DEF DiskType
      <4>2. upload[u].path \in Place
        BY <2>2 DEF FinalChecksum, FieldsInv, RequestFields, Active, RowsInv, Place
      <4>3. PICK place \in Place :
              Chosen(c, place, f)
        BY <2>2, <3>2, <4>1, <4>2 DEF FinalChecksum, Place, Chosen
      <4>4. OthersStay(c) /\ HandlesStay(c) /\ patch'[c].at = patch[c].at
        BY <1>1, <4>3, ChecksumFields
      <4> QED
        BY <1>4, <2>2, <4>4 DEF FinalChecksum
    <3> QED
      BY <3>1, <3>2
  <2>3. CASE FinalMove(c)
    <3> DEFINE u == patch[c].up
               place == patch[c].place
    <3>0. patch[c].pc \in Placed
      BY <2>3 DEF FinalMove, Placed
    <3>1. CASE End(c) /\ UNCHANGED disk
      BY <1>5, <3>1
    <3>2. CASE /\ disk[u] # NoFile /\ disk' = [disk EXCEPT ![place] = disk[u]]
               /\ patch' = [patch EXCEPT ![c].pc = "verify"]
      <4>1. OthersStay(c) /\ HandlesStay(c) /\ patch'[c].at = patch[c].at
        BY <1>1, <3>2, CopyFields
      <4>2. \A k \in Location : disk[k] # NoFile => disk'[k] # NoFile
        BY <1>1, <2>0, <3>2 DEF DiskType
      <4>3. \A d \in Patch : patch[d].at \in Location \cup {Nowhere}
        BY <1>1 DEF PatchType, PatchState
      <4> QED
        BY <1>1, <4>1, <4>2, <4>3 DEF OpenInv, HandlesStay
    <3>3. CASE /\ disk[u] # NoFile /\ disk' = [disk EXCEPT ![place] = disk[u], ![u] = NoFile]
               /\ patch' = [Carried(Closed(patch, place), u, place) EXCEPT ![c].pc = "insert"]
      <4>1. \A d \in Patch : patch'[d].at = IF patch[d].at = place THEN Nowhere
                                            ELSE IF patch[d].at = u THEN place ELSE patch[d].at
        BY <1>1, <2>0, <3>0, <3>3, RenameFields
      <4>2. /\ disk'[place] # NoFile
            /\ \A k \in Location \ {u, place} : disk'[k] = disk[k]
        BY <1>1, <2>0, <3>0, <3>3 DEF DiskType
      <4>3. \A d \in Patch : patch[d].at \in Location \cup {Nowhere}
        BY <1>1 DEF PatchType, PatchState
      <4> QED
        BY <1>1, <4>1, <4>2, <4>3 DEF OpenInv
    <3> QED
      BY <2>3, <3>1, <3>2, <3>3 DEF FinalMove
  <2>4. CASE FinalUnlink(c)
    <3>1. \A d \in Patch : patch'[d].at = IF patch[d].at = patch[c].up THEN Nowhere
                                          ELSE patch[d].at
      BY <1>1, <2>0, <2>4, RemoveFields DEF FinalUnlink
    <3> QED
      BY <1>3, <2>4, <3>1 DEF FinalUnlink
  <2>5. CASE FinalDrop(c)
    <3>1. patch[c].place \in Location
      BY <2>0, <2>5 DEF FinalDrop, Placed
    <3>2. /\ patch'[c].at = Nowhere
          /\ \A d \in Patch \ {c} : patch'[d].at = IF patch[d].at = patch[c].place THEN Nowhere
                                                   ELSE patch[d].at
      BY <1>1, <2>5, <3>1, DropFields DEF FinalDrop, Idle
    <3>3. disk' = [disk EXCEPT ![patch[c].place] = NoFile]
      BY <2>5 DEF FinalDrop
    <3>4. \A d \in Patch : \/ patch'[d].at = Nowhere
                           \/ patch'[d].at = patch[d].at /\ patch[d].at # patch[c].place
      BY <3>2
    <3> QED
      BY <1>3, <3>3, <3>4
  <2> QED
    BY <1>7, <2>1, <2>2, <2>3, <2>4, <2>5 DEF Finalize
<1>8. ASSUME NEW c \in Patch, NEW u \in Upload, PatchCheck(c, u)
      PROVE  OpenInv'
  BY <1>1, <1>4, <1>8, TypeParts, CheckFields DEF PatchCheck
<1>9. ASSUME NEW l, patch' = Closed(patch, l), disk' = [disk EXCEPT ![l] = NoFile]
      PROVE  OpenInv'
  <2>1. \A d \in Patch : patch'[d].at = IF patch[d].at = l THEN Nowhere ELSE patch[d].at
    BY <1>1, <1>9, ClosedHandles DEF OnlyHandles
  <2> QED
    BY <1>3, <1>9, <2>1
<1>10. CASE FolderRemove
  <2>1. OnlyHandles(Path)
    BY <1>1, <1>10, FolderHandles
  <2>2. \A k \in Location \ Path : disk'[k] = disk[k]
    BY <1>10 DEF FolderRemove
  <2>3. \A d \in Patch : patch[d].at \in Location \cup {Nowhere}
    BY <1>1 DEF PatchType, PatchState
  <2> QED
    BY <1>1, <2>1, <2>2, <2>3 DEF OpenInv, OnlyHandles
<1>11. CASE Restart
  BY <1>11, IdleFields DEF Restart, OpenInv
<1>12. CASE UNCHANGED patch
  <2>1. CASE UNCHANGED disk
    BY <1>2, <1>12, <2>1
  <2>2. ASSUME NEW u \in Upload, NEW p \in Path, PostCheck(u, p)
        PROVE  OpenInv'
    <3>1. \A k \in Location : disk[k] # NoFile => disk'[k] # NoFile
      BY <1>1, <2>2, FileKinds, Constants DEF PostCheck, DiskType
    <3>2. \A d \in Patch : patch[d].at \in Location \cup {Nowhere}
      BY <1>1 DEF PatchType, PatchState
    <3> QED
      BY <1>1, <1>12, <3>1, <3>2 DEF OpenInv
  <2>3. ASSUME NEW u \in Upload, Cancel(u)
        PROVE  OpenInv'
    BY <1>9, <2>3 DEF Cancel, Remove
  <2>4. CASE SweepRemove \/ \E d \in Deleter : DeleteUnlink(d)
    BY <1>9, <2>4 DEF SweepRemove, DeleteUnlink, Remove
  <2> QED
    BY <1>6, <1>7, <1>10, <2>1, <2>2, <2>3, <2>4, DiskSteps DEF Receive, Writes, Finalize
<1> QED
  BY <1>6, <1>7, <1>8, <1>9, <1>10, <1>11, <1>12, PatchSteps

(* The types and fields are as they should be, whatever requests overlap.  *)
LEMMA TypeInit ==
  ASSUME Init
  PROVE  TypeOK /\ FieldsInv
<1>1. IdleDeleter \in [pc : {"idle", "unlink", "row"}, row : FileRow \cup {NoRow}]
      /\ IdleDeleter.pc = "idle"
  BY DEF IdleDeleter
<1>2. IdleSweep \in [pc : {"idle", "remove", "mark"}, todo : SUBSET Upload,
                     up : Upload \cup {Nowhere}] /\ IdleSweep.pc = "idle"
  BY DEF IdleSweep
<1>3. TypeOK
  BY <1>1, <1>2, IdleFields, Constants DEF Init, TypeOK, UploadRow
<1>4. FieldsInv
  BY <1>1, <1>2, IdleFields
     DEF Init, FieldsInv, RowsInv, PostedInv, OpenInv, JobsInv, RequestFields, Active, Final, Placed
<1> QED
  BY <1>3, <1>4

TypeInv == TypeOK /\ FieldsInv

(* Types and fields together are inductive.                                *)
LEMMA TypeStep ==
  ASSUME TypeInv, [Next]_vars
  PROVE  TypeInv'
<1>1. TypeOK /\ FieldsInv
  BY DEF TypeInv
<1>2. UploadType' /\ RowsInv' /\ FileType' /\ DiskType' /\ JobType' /\ JobsInv' /\ EnvType'
  BY <1>1, UploadTypeStep, FileTypeStep, DiskTypeStep, JobTypeStep, EnvTypeStep
<1>3. PatchType' /\ (\A c \in Patch : RequestFields(c)') /\ PostedInv' /\ OpenInv'
  BY <1>1, RequestTypeStep, PostedStep, OpenStep
<1>4. TypeOK'
  BY <1>2, <1>3 DEF TypeOK, UploadType, FileType, DiskType, PatchType, JobType, EnvType
<1>5. FieldsInv'
  BY <1>2, <1>3 DEF FieldsInv
<1> QED
  BY <1>4, <1>5 DEF TypeInv

(* Every variable keeps its type: rows, files, requests and jobs of the    *)
(* uploads only ever hold what the handlers of uploads.ts and cleanup.ts   *)
(* expect in them.                                                         *)
THEOREM TypeCorrect == Spec => []TypeOK
<1>1. Spec => []TypeInv
  BY TypeInit, TypeStep, PTL DEF Spec, TypeInv
<1>2. TypeInv => TypeOK
  BY DEF TypeInv
<1> QED
  BY <1>1, <1>2, PTL
-----------------------------------------------------------------------------
(* What a step means for one request, one row, one upload. *)

(* The request waits while another one works; its handle may be lost.      *)
Waits(c) ==
  /\ patch'[c].pc = patch[c].pc /\ patch'[c].up = patch[c].up /\ patch'[c].pos = patch[c].pos
  /\ patch'[c].gap = patch[c].gap /\ patch'[c].place = patch[c].place
  /\ patch'[c].checksum = patch[c].checksum
Works(c) == Receive(c) \/ Finalize(c)

(* A request that works leaves the others, and serves its upload until it  *)
(* ends.                                                                   *)
LEMMA WorkKeeps ==
  ASSUME TypeInv, [Next]_vars, NEW c \in Patch, Works(c)
  PROVE  /\ OthersStay(c) /\ Active(c)
         /\ patch'[c].pc # "idle" => patch'[c].up = patch[c].up
         /\ patch'[c].pc = "idle" => Idle(c)
<1>1. PatchType /\ DiskType /\ RequestFields(c) /\ patch[c] \in PatchState /\ RowsInv /\ UploadType
  BY TypeParts DEF TypeInv, FieldsInv, PatchType
<1>2. Active(c) /\ patch[c].up \in Upload /\ patch[c].up \in Location
  BY <1>1 DEF Works, Receive, PatchLate, PatchOpen, PatchAbort, PatchClose, PatchWrite, PatchExceed,
              PatchRefuse, PatchRecord, Finalize, FinalRead, FinalChecksum, FinalMove, FinalVerify,
              FinalUnlink, FinalInsert, FinalDrop, Active, RequestFields, Location
<1>3. CASE Receive(c)
  <2>1. CASE PatchLate(c) \/ PatchAbort(c) \/ PatchRefuse(c)
    BY <1>1, <1>2, <2>1, EndFields DEF PatchLate, PatchAbort, PatchRefuse, Idle
  <2>2. CASE PatchOpen(c)
    <3>1. CASE patch[c].pos > 0 /\ disk[patch[c].up] = NoFile
      BY <1>1, <1>2, <2>2, <3>1, EndFields DEF PatchOpen, Idle
    <3>2. CASE ~(patch[c].pos > 0 /\ disk[patch[c].up] = NoFile)
      BY <1>1, <1>2, <2>2, <3>2, OpenFields DEF SameJob
    <3> QED
      BY <3>1, <3>2
  <2>3. CASE Writes(c)
    BY <1>1, <1>2, <2>3, WriteFields DEF Writes, SameJob
  <2>4. CASE PatchClose(c)
    BY <1>1, <1>2, <2>4, CloseFields DEF SameJob
  <2>5. CASE PatchExceed(c)
    BY <1>1, <1>2, <2>5, RemoveFields DEF PatchExceed, SameJob
  <2>6. CASE PatchRecord(c)
    BY <1>1, <1>2, <2>6, EndFields, GotoFields DEF PatchRecord, SameJob, Idle
  <2> QED
    BY <1>3, <2>1, <2>2, <2>3, <2>4, <2>5, <2>6 DEF Receive, Writes
<1>4. CASE Finalize(c)
  <2>1. CASE FinalRead(c) \/ FinalVerify(c) \/ FinalInsert(c)
    <3>1. End(c) \/ \E s \in {"read", "checksum", "verify", "unlink", "drop"} : Goto(c, s)
      BY <2>1 DEF FinalRead, FinalVerify, FinalInsert
    <3> QED
      BY <1>1, <1>2, <3>1, EndFields, GotoFields DEF SameJob, Idle
  <2>2. CASE FinalChecksum(c)
    <3> DEFINE u == patch[c].up
    <3>1. CASE disk[u] = NoFile
      BY <1>1, <1>2, <2>2, <3>1, EndFields DEF FinalChecksum, Idle
    <3>2. CASE disk[u] # NoFile
      <4>1. PICK f \in File : f = disk[u]
        BY <1>1, <1>2, <3>2 DEF DiskType
      <4>2. upload[u].path \in Place
        BY <1>1, <1>2 DEF RequestFields, RowsInv, Place
      <4>3. PICK place \in Place :
              Chosen(c, place, f)
        BY <2>2, <3>2, <4>1, <4>2 DEF FinalChecksum, Place, Chosen
      <4> QED
        BY <1>1, <1>2, <4>3, ChecksumFields
    <3> QED
      BY <3>1, <3>2
  <2>3. CASE FinalMove(c)
    <3>1. patch[c].place \in Location /\ patch[c].place # patch[c].up
      BY <1>1, <1>2, <2>3, Constants DEF FinalMove, RequestFields, PatchState, Placed, Location
    <3>2. \/ End(c) \/ patch' = [patch EXCEPT ![c].pc = "verify"]
          \/ patch' = [Carried(Closed(patch, patch[c].place), patch[c].up, patch[c].place)
                         EXCEPT ![c].pc = "insert"]
      BY <2>3 DEF FinalMove
    <3> QED
      BY <1>1, <1>2, <3>1, <3>2, EndFields, CopyFields, RenameFields DEF SameJob, Idle
  <2>4. CASE FinalUnlink(c)
    BY <1>1, <1>2, <2>4, RemoveFields DEF FinalUnlink, SameJob
  <2>5. CASE FinalDrop(c)
    <3>1. patch[c].place \in Location
      BY <1>1, <2>5 DEF FinalDrop, RequestFields, PatchState, Placed, Location
    <3> QED
      BY <1>1, <1>2, <2>5, <3>1, DropFields DEF FinalDrop, Idle
  <2> QED
    BY <1>4, <2>1, <2>2, <2>3, <2>4, <2>5 DEF Finalize
<1> QED
  BY <1>3, <1>4 DEF Works

(* A request begins, waits, works or is over.                              *)
LEMMA RequestSteps ==
  ASSUME TypeInv, [Next]_vars, NEW c \in Patch
  PROVE  \/ patch'[c].pc = "idle" /\ Works(c)
         \/ Restart /\ patch'[c] = IdlePatch /\ patch'[c].pc = "idle"
         \/ Waits(c)
         \/ Works(c) /\ patch'[c].up = patch[c].up /\ Active(c)
         \/ \E u \in Upload : PatchCheck(c, u) /\ patch'[c].up = u
<1>1. PatchType /\ UploadType
  BY TypeParts DEF TypeInv
<1>2. CASE UNCHANGED patch
  BY <1>2 DEF Waits
<1>3. ASSUME NEW d \in Patch, Works(d)
      PROVE  \/ patch'[c].pc = "idle" /\ Works(c)
             \/ Waits(c)
             \/ Works(c) /\ patch'[c].up = patch[c].up /\ Active(c)
  <2>1. CASE d = c
    BY <1>3, <2>1, WorkKeeps
  <2>2. CASE d # c
    <3>1. OthersStay(d)
      BY <1>3, WorkKeeps
    <3> QED
      BY <2>2, <3>1 DEF OthersStay, Waits
  <2> QED
    BY <2>1, <2>2
<1>4. ASSUME NEW d \in Patch, NEW u \in Upload, PatchCheck(d, u)
      PROVE  Waits(c) \/ (PatchCheck(c, u) /\ patch'[c].up = u)
  <2>1. OthersStay(d) /\ patch'[d].up = u
    BY <1>1, <1>4, CheckFields
  <2>2. CASE d = c
    BY <1>4, <2>1, <2>2
  <2>3. CASE d # c
    <3>1. Waits(c)
      BY <2>1, <2>3 DEF OthersStay, Waits
    <3> QED
      BY <3>1
  <2> QED
    BY <2>2, <2>3
<1>5. ASSUME NEW l, patch' = Closed(patch, l)
      PROVE  Waits(c)
  <2>1. OnlyHandles({l})
    BY <1>1, <1>5, ClosedHandles
  <2> QED
    BY <2>1 DEF OnlyHandles, Waits
<1>6. CASE FolderRemove
  <2>1. OnlyHandles(Path)
    BY <1>1, <1>6, FolderHandles
  <2> QED
    BY <2>1 DEF OnlyHandles, Waits
<1>7. CASE Restart
  BY <1>7, IdleFields DEF Restart
<1> QED
  BY <1>2, <1>3, <1>4, <1>5, <1>6, <1>7, PatchSteps DEF Works

(* What lets an upload expire.                                             *)
Expires(u) == \/ \E c \in Patch : (PatchLate(c) \/ PatchRefuse(c)) /\ patch[c].up = u
              \/ SweepMark /\ sweep.up = u

(* A row is inserted, goes on, expires, or ends.                           *)
LEMMA StatusSteps ==
  ASSUME TypeInv, [Next]_vars, NEW u \in Upload
  PROVE  \/ upload'[u].status = upload[u].status
         \/ Expires(u) /\ upload'[u].status = "expired" /\ upload[u].status \notin {"none", "gone"}
         \/ PostInsert(u) /\ upload'[u].status = "in_progress" /\ upload[u].status = "none"
         \/ CancelRow(u) /\ upload'[u].status = "gone"
         \/ \E c \in Patch : /\ FinalInsert(c) /\ patch[c].up = u /\ SetStatus(u, "completed")
                             /\ End(c) /\ upload'[u].status = "completed"
<1>1. UploadType /\ JobType /\ PostedInv /\ JobsInv /\ \A c \in Patch : RequestFields(c)
  BY TypeParts DEF TypeInv, FieldsInv
<1>2. ASSUME NEW v \in Upload, NEW s \in {"expired", "completed", "gone"}, SetStatus(v, s)
      PROVE  \/ upload'[u].status = upload[u].status
             \/ v = u /\ upload'[u].status = s /\ upload[u].status \notin {"none", "gone"}
  BY <1>1, <1>2, StatusFields DEF Row
<1>3. CASE UNCHANGED upload
  BY <1>3
<1>4. ASSUME NEW v \in Upload, PostInsert(v)
      PROVE  \/ upload'[u].status = upload[u].status
             \/ PostInsert(u) /\ upload'[u].status = "in_progress" /\ upload[u].status = "none"
  <2>1. upload[v].status = "none"
    BY <1>1, <1>4 DEF PostInsert, PostedInv
  <2>2. upload'[v].status = "in_progress" /\ \A w \in Upload \ {v} : upload'[w] = upload[w]
    BY <1>1, <1>4, InsertedFields
  <2> QED
    BY <1>4, <2>1, <2>2
<1>5. ASSUME NEW v \in Upload, CancelRow(v)
      PROVE  \/ upload'[u].status = upload[u].status
             \/ CancelRow(u) /\ upload'[u].status = "gone"
  BY <1>2, <1>5 DEF CancelRow
<1>6. ASSUME NEW c \in Patch, PatchLate(c) \/ PatchRefuse(c)
      PROVE  \/ upload'[u].status = upload[u].status
             \/ /\ Expires(u) /\ upload'[u].status = "expired"
                /\ upload[u].status \notin {"none", "gone"}
  <2>1. patch[c].up \in Upload /\ SetStatus(patch[c].up, "expired")
    BY <1>1, <1>6 DEF PatchLate, PatchRefuse, RequestFields, Active
  <2>2. patch[c].up = u => Expires(u)
    BY <1>6 DEF Expires
  <2> QED
    BY <1>2, <2>1, <2>2
<1>7. ASSUME NEW c \in Patch, PatchRecord(c)
      PROVE  upload'[u].status = upload[u].status
  <2>1. patch[c].up \in Upload /\ patch[c].pos \in 0 .. Size
    BY <1>1, <1>7, TypeParts, Constants
       DEF RequestFields, Active, PatchRecord, TypeInv, PatchType, PatchState
  <2> QED
    BY <1>1, <1>7, <2>1, RecordedFields
<1>8. ASSUME NEW c \in Patch, FinalInsert(c)
      PROVE  \/ upload'[u].status = upload[u].status
             \/ /\ FinalInsert(c) /\ patch[c].up = u /\ SetStatus(u, "completed")
                /\ End(c) /\ upload'[u].status = "completed"
  <2>1. patch[c].up \in Upload
    BY <1>1, <1>8 DEF FinalInsert, RequestFields, Active
  <2>2. UNCHANGED upload \/ (SetStatus(patch[c].up, "completed") /\ End(c))
    BY <1>8 DEF FinalInsert
  <2> QED
    BY <1>2, <1>8, <2>1, <2>2
<1>9. CASE SweepMark
  <2>1. sweep.up \in Upload /\ SetStatus(sweep.up, "expired")
    BY <1>1, <1>9 DEF SweepMark, JobsInv, JobType
  <2>2. sweep.up = u => Expires(u)
    BY <1>9 DEF Expires
  <2> QED
    BY <1>2, <2>1, <2>2
<1> QED
  BY <1>3, <1>4, <1>5, <1>6, <1>7, <1>8, <1>9, UploadSteps

(* Only a request that records changes the offset.                         *)
LEMMA ReceivedSteps ==
  ASSUME TypeInv, [Next]_vars, NEW u \in Upload
  PROVE  \/ upload'[u].received = upload[u].received
         \/ \E c \in Patch : PatchRecord(c) /\ patch[c].up = u /\ Row(u)
                             /\ upload'[u].received = patch[c].pos
<1>1. UploadType /\ JobType /\ JobsInv /\ \A c \in Patch : RequestFields(c)
  BY TypeParts DEF TypeInv, FieldsInv
<1>2. ASSUME NEW v \in Upload, NEW s \in {"expired", "completed", "gone"}, SetStatus(v, s)
      PROVE  upload'[u].received = upload[u].received
  BY <1>1, <1>2, StatusFields
<1>3. ASSUME NEW v \in Upload, PostInsert(v)
      PROVE  upload'[u].received = upload[u].received
  <2>1. /\ upload'[v].received = upload[v].received
        /\ \A w \in Upload \ {v} : upload'[w] = upload[w]
    BY <1>1, <1>3, InsertedFields
  <2> QED
    BY <2>1
<1>4. ASSUME NEW v \in Upload, CancelRow(v)
      PROVE  upload'[u].received = upload[u].received
  BY <1>2, <1>4 DEF CancelRow
<1>5. ASSUME NEW c \in Patch, PatchLate(c) \/ PatchRefuse(c) \/ FinalInsert(c)
      PROVE  upload'[u].received = upload[u].received
  <2>1. patch[c].up \in Upload
    BY <1>1, <1>5 DEF PatchLate, PatchRefuse, FinalInsert, RequestFields, Active
  <2>2. \/ UNCHANGED upload \/ SetStatus(patch[c].up, "expired")
        \/ SetStatus(patch[c].up, "completed")
    BY <1>5 DEF PatchLate, PatchRefuse, FinalInsert
  <2> QED
    BY <1>2, <2>1, <2>2
<1>6. ASSUME NEW c \in Patch, PatchRecord(c)
      PROVE  \/ upload'[u].received = upload[u].received
             \/ PatchRecord(c) /\ patch[c].up = u /\ Row(u) /\ upload'[u].received = patch[c].pos
  <2>1. patch[c].up \in Upload /\ patch[c].pos \in 0 .. Size
    BY <1>1, <1>6, TypeParts, Constants
       DEF RequestFields, Active, PatchRecord, TypeInv, PatchType, PatchState
  <2> QED
    BY <1>1, <1>6, <2>1, RecordedFields
<1>7. CASE SweepMark
  <2>1. sweep.up \in Upload /\ SetStatus(sweep.up, "expired")
    BY <1>1, <1>7 DEF SweepMark, JobsInv, JobType
  <2> QED
    BY <1>2, <2>1
<1> QED
  BY <1>3, <1>4, <1>5, <1>6, <1>7, UploadSteps


(* The steps that begin or end a cancellation.                             *)
LEMMA CancelSteps ==
  ASSUME [Next]_vars
  PROVE  \/ UNCHANGED cancel
         \/ \E u \in Upload : CancelRow(u) \/ Cancel(u)
         \/ Restart
<1>1. CASE UNCHANGED vars
  BY <1>1 DEF vars, jobs
<1>2. ASSUME NEW u \in Upload, PostInsert(u) \/ CancelRow(u) \/ Cancel(u) \/ Expire(u)
                               \/ \E p \in Path : PostCheck(u, p)
      PROVE  UNCHANGED cancel \/ CancelRow(u) \/ Cancel(u)
  BY <1>2 DEF PostInsert, Expire, PostCheck, jobs
<1>3. ASSUME NEW c \in Patch, Receive(c)
      PROVE  UNCHANGED cancel
  BY <1>3 DEF Receive, PatchLate, PatchOpen, PatchAbort, PatchClose, PatchWrite, PatchExceed
                       , PatchRefuse, PatchRecord, jobs
<1>4. ASSUME NEW c \in Patch, Finalize(c)
      PROVE  UNCHANGED cancel
  BY <1>4 DEF Finalize, FinalRead, FinalChecksum, FinalMove, FinalVerify, FinalUnlink
                        , FinalInsert, FinalDrop, jobs
<1>5. ASSUME NEW c \in Patch, NEW u \in Upload, PatchCheck(c, u)
      PROVE  UNCHANGED cancel
  BY <1>5 DEF PatchCheck, jobs
<1>6. ASSUME NEW d \in Deleter,
             DeleteUnlink(d) \/ DeleteRow(d) \/ \E p \in Path : DeleteFile(d, p)
      PROVE  UNCHANGED cancel
  BY <1>6 DEF DeleteUnlink, DeleteRow, DeleteFile, jobs
<1>7. ASSUME DeleteFolder \/ FolderRemove \/ FolderRow \/ CreateFolder \/ Restart
      PROVE  UNCHANGED cancel \/ Restart
  BY <1>7 DEF DeleteFolder, FolderRemove, FolderRow, CreateFolder, jobs
<1>8. ASSUME Sweep
      PROVE  UNCHANGED cancel
  BY <1>8 DEF Sweep, SweepBegin, SweepRemove, SweepMark, jobs
<1> QED
  BY <1>1, <1>2, <1>3, <1>4, <1>5, <1>6, <1>7, <1>8 DEF Next

(* The steps in which time passes.                                         *)
LEMMA LateSteps ==
  ASSUME [Next]_vars
  PROVE  \/ UNCHANGED late
         \/ \E u \in Upload : Expire(u)
<1>1. CASE UNCHANGED vars
  BY <1>1 DEF vars, env
<1>2. ASSUME NEW u \in Upload, PostInsert(u) \/ CancelRow(u) \/ Cancel(u) \/ Expire(u)
                               \/ \E p \in Path : PostCheck(u, p)
      PROVE  UNCHANGED late \/ Expire(u)
  BY <1>2 DEF PostInsert, CancelRow, Cancel, PostCheck, env
<1>3. ASSUME NEW c \in Patch, Receive(c)
      PROVE  UNCHANGED late
  BY <1>3 DEF Receive, PatchLate, PatchOpen, PatchAbort, PatchClose, PatchWrite, PatchExceed
                       , PatchRefuse, PatchRecord, env
<1>4. ASSUME NEW c \in Patch, Finalize(c)
      PROVE  UNCHANGED late
  BY <1>4 DEF Finalize, FinalRead, FinalChecksum, FinalMove, FinalVerify, FinalUnlink
                        , FinalInsert, FinalDrop, env
<1>5. ASSUME NEW c \in Patch, NEW u \in Upload, PatchCheck(c, u)
      PROVE  UNCHANGED late
  BY <1>5 DEF PatchCheck, env
<1>6. ASSUME NEW d \in Deleter,
             DeleteUnlink(d) \/ DeleteRow(d) \/ \E p \in Path : DeleteFile(d, p)
      PROVE  UNCHANGED late
  BY <1>6 DEF DeleteUnlink, DeleteRow, DeleteFile, env
<1>7. ASSUME DeleteFolder \/ FolderRemove \/ FolderRow \/ CreateFolder \/ Restart
      PROVE  UNCHANGED late
  BY <1>7 DEF DeleteFolder, FolderRemove, FolderRow, CreateFolder, Restart, env
<1>8. ASSUME Sweep
      PROVE  UNCHANGED late
  BY <1>8 DEF Sweep, SweepBegin, SweepRemove, SweepMark, env
<1> QED
  BY <1>1, <1>2, <1>3, <1>4, <1>5, <1>6, <1>7, <1>8 DEF Next

(* The steps of the hourly job.                                            *)
LEMMA SweepSteps ==
  ASSUME [Next]_vars
  PROVE  \/ UNCHANGED sweep
         \/ Restart \/ SweepBegin \/ SweepRemove \/ SweepMark
<1>1. CASE UNCHANGED vars
  BY <1>1 DEF vars, jobs
<1>2. ASSUME NEW u \in Upload, PostInsert(u) \/ CancelRow(u) \/ Cancel(u) \/ Expire(u)
                               \/ \E p \in Path : PostCheck(u, p)
      PROVE  UNCHANGED sweep
  BY <1>2 DEF PostInsert, CancelRow, Cancel, Expire, PostCheck, jobs
<1>3. ASSUME NEW c \in Patch, Receive(c)
      PROVE  UNCHANGED sweep
  BY <1>3 DEF Receive, PatchLate, PatchOpen, PatchAbort, PatchClose, PatchWrite, PatchExceed
                       , PatchRefuse, PatchRecord, jobs
<1>4. ASSUME NEW c \in Patch, Finalize(c)
      PROVE  UNCHANGED sweep
  BY <1>4 DEF Finalize, FinalRead, FinalChecksum, FinalMove, FinalVerify, FinalUnlink
                        , FinalInsert, FinalDrop, jobs
<1>5. ASSUME NEW c \in Patch, NEW u \in Upload, PatchCheck(c, u)
      PROVE  UNCHANGED sweep
  BY <1>5 DEF PatchCheck, jobs
<1>6. ASSUME NEW d \in Deleter,
             DeleteUnlink(d) \/ DeleteRow(d) \/ \E p \in Path : DeleteFile(d, p)
      PROVE  UNCHANGED sweep
  BY <1>6 DEF DeleteUnlink, DeleteRow, DeleteFile, jobs
<1>7. ASSUME DeleteFolder \/ FolderRemove \/ FolderRow \/ CreateFolder \/ Restart
      PROVE  UNCHANGED sweep \/ Restart
  BY <1>7 DEF DeleteFolder, FolderRemove, FolderRow, CreateFolder, jobs
<1>8. ASSUME Sweep
      PROVE  UNCHANGED sweep \/ SweepBegin \/ SweepRemove \/ SweepMark
  BY <1>8 DEF Sweep, jobs
<1> QED
  BY <1>1, <1>2, <1>3, <1>4, <1>5, <1>6, <1>7, <1>8 DEF Next

(* The steps after which nobody expects the data of an upload any more.    *)
LEMMA DroppedSteps ==
  ASSUME [Next]_vars
  PROVE  \/ UNCHANGED dropped
         \/ \E u \in Upload : Cancel(u)
         \/ \E c \in Patch : PatchExceed(c)
<1>1. CASE UNCHANGED vars
  BY <1>1 DEF vars, env
<1>2. ASSUME NEW u \in Upload, PostInsert(u) \/ CancelRow(u) \/ Cancel(u) \/ Expire(u)
                               \/ \E p \in Path : PostCheck(u, p)
      PROVE  UNCHANGED dropped \/ Cancel(u)
  BY <1>2 DEF PostInsert, CancelRow, Expire, PostCheck, env
<1>3. ASSUME NEW c \in Patch, Receive(c)
      PROVE  UNCHANGED dropped \/ PatchExceed(c)
  BY <1>3 DEF Receive, PatchLate, PatchOpen, PatchAbort, PatchClose, PatchWrite, PatchRefuse
                       , PatchRecord, env
<1>4. ASSUME NEW c \in Patch, Finalize(c)
      PROVE  UNCHANGED dropped
  BY <1>4 DEF Finalize, FinalRead, FinalChecksum, FinalMove, FinalVerify, FinalUnlink
                        , FinalInsert, FinalDrop, env
<1>5. ASSUME NEW c \in Patch, NEW u \in Upload, PatchCheck(c, u)
      PROVE  UNCHANGED dropped
  BY <1>5 DEF PatchCheck, env
<1>6. ASSUME NEW d \in Deleter,
             DeleteUnlink(d) \/ DeleteRow(d) \/ \E p \in Path : DeleteFile(d, p)
      PROVE  UNCHANGED dropped
  BY <1>6 DEF DeleteUnlink, DeleteRow, DeleteFile, env
<1>7. ASSUME DeleteFolder \/ FolderRemove \/ FolderRow \/ CreateFolder \/ Restart
      PROVE  UNCHANGED dropped
  BY <1>7 DEF DeleteFolder, FolderRemove, FolderRow, CreateFolder, Restart, env
<1>8. ASSUME Sweep
      PROVE  UNCHANGED dropped
  BY <1>8 DEF Sweep, SweepBegin, SweepRemove, SweepMark, env
<1> QED
  BY <1>1, <1>2, <1>3, <1>4, <1>5, <1>6, <1>7, <1>8 DEF Next

(* The steps of the deletion of a file.                                    *)
LEMMA DeleterSteps ==
  ASSUME [Next]_vars
  PROVE  \/ UNCHANGED deleter
         \/ \E d \in Deleter : DeleteUnlink(d) \/ DeleteRow(d) \/ \E p \in Path : DeleteFile(d, p)
         \/ Restart
<1>1. CASE UNCHANGED vars
  BY <1>1 DEF vars, jobs
<1>2. ASSUME NEW u \in Upload, PostInsert(u) \/ CancelRow(u) \/ Cancel(u) \/ Expire(u)
                               \/ \E p \in Path : PostCheck(u, p)
      PROVE  UNCHANGED deleter
  BY <1>2 DEF PostInsert, CancelRow, Cancel, Expire, PostCheck, jobs
<1>3. ASSUME NEW c \in Patch, Receive(c)
      PROVE  UNCHANGED deleter
  BY <1>3 DEF Receive, PatchLate, PatchOpen, PatchAbort, PatchClose, PatchWrite, PatchExceed
                       , PatchRefuse, PatchRecord, jobs
<1>4. ASSUME NEW c \in Patch, Finalize(c)
      PROVE  UNCHANGED deleter
  BY <1>4 DEF Finalize, FinalRead, FinalChecksum, FinalMove, FinalVerify, FinalUnlink
                        , FinalInsert, FinalDrop, jobs
<1>5. ASSUME NEW c \in Patch, NEW u \in Upload, PatchCheck(c, u)
      PROVE  UNCHANGED deleter
  BY <1>5 DEF PatchCheck, jobs
<1>6. ASSUME NEW d \in Deleter,
             DeleteUnlink(d) \/ DeleteRow(d) \/ \E p \in Path : DeleteFile(d, p)
      PROVE  UNCHANGED deleter \/ DeleteUnlink(d) \/ DeleteRow(d)
             \/ \E p \in Path : DeleteFile(d, p)
  BY <1>6 DEF jobs
<1>7. ASSUME DeleteFolder \/ FolderRemove \/ FolderRow \/ CreateFolder \/ Restart
      PROVE  UNCHANGED deleter \/ Restart
  BY <1>7 DEF DeleteFolder, FolderRemove, FolderRow, CreateFolder, jobs
<1>8. ASSUME Sweep
      PROVE  UNCHANGED deleter
  BY <1>8 DEF Sweep, SweepBegin, SweepRemove, SweepMark, jobs
<1> QED
  BY <1>1, <1>2, <1>3, <1>4, <1>5, <1>6, <1>7, <1>8 DEF Next

(* The steps of the deletion of the folder.                                *)
LEMMA FdelSteps ==
  ASSUME [Next]_vars
  PROVE  \/ UNCHANGED fdel
         \/ DeleteFolder \/ FolderRemove \/ FolderRow \/ Restart
<1>1. CASE UNCHANGED vars
  BY <1>1 DEF vars, jobs
<1>2. ASSUME NEW u \in Upload, PostInsert(u) \/ CancelRow(u) \/ Cancel(u) \/ Expire(u)
                               \/ \E p \in Path : PostCheck(u, p)
      PROVE  UNCHANGED fdel
  BY <1>2 DEF PostInsert, CancelRow, Cancel, Expire, PostCheck, jobs
<1>3. ASSUME NEW c \in Patch, Receive(c)
      PROVE  UNCHANGED fdel
  BY <1>3 DEF Receive, PatchLate, PatchOpen, PatchAbort, PatchClose, PatchWrite, PatchExceed
                       , PatchRefuse, PatchRecord, jobs
<1>4. ASSUME NEW c \in Patch, Finalize(c)
      PROVE  UNCHANGED fdel
  BY <1>4 DEF Finalize, FinalRead, FinalChecksum, FinalMove, FinalVerify, FinalUnlink
                        , FinalInsert, FinalDrop, jobs
<1>5. ASSUME NEW c \in Patch, NEW u \in Upload, PatchCheck(c, u)
      PROVE  UNCHANGED fdel
  BY <1>5 DEF PatchCheck, jobs
<1>6. ASSUME NEW d \in Deleter,
             DeleteUnlink(d) \/ DeleteRow(d) \/ \E p \in Path : DeleteFile(d, p)
      PROVE  UNCHANGED fdel
  BY <1>6 DEF DeleteUnlink, DeleteRow, DeleteFile, jobs
<1>7. ASSUME DeleteFolder \/ FolderRemove \/ FolderRow \/ CreateFolder \/ Restart
      PROVE  UNCHANGED fdel \/ DeleteFolder \/ FolderRemove \/ FolderRow \/ Restart
  BY <1>7 DEF CreateFolder, jobs
<1>8. ASSUME Sweep
      PROVE  UNCHANGED fdel
  BY <1>8 DEF Sweep, SweepBegin, SweepRemove, SweepMark, jobs
<1> QED
  BY <1>1, <1>2, <1>3, <1>4, <1>5, <1>6, <1>7, <1>8 DEF Next

(* The steps that ask for the deletion of a file.                          *)
LEMMA DeletingSteps ==
  ASSUME [Next]_vars
  PROVE  \/ UNCHANGED deleting
         \/ \E d \in Deleter : \E p \in Path : DeleteFile(d, p)
<1>1. CASE UNCHANGED vars
  BY <1>1 DEF vars, env
<1>2. ASSUME NEW u \in Upload, PostInsert(u) \/ CancelRow(u) \/ Cancel(u) \/ Expire(u)
                               \/ \E p \in Path : PostCheck(u, p)
      PROVE  UNCHANGED deleting
  BY <1>2 DEF PostInsert, CancelRow, Cancel, Expire, PostCheck, env
<1>3. ASSUME NEW c \in Patch, Receive(c)
      PROVE  UNCHANGED deleting
  BY <1>3 DEF Receive, PatchLate, PatchOpen, PatchAbort, PatchClose, PatchWrite, PatchExceed
                       , PatchRefuse, PatchRecord, env
<1>4. ASSUME NEW c \in Patch, Finalize(c)
      PROVE  UNCHANGED deleting
  BY <1>4 DEF Finalize, FinalRead, FinalChecksum, FinalMove, FinalVerify, FinalUnlink
                        , FinalInsert, FinalDrop, env
<1>5. ASSUME NEW c \in Patch, NEW u \in Upload, PatchCheck(c, u)
      PROVE  UNCHANGED deleting
  BY <1>5 DEF PatchCheck, env
<1>6. ASSUME NEW d \in Deleter,
             DeleteUnlink(d) \/ DeleteRow(d) \/ \E p \in Path : DeleteFile(d, p)
      PROVE  UNCHANGED deleting \/ \E p \in Path : DeleteFile(d, p)
  BY <1>6 DEF DeleteUnlink, DeleteRow, env
<1>7. ASSUME DeleteFolder \/ FolderRemove \/ FolderRow \/ CreateFolder \/ Restart
      PROVE  UNCHANGED deleting
  BY <1>7 DEF DeleteFolder, FolderRemove, FolderRow, CreateFolder, Restart, env
<1>8. ASSUME Sweep
      PROVE  UNCHANGED deleting
  BY <1>8 DEF Sweep, SweepBegin, SweepRemove, SweepMark, env
<1> QED
  BY <1>1, <1>2, <1>3, <1>4, <1>5, <1>6, <1>7, <1>8 DEF Next

(* The steps that count restarts.                                          *)
LEMMA RestartSteps ==
  ASSUME [Next]_vars
  PROVE  \/ UNCHANGED restarts
         \/ Restart
<1>1. CASE UNCHANGED vars
  BY <1>1 DEF vars, env
<1>2. ASSUME NEW u \in Upload, PostInsert(u) \/ CancelRow(u) \/ Cancel(u) \/ Expire(u)
                               \/ \E p \in Path : PostCheck(u, p)
      PROVE  UNCHANGED restarts
  BY <1>2 DEF PostInsert, CancelRow, Cancel, Expire, PostCheck, env
<1>3. ASSUME NEW c \in Patch, Receive(c)
      PROVE  UNCHANGED restarts
  BY <1>3 DEF Receive, PatchLate, PatchOpen, PatchAbort, PatchClose, PatchWrite, PatchExceed
                       , PatchRefuse, PatchRecord, env
<1>4. ASSUME NEW c \in Patch, Finalize(c)
      PROVE  UNCHANGED restarts
  BY <1>4 DEF Finalize, FinalRead, FinalChecksum, FinalMove, FinalVerify, FinalUnlink
                        , FinalInsert, FinalDrop, env
<1>5. ASSUME NEW c \in Patch, NEW u \in Upload, PatchCheck(c, u)
      PROVE  UNCHANGED restarts
  BY <1>5 DEF PatchCheck, env
<1>6. ASSUME NEW d \in Deleter,
             DeleteUnlink(d) \/ DeleteRow(d) \/ \E p \in Path : DeleteFile(d, p)
      PROVE  UNCHANGED restarts
  BY <1>6 DEF DeleteUnlink, DeleteRow, DeleteFile, env
<1>7. ASSUME DeleteFolder \/ FolderRemove \/ FolderRow \/ CreateFolder \/ Restart
      PROVE  UNCHANGED restarts \/ Restart
  BY <1>7 DEF DeleteFolder, FolderRemove, FolderRow, CreateFolder, env
<1>8. ASSUME Sweep
      PROVE  UNCHANGED restarts
  BY <1>8 DEF Sweep, SweepBegin, SweepRemove, SweepMark, env
<1> QED
  BY <1>1, <1>2, <1>3, <1>4, <1>5, <1>6, <1>7, <1>8 DEF Next

-----------------------------------------------------------------------------
(* Nothing has happened to an upload that does not exist.                  *)
FreshInv ==
  /\ \A u \in Upload : upload[u].status = "none" =>
       upload[u].received = 0 /\ u \notin late \cup cancel
  /\ sweep.todo \subseteq late

(* One request at a time works on an upload.                               *)
AloneInv ==
  /\ \A c, d \in Patch : Active(c) /\ Active(d) /\ patch[c].up = patch[d].up => c = d
  /\ \A c \in Patch : Active(c) => /\ patch[c].up \notin cancel
                                   /\ upload[patch[c].up].status \in {"in_progress", "expired"}

(* Where a request is, and its open file.                                  *)
OffsetInv ==
  \A c \in Patch :
    /\ patch[c].pc \in {"open", "write", "record"} \cup Final =>
         upload[patch[c].up].received <= patch[c].pos
    /\ patch[c].pc = "open" => patch[c].pos = upload[patch[c].up].received
    /\ patch[c].pc \in Final => upload[patch[c].up].received = Size /\ patch[c].pos = Size
HandleInv ==
  \A c \in Patch : patch[c].at # Nowhere => patch[c].pc = "write" /\ patch[c].at = patch[c].up

(* The bytes before the offset are in the file.                            *)
Holds(u, n) == disk[u] # NoFile => (0 .. n - 1) \cap Byte \subseteq disk[u].good
RequestBytes(c) ==
  /\ patch[c].pc \in {"open", "write"} => ~patch[c].gap
  /\ patch[c].pc \in {"write", "record"} => Holds(patch[c].up, patch[c].pos)
  /\ patch[c].pc = "write" /\ patch[c].at = Nowhere => disk[patch[c].up] = NoFile
BytesInv == /\ \A u \in Upload : Holds(u, upload[u].received)
            /\ \A c \in Patch : RequestBytes(c)
ThereInv ==
  \A u \in Upload :
    /\ post[u] # NoPath => disk[u] # NoFile
    /\ /\ upload[u].status = "in_progress" /\ u \notin late \cup dropped
       /\ upload[u].received < Size
       => disk[u] # NoFile

(* A temporary file is as long as its bytes.                               *)
LengthInv ==
  \A u \in Upload : disk[u] # NoFile =>
    /\ disk[u].of = u /\ disk[u].good \subseteq 0 .. disk[u].len - 1
    /\ disk[u].len <= Size \/ \E c \in Patch : Serves(c, u) /\ Excess(c)

(* A path is in the hands of one upload, and free.                         *)
Aims(u, p) == \/ post[u] = p
              \/ /\ upload[u].path = p
                 /\ upload[u].status = "in_progress" \/ \E c \in Patch : Serves(c, u)
AimInv ==
  /\ \A p \in Path, u, v \in Upload : Aims(u, p) /\ Aims(v, p) => u = v
  /\ \A p \in Path, u \in Upload : Aims(u, p) => file[p] = NoRow

(* The folder is deleted while it is empty and nobody writes to it.        *)
FolderInv ==
  fdel # "idle" => /\ \A c \in Patch : ~Active(c)
                   /\ \A p \in Path : file[p] = NoRow

(* Files and requests have places of their own.                            *)
PlaceInv ==
  /\ \A p \in Path : file[p] # NoRow => file[p].place \in {p} \cup FileId
  /\ \A p, q \in Path : file[p] # NoRow /\ file[q] # NoRow /\ file[p].place = file[q].place => p = q
  /\ \A c \in Patch :
       patch[c].place # Nowhere =>
         /\ patch[c].pc \in Placed
         /\ patch[c].place \in {upload[patch[c].up].path} \cup FileId
         /\ \A p \in Path : file[p] # NoRow => file[p].place # patch[c].place
         /\ \A d \in Patch : patch[d].place = patch[c].place => c = d

(* A deletion holds a row that is there.                                   *)
DeleteInv ==
  \A d \in Deleter : deleter[d].pc # "idle" =>
    /\ \E p \in Path : file[p] = deleter[d].row
    /\ deleter[d].row.of \in deleting
    /\ deleter[d].pc = "row" => disk[deleter[d].row.place] = NoFile

(* What is being finalized is whole.                                       *)
WholeInv ==
  \A c \in Patch :
    /\ patch[c].pc \in Placed => patch[c].checksum = Whole(patch[c].up)
    /\ patch[c].pc \in Moved => disk[patch[c].place] = Whole(patch[c].up)

(* What there is on the disk is in somebody's hands.                       *)
Excused(u) == u \in LateRequests \cap late
TidyInv ==
  /\ \A u \in Upload \ LateRequests : u \in late => ~Served(u)
  /\ \A u \in cancel : disk[u] = NoFile
  /\ sweep.pc = "mark" => disk[sweep.up] = NoFile \/ sweep.up \in LateRequests
  /\ \A c \in Patch :
       /\ patch[c].pc \in {"refuse", "insert"} => disk[patch[c].up] = NoFile
       /\ patch[c].pc = "late" => patch[c].up \in late
       /\ Active(c) => upload[patch[c].up].status = "in_progress" \/ patch[c].up \in late
LitterInv ==
  restarts = 0 =>
    /\ \A u \in Upload :
         disk[u] # NoFile => upload[u].status = "in_progress" \/ post[u] # NoPath \/ Excused(u)
    /\ \A l \in Place : disk[l] # NoFile =>
         \/ \E p \in Path : file[p] # NoRow /\ file[p].place = l
         \/ \E c \in Patch : patch[c].pc \in Moved /\ patch[c].place = l

-----------------------------------------------------------------------------
(* One request at a time *)

(* Nothing happens to an upload that does not exist.                       *)
LEMMA FreshStep ==
  ASSUME TypeInv, FreshInv, AloneInv, [Next]_vars
  PROVE  FreshInv'
<1>1. UploadType /\ JobType /\ EnvType /\ RowsStay /\ \A c \in Patch : RequestFields(c)
  BY TypeParts, UploadTypeStep DEF TypeInv, FieldsInv
<1>2. ASSUME NEW u \in Upload, upload'[u].status = "none"
      PROVE  upload[u].status = "none"
  BY <1>1, <1>2 DEF RowsStay
<1>3. ASSUME NEW u \in Upload, upload'[u].status = "none"
      PROVE  upload'[u].received = 0
  <2>1. upload[u].received = 0
    BY <1>2, <1>3 DEF FreshInv
  <2> QED
    BY <1>2, <1>3, <2>1, ReceivedSteps DEF Row
<1>4. ASSUME NEW u \in Upload, upload'[u].status = "none"
      PROVE  u \notin cancel'
  <2>1. upload[u].status = "none" /\ u \notin cancel
    BY <1>2, <1>4 DEF FreshInv
  <2>2. ASSUME NEW v \in Upload, Cancel(v) \/ CancelRow(v)
        PROVE  u \notin cancel'
    BY <2>1, <2>2 DEF Cancel, CancelRow, Row
  <2> QED
    BY <2>1, <2>2, CancelSteps DEF Restart
<1>5. ASSUME NEW u \in Upload, upload'[u].status = "none"
      PROVE  u \notin late'
  <2>1. upload[u].status = "none" /\ u \notin late
    BY <1>2, <1>5 DEF FreshInv
  <2> QED
    BY <2>1, LateSteps DEF Expire
<1>6. late \subseteq late'
  BY LateSteps DEF Expire
<1>7. sweep'.todo \subseteq late'
  <2>1. sweep.todo \subseteq late
    BY DEF FreshInv
  <2>2. CASE UNCHANGED sweep
    BY <1>6, <2>1, <2>2
  <2>3. CASE SweepBegin
    <3> DEFINE expired == {u \in late : upload[u].status = "in_progress"}
    <3>1. sweep' = [IdleSweep EXCEPT !.pc = "remove", !.todo = expired]
      BY <2>3 DEF SweepBegin
    <3>2. expired \subseteq late
      OBVIOUS
    <3> HIDE DEF expired
    <3>3. sweep'.todo = expired
      BY <3>1 DEF IdleSweep
    <3> QED
      BY <1>6, <3>2, <3>3
  <2>4. CASE SweepRemove
    BY <1>1, <1>6, <2>1, <2>4 DEF SweepRemove, JobType
  <2>5. CASE SweepMark
    BY <1>1, <1>6, <2>1, <2>5 DEF SweepMark, JobType
  <2>6. CASE Restart
    BY <2>6 DEF Restart, IdleSweep
  <2> QED
    BY <2>2, <2>3, <2>4, <2>5, <2>6, SweepSteps
<1> QED
  BY <1>3, <1>4, <1>5, <1>7 DEF FreshInv

(* A request that goes on was there, or has just read the row of an upload *)
(* that nobody else serves.                                                *)
LEMMA AloneStep ==
  ASSUME ~Overlap, TypeInv, AloneInv, [Next]_vars
  PROVE  AloneInv'
<1>1. ASSUME NEW c \in Patch, Active(c)'
      PROVE  \/ Active(c) /\ patch'[c].up = patch[c].up
             \/ \E u \in Upload : PatchCheck(c, u) /\ patch'[c].up = u
  BY <1>1, RequestSteps DEF Active, Waits
<1>2. ASSUME NEW c \in Patch, NEW u \in Upload, PatchCheck(c, u), patch'[c].up = u, Active(c)'
      PROVE  /\ \A d \in Patch : Active(d)' /\ patch'[d].up = u => d = c
             /\ u \notin cancel' /\ upload'[u].status = "in_progress"
  <2>1. ~Served(u) /\ UNCHANGED <<upload, cancel>> /\ upload[u].status = "in_progress"
    BY <1>2 DEF PatchCheck, db, jobs
  <2>2. PatchType /\ UploadType
    BY TypeParts DEF TypeInv
  <2>3. OthersStay(c)
    BY <1>2, <2>2, CheckFields
  <2> QED
    BY <2>1, <2>3 DEF Served, Serves, Active, OthersStay
<1>3. ASSUME NEW c \in Patch, NEW d \in Patch, Active(c)', Active(d)', patch'[c].up = patch'[d].up
      PROVE  c = d
  <2>1. CASE \E u \in Upload : PatchCheck(c, u) /\ patch'[c].up = u
    BY <1>2, <1>3, <2>1
  <2>2. CASE \E u \in Upload : PatchCheck(d, u) /\ patch'[d].up = u
    BY <1>2, <1>3, <2>2
  <2>3. CASE Active(c) /\ patch'[c].up = patch[c].up /\ Active(d) /\ patch'[d].up = patch[d].up
    BY <1>3, <2>3 DEF AloneInv
  <2> QED
    BY <1>1, <1>3, <2>1, <2>2, <2>3
<1>4. ASSUME NEW c \in Patch, Active(c)'
      PROVE  /\ patch'[c].up \notin cancel'
             /\ upload'[patch'[c].up].status \in {"in_progress", "expired"}
  <2>1. CASE \E u \in Upload : PatchCheck(c, u) /\ patch'[c].up = u
    BY <1>2, <1>4, <2>1
  <2>2. CASE Active(c) /\ patch'[c].up = patch[c].up
    <3> DEFINE u == patch[c].up
    <3>1. u \in Upload /\ u \notin cancel /\ upload[u].status \in {"in_progress", "expired"}
      BY <2>2 DEF TypeInv, FieldsInv, RequestFields, AloneInv
    <3>2. u \notin cancel'
      <4>1. ASSUME NEW v \in Upload, Cancel(v) \/ CancelRow(v)
            PROVE  u \notin cancel'
        BY <2>2, <3>1, <4>1 DEF Cancel, CancelRow, Served, Serves, Active
      <4> QED
        BY <3>1, <4>1, CancelSteps DEF Restart
    <3>3. ~CancelRow(u)
      BY <3>1 DEF CancelRow
    <3>4. ASSUME NEW d \in Patch, FinalInsert(d), patch[d].up = u, End(d)
          PROVE  FALSE
      <4>1. d = c
        BY <2>2, <3>4 DEF AloneInv, Active, FinalInsert
      <4>2. Idle(c)
        BY <3>4, <4>1, TypeParts, EndFields DEF TypeInv
      <4> QED
        BY <1>4, <4>2 DEF Idle, Active
    <3>5. upload'[u].status \in {"in_progress", "expired"}
      BY <3>1, <3>3, <3>4, StatusSteps
    <3> QED
      BY <2>2, <3>2, <3>5
  <2> QED
    BY <1>1, <1>4, <2>1, <2>2
<1> QED
  BY <1>3, <1>4 DEF AloneInv, Active

(* A request that works leaves the handles of the others.                  *)
LEMMA WorkHandles ==
  ASSUME TypeInv, AloneInv, HandleInv, [Next]_vars, NEW c \in Patch, Works(c)
  PROVE  /\ HandlesStay(c)
         /\ patch'[c].at # Nowhere => patch'[c].pc = "write" /\ patch'[c].at = patch'[c].up
<1>1. PatchType /\ DiskType /\ RequestFields(c) /\ patch[c] \in PatchState /\ RowsInv /\ UploadType
      /\ \A d \in Patch : RequestFields(d)
  BY TypeParts DEF TypeInv, FieldsInv, PatchType
<1>2. Active(c) /\ patch[c].up \in Upload /\ patch[c].up \in Location
  BY <1>1, WorkKeeps DEF RequestFields, Location
<1>3. ASSUME NEW d \in Patch \ {c}
      PROVE  /\ patch[d].at # patch[c].up
             /\ patch[c].pc \in Placed => patch[d].at # patch[c].place
  <2>1. CASE patch[d].at = Nowhere
    BY <1>1, <1>2, <2>1, Constants DEF RequestFields, Location
  <2>2. CASE patch[d].at # Nowhere
    <3>1. Active(d) /\ patch[d].at = patch[d].up /\ patch[d].up \in Upload
      BY <1>1, <2>2 DEF HandleInv, Active, RequestFields
    <3>2. patch[d].up # patch[c].up
      BY <1>2, <3>1 DEF AloneInv
    <3>3. patch[c].pc \in Placed => patch[c].place \in Place
      BY <1>1 DEF RequestFields, PatchState
    <3> QED
      BY <3>1, <3>2, <3>3, Constants
  <2> QED
    BY <2>1, <2>2
<1>4. patch[c].pc # "write" => patch[c].at = Nowhere
  BY DEF HandleInv
<1>5. ASSUME End(c) \/ \E s \in {"read", "checksum", "verify", "unlink", "drop"} : Goto(c, s),
             patch[c].pc # "write" \/ End(c)
      PROVE  HandlesStay(c) /\ patch'[c].at = Nowhere
  BY <1>1, <1>4, <1>5, EndFields, GotoFields DEF Idle
<1>6. CASE Receive(c)
  <2>1. CASE PatchLate(c) \/ PatchAbort(c) \/ PatchRefuse(c) \/ PatchRecord(c)
    BY <1>5, <2>1 DEF PatchLate, PatchAbort, PatchRefuse, PatchRecord
  <2>2. CASE PatchOpen(c)
    <3>1. CASE patch[c].pos > 0 /\ disk[patch[c].up] = NoFile
      BY <1>5, <2>2, <3>1 DEF PatchOpen
    <3>2. CASE ~(patch[c].pos > 0 /\ disk[patch[c].up] = NoFile)
      BY <1>1, <1>2, <2>2, <3>2, OpenFields DEF SameJob
    <3> QED
      BY <3>1, <3>2
  <2>3. CASE Writes(c)
    BY <1>1, <1>2, <2>3, WriteFields DEF Writes, SameJob, HandleInv
  <2>4. CASE PatchClose(c)
    BY <1>1, <1>2, <2>4, CloseFields
  <2>5. CASE PatchExceed(c)
    <3>1. \A d \in Patch : patch'[d].at = IF patch[d].at = patch[c].up THEN Nowhere
                                          ELSE patch[d].at
      BY <1>1, <1>2, <2>5, RemoveFields DEF PatchExceed
    <3>2. patch[c].at = Nowhere
      BY <1>4, <2>5 DEF PatchExceed
    <3> QED
      BY <1>3, <3>1, <3>2 DEF HandlesStay
  <2> QED
    BY <1>6, <2>1, <2>2, <2>3, <2>4, <2>5 DEF Receive, Writes
<1>7. CASE Finalize(c)
  <2>1. CASE FinalRead(c) \/ FinalVerify(c) \/ FinalInsert(c)
    BY <1>5, <2>1 DEF FinalRead, FinalVerify, FinalInsert
  <2>2. CASE FinalChecksum(c)
    <3> DEFINE u == patch[c].up
    <3>1. CASE disk[u] = NoFile
      BY <1>5, <2>2, <3>1 DEF FinalChecksum
    <3>2. CASE disk[u] # NoFile
      <4>1. PICK f \in File : f = disk[u]
        BY <1>1, <1>2, <3>2 DEF DiskType
      <4>2. upload[u].path \in Place
        BY <1>1, <1>2 DEF RequestFields, RowsInv, Place
      <4>3. PICK place \in Place :
              Chosen(c, place, f)
        BY <2>2, <3>2, <4>1, <4>2 DEF FinalChecksum, Place, Chosen
      <4> QED
        BY <1>1, <1>4, <2>2, <4>3, ChecksumFields DEF FinalChecksum
    <3> QED
      BY <3>1, <3>2
  <2>3. CASE FinalMove(c)
    <3>1. patch[c].place \in Location /\ patch[c].place # patch[c].up /\ patch[c].pc \in Placed
      BY <1>1, <1>2, <2>3, Constants DEF FinalMove, RequestFields, PatchState, Placed, Location
    <3>2. patch[c].at = Nowhere
      BY <1>4, <2>3 DEF FinalMove
    <3>3. CASE End(c)
      BY <1>5, <3>3
    <3>4. CASE patch' = [patch EXCEPT ![c].pc = "verify"]
      BY <1>1, <3>2, <3>4, CopyFields
    <3>5. CASE patch' = [Carried(Closed(patch, patch[c].place), patch[c].up, patch[c].place)
                           EXCEPT ![c].pc = "insert"]
      <4>1. \A d \in Patch : patch'[d].at = IF patch[d].at = patch[c].place THEN Nowhere
                                            ELSE IF patch[d].at = patch[c].up
                                            THEN patch[c].place ELSE patch[d].at
        BY <1>1, <1>2, <3>1, <3>5, RenameFields
      <4>2. Nowhere # patch[c].place /\ Nowhere # patch[c].up
        BY <1>2, <3>1, Constants
      <4> QED
        BY <1>3, <3>1, <3>2, <4>1, <4>2 DEF HandlesStay
    <3> QED
      BY <2>3, <3>3, <3>4, <3>5 DEF FinalMove
  <2>4. CASE FinalUnlink(c)
    <3>1. \A d \in Patch : patch'[d].at = IF patch[d].at = patch[c].up THEN Nowhere
                                          ELSE patch[d].at
      BY <1>1, <1>2, <2>4, RemoveFields DEF FinalUnlink
    <3>2. patch[c].at = Nowhere
      BY <1>4, <2>4 DEF FinalUnlink
    <3> QED
      BY <1>3, <3>1, <3>2 DEF HandlesStay
  <2>5. CASE FinalDrop(c)
    <3>1. patch[c].place \in Location /\ patch[c].pc \in Placed
      BY <1>1, <2>5 DEF FinalDrop, RequestFields, PatchState, Placed, Location
    <3> QED
      BY <1>1, <1>3, <2>5, <3>1, DropFields DEF FinalDrop, Idle, HandlesStay
  <2> QED
    BY <1>7, <2>1, <2>2, <2>3, <2>4, <2>5 DEF Finalize
<1> QED
  BY <1>6, <1>7 DEF Works

(* A handle is lost only with the file.                                    *)
LEMMA HandleSteps ==
  ASSUME TypeInv, AloneInv, HandleInv, [Next]_vars, NEW c \in Patch
  PROVE  \/ Works(c)
         \/ patch'[c].at = patch[c].at
         \/ patch'[c].at = Nowhere /\ (Active(c)' => disk'[patch[c].up] = NoFile)
<1>1. PatchType /\ UploadType /\ DiskType /\ RequestFields(c)
  BY TypeParts DEF TypeInv, FieldsInv
<1>2. patch[c].at # Nowhere => patch[c].at = patch[c].up /\ patch[c].up \in Upload
  BY <1>1 DEF HandleInv, RequestFields, Active
<1>3. CASE UNCHANGED patch
  BY <1>3
<1>4. ASSUME NEW d \in Patch, Works(d)
      PROVE  Works(c) \/ patch'[c].at = patch[c].at
  BY <1>4, WorkHandles DEF HandlesStay
<1>5. ASSUME NEW d \in Patch, NEW u \in Upload, PatchCheck(d, u)
      PROVE  patch'[c].at = patch[c].at
  <2>1. HandlesStay(d) /\ patch'[d].at = Nowhere
    BY <1>1, <1>5, CheckFields
  <2>2. patch[d].at = Nowhere
    BY <1>5 DEF PatchCheck, HandleInv
  <2> QED
    BY <2>1, <2>2 DEF HandlesStay
<1>6. ASSUME NEW l, patch' = Closed(patch, l), disk' = [disk EXCEPT ![l] = NoFile]
      PROVE  \/ patch'[c].at = patch[c].at
             \/ patch'[c].at = Nowhere /\ disk'[patch[c].up] = NoFile
  <2>1. patch'[c].at = IF patch[c].at = l THEN Nowhere ELSE patch[c].at
    BY <1>1, <1>6, ClosedHandles DEF OnlyHandles
  <2> QED
    BY <1>1, <1>2, <1>6, <2>1, Constants DEF DiskType, Location
<1>7. CASE FolderRemove
  <2>1. patch'[c].at = IF patch[c].at \in Path THEN Nowhere ELSE patch[c].at
    BY <1>1, <1>7, FolderHandles DEF OnlyHandles
  <2>2. patch[c].at \notin Path
    BY <1>2, Constants DEF Location, Place
  <2> QED
    BY <2>1, <2>2
<1>8. CASE Restart
  BY <1>8, IdleFields DEF Restart, Active
<1> QED
  BY <1>3, <1>4, <1>5, <1>6, <1>7, <1>8, PatchSteps DEF Works

(* Only a request that writes has a file open, the one of its upload.      *)
LEMMA HandleStep ==
  ASSUME TypeInv, AloneInv, HandleInv, [Next]_vars
  PROVE  HandleInv'
<1>1. ASSUME NEW c \in Patch, patch'[c].at # Nowhere
      PROVE  patch'[c].pc = "write" /\ patch'[c].at = patch'[c].up
  <2>1. CASE Works(c)
    BY <1>1, <2>1, WorkHandles
  <2>2. CASE ~Works(c)
    <3>1. patch'[c].at = patch[c].at /\ patch[c].pc = "write" /\ patch[c].at = patch[c].up
      BY <1>1, <2>2, HandleSteps DEF HandleInv
    <3>2. patch'[c] # IdlePatch
      BY <1>1, IdleFields
    <3>3. ~\E u \in Upload : PatchCheck(c, u)
      BY <3>1 DEF PatchCheck
    <3> QED
      BY <2>2, <3>1, <3>2, <3>3, RequestSteps DEF Waits
  <2> QED
    BY <2>1, <2>2
<1> QED
  BY <1>1 DEF HandleInv

(* Where a request gets to, and at which position.                         *)
LEMMA WorkPositions ==
  ASSUME TypeInv, [Next]_vars, NEW c \in Patch, Works(c), patch'[c].pc # "idle"
  PROVE  /\ patch'[c].pc \notin {"late", "open"}
         /\ patch'[c].pc = "write" => patch[c].pc \in {"open", "write"}
         /\ patch'[c].pc = "record" => patch[c].pc = "write"
         /\ patch'[c].pc \in Final => \/ patch[c].pc \in Final
                                      \/ PatchRecord(c) /\ patch[c].pos = Size
         /\ patch'[c].pos >= patch[c].pos
         /\ patch'[c].pc # "write" => patch'[c].pos = patch[c].pos
<1>1. /\ PatchType /\ DiskType /\ RequestFields(c) /\ patch[c] \in PatchState /\ RowsInv
      /\ UploadType
  BY TypeParts DEF TypeInv, FieldsInv, PatchType
<1>2. Active(c) /\ patch[c].up \in Upload /\ patch[c].up \in Location /\ patch[c].pos \in Nat
  BY <1>1, WorkKeeps, Constants DEF RequestFields, Location, PatchState
<1>3. CASE Receive(c)
  <2>1. CASE PatchLate(c) \/ PatchAbort(c) \/ PatchRefuse(c)
    BY <1>1, <2>1, EndFields DEF PatchLate, PatchAbort, PatchRefuse, Idle
  <2>2. CASE PatchOpen(c)
    <3>1. CASE patch[c].pos > 0 /\ disk[patch[c].up] = NoFile
      BY <1>1, <1>2, <2>2, <3>1, EndFields DEF PatchOpen, Idle
    <3>2. CASE ~(patch[c].pos > 0 /\ disk[patch[c].up] = NoFile)
      <4>1. patch'[c].pc = "write" /\ SamePosition(c) /\ patch[c].pc = "open"
        BY <1>1, <1>2, <2>2, <3>2, OpenFields DEF PatchOpen
      <4> QED
        BY <1>2, <4>1 DEF SamePosition, Final
    <3> QED
      BY <3>1, <3>2
  <2>3. CASE Writes(c)
    <3>1. PICK m \in 1 .. MaxChunk : /\ patch[c].pc = "write" /\ patch'[c].pc = "write"
                                     /\ patch'[c].pos = patch[c].pos + m
      BY <1>1, <2>3, WriteFields DEF Writes, PatchWrite
    <3>2. m \in Nat
      BY Constants
    <3> QED
      BY <1>2, <3>1, <3>2 DEF Final
  <2>4. CASE PatchClose(c)
    <3>1. /\ patch'[c].pc \in {"exceed", "record"} /\ patch'[c].pos = patch[c].pos
          /\ patch[c].pc = "write"
      BY <1>1, <2>4, CloseFields DEF PatchClose
    <3> QED
      BY <1>2, <3>1 DEF Final
  <2>5. CASE PatchExceed(c)
    <3>1. patch'[c].pc = "refuse" /\ SamePosition(c)
      BY <1>1, <1>2, <2>5, RemoveFields DEF PatchExceed
    <3> QED
      BY <1>2, <3>1 DEF Final, SamePosition
  <2>6. CASE PatchRecord(c)
    <3>1. CASE patch[c].pos = Size
      <4>1. patch'[c].pc = "read" /\ SamePosition(c)
        BY <1>1, <2>6, <3>1, GotoFields DEF PatchRecord
      <4> QED
        BY <1>2, <2>6, <3>1, <4>1 DEF SamePosition
    <3>2. CASE patch[c].pos # Size
      BY <1>1, <2>6, <3>2, EndFields DEF PatchRecord, Idle
    <3> QED
      BY <3>1, <3>2
  <2> QED
    BY <1>3, <2>1, <2>2, <2>3, <2>4, <2>5, <2>6 DEF Receive, Writes
<1>4. CASE Finalize(c)
  <2>0. patch[c].pc \in Final
    BY <1>4 DEF Finalize, FinalRead, FinalChecksum, FinalMove, FinalVerify, FinalUnlink,
                FinalInsert, FinalDrop, Final
  <2>1. SUFFICES patch'[c].pc \in Final /\ patch'[c].pos = patch[c].pos
    BY <1>2, <2>0, <2>1 DEF Final
  <2>2. CASE FinalRead(c) \/ FinalVerify(c) \/ FinalInsert(c)
    <3>1. End(c) \/ \E s \in {"read", "checksum", "verify", "unlink", "drop"} : Goto(c, s)
      BY <2>2 DEF FinalRead, FinalVerify, FinalInsert
    <3> QED
      BY <1>1, <3>1, EndFields, GotoFields DEF SamePosition, Idle, Final
  <2>3. CASE FinalChecksum(c)
    <3> DEFINE u == patch[c].up
    <3>1. CASE disk[u] = NoFile
      BY <1>1, <1>2, <2>3, <3>1, EndFields DEF FinalChecksum, Idle
    <3>2. CASE disk[u] # NoFile
      <4>1. PICK f \in File : f = disk[u]
        BY <1>1, <1>2, <3>2 DEF DiskType
      <4>2. upload[u].path \in Place
        BY <1>1, <1>2 DEF RequestFields, RowsInv, Place
      <4>3. PICK place \in Place :
              Chosen(c, place, f)
        BY <2>3, <3>2, <4>1, <4>2 DEF FinalChecksum, Place, Chosen
      <4>4. patch'[c].pc = "move" /\ SamePosition(c)
        BY <1>1, <4>3, ChecksumFields
      <4> QED
        BY <4>4 DEF SamePosition, Final
    <3> QED
      BY <3>1, <3>2
  <2>4. CASE FinalMove(c)
    <3>1. patch[c].place \in Location /\ patch[c].place # patch[c].up
      BY <1>1, <1>2, <2>4, Constants DEF FinalMove, RequestFields, PatchState, Placed, Location
    <3>2. CASE End(c)
      BY <1>1, <3>2, EndFields DEF Idle
    <3>3. CASE patch' = [patch EXCEPT ![c].pc = "verify"]
      BY <1>1, <3>3, CopyFields DEF SamePosition, Final
    <3>4. CASE patch' = [Carried(Closed(patch, patch[c].place), patch[c].up, patch[c].place)
                           EXCEPT ![c].pc = "insert"]
      BY <1>1, <1>2, <3>1, <3>4, RenameFields DEF SamePosition, Final
    <3> QED
      BY <2>4, <3>2, <3>3, <3>4 DEF FinalMove
  <2>5. CASE FinalUnlink(c)
    <3>1. patch'[c].pc = "insert" /\ SamePosition(c)
      BY <1>1, <1>2, <2>5, RemoveFields DEF FinalUnlink
    <3> QED
      BY <3>1 DEF Final, SamePosition
  <2>6. CASE FinalDrop(c)
    <3>1. patch[c].place \in Location
      BY <1>1, <2>6 DEF FinalDrop, RequestFields, PatchState, Placed, Location
    <3> QED
      BY <1>1, <2>6, <3>1, DropFields DEF FinalDrop, Idle
  <2> QED
    BY <1>4, <2>2, <2>3, <2>4, <2>5, <2>6 DEF Finalize
<1> QED
  BY <1>3, <1>4 DEF Works

(* The row's offset is behind the request that works on it.                *)
LEMMA OffsetStep ==
  ASSUME TypeInv, AloneInv, OffsetInv, [Next]_vars
  PROVE  OffsetInv'
<1> DEFINE P(c) ==
      /\ patch[c].pc \in {"open", "write", "record"} \cup Final =>
           upload[patch[c].up].received <= patch[c].pos
      /\ patch[c].pc = "open" => patch[c].pos = upload[patch[c].up].received
      /\ patch[c].pc \in Final => upload[patch[c].up].received = Size /\ patch[c].pos = Size
<1>1. \A c \in Patch : P(c) /\ RequestFields(c) /\ patch[c].pos \in Nat
  BY TypeParts, Constants DEF OffsetInv, TypeInv, FieldsInv, PatchType, PatchState
<1>2. UploadType /\ \A u \in Upload : upload[u].received \in Nat
  BY TypeParts, Constants DEF TypeInv, UploadType, UploadRow
<1>3. ASSUME NEW c \in Patch
      PROVE  P(c)'
  <2>1. CASE patch'[c].pc = "idle"
    BY <2>1 DEF Final
  <2>2. CASE Works(c) /\ patch'[c].pc # "idle"
    <3> DEFINE u == patch[c].up
    <3>1. u \in Upload /\ patch'[c].up = u /\ Active(c)
      BY <1>1, <2>2, WorkKeeps DEF RequestFields
    <3>2. \/ upload'[u].received = upload[u].received /\ ~PatchRecord(c)
          \/ PatchRecord(c)
      <4>1. ASSUME NEW d \in Patch, PatchRecord(d), patch[d].up = u
            PROVE  d = c
        BY <3>1, <4>1 DEF AloneInv, PatchRecord, Active
      <4> QED
        BY <3>1, <4>1, ReceivedSteps
    <3>3. CASE PatchRecord(c)
      <4>1. patch[c].pc = "record" /\ upload[u].status \in {"in_progress", "expired"}
        BY <3>1, <3>3 DEF PatchRecord, AloneInv
      <4>2. Row(u) /\ patch[c].pos \in 0 .. Size
        BY <1>1, <4>1, Constants DEF Row, RequestFields
      <4>3. upload'[u].received = patch[c].pos
        BY <1>2, <3>1, <3>3, <4>2, RecordedFields
      <4>4. patch'[c].pos = patch[c].pos /\ patch'[c].pc \notin {"open"}
            /\ (patch'[c].pc \in Final => patch[c].pos = Size)
        BY <2>2, <3>3, <4>1, WorkPositions DEF Final
      <4> QED
        BY <1>1, <3>1, <4>3, <4>4
    <3>4. CASE upload'[u].received = upload[u].received /\ ~PatchRecord(c)
      <4>1. /\ patch'[c].pc # "open"
            /\ patch'[c].pc = "write" => patch[c].pc \in {"open", "write"}
            /\ patch'[c].pc = "record" => patch[c].pc = "write"
            /\ patch'[c].pc \in Final => patch[c].pc \in Final
            /\ patch'[c].pos >= patch[c].pos
            /\ patch'[c].pc # "write" => patch'[c].pos = patch[c].pos
        BY <2>2, <3>4, WorkPositions
      <4>2. patch'[c].pos \in Nat
        BY TypeStep, TypeParts, Constants DEF TypeInv, PatchType, PatchState, TypeOK
      <4> QED
        BY <1>1, <1>2, <3>1, <3>4, <4>1, <4>2 DEF Final
    <3> QED
      BY <3>2, <3>3, <3>4
  <2>3. CASE ~Works(c) /\ Waits(c) /\ patch'[c].pc # "idle"
    <3> DEFINE u == patch[c].up
    <3>1. u \in Upload /\ Active(c)
      BY <1>1, <2>3 DEF Waits, Active, RequestFields
    <3>2. ASSUME NEW d \in Patch, PatchRecord(d), patch[d].up = u
          PROVE  FALSE
      <4>1. d = c
        BY <3>1, <3>2 DEF AloneInv, PatchRecord, Active
      <4> QED
        BY <2>3, <3>2, <4>1 DEF Works, Receive
    <3>3. upload'[u].received = upload[u].received
      BY <3>1, <3>2, ReceivedSteps
    <3> QED
      BY <1>1, <2>3, <3>3 DEF Waits
  <2>4. ASSUME NEW u \in Upload, PatchCheck(c, u)
        PROVE  P(c)'
    <3>1. /\ patch'[c].pc \in {"late", "open"} /\ patch'[c].up = u
          /\ patch'[c].pos = upload[u].received /\ upload' = upload
      BY <1>2, <2>4, TypeParts, CheckFields DEF TypeInv, PatchCheck, db
    <3> QED
      BY <1>2, <3>1 DEF Final
  <2> QED
    BY <2>1, <2>2, <2>3, <2>4, RequestSteps
<1> QED
  BY <1>3 DEF OffsetInv

AloneAll == TypeInv /\ FreshInv /\ AloneInv /\ OffsetInv /\ HandleInv

(* Requests that are alone with their upload, and their offsets and open   *)
(* files: together these are inductive.                                    *)
LEMMA AloneAllStep ==
  ASSUME ~Overlap, AloneAll, [Next]_vars
  PROVE  AloneAll'
BY TypeStep, FreshStep, AloneStep, OffsetStep, HandleStep DEF AloneAll

(* They hold at first.                                                     *)
LEMMA AloneAllInit ==
  ASSUME Init
  PROVE  AloneAll
<1>1. TypeInv
  BY TypeInit DEF TypeInv
<1>2. FreshInv /\ AloneInv /\ OffsetInv /\ HandleInv
  BY IdleFields DEF Init, FreshInv, AloneInv, OffsetInv, HandleInv, Active, Final, IdleSweep
<1> QED
  BY <1>1, <1>2 DEF AloneAll

(* The offset of an upload never goes back: the handler stores where the   *)
(* one request of the upload stands, and no cancellation, expiry, failure  *)
(* or restart sets it. Only requests of one upload must not overlap.       *)
THEOREM OffsetNeverBack ==
  ASSUME ~Overlap
  PROVE  Spec => OffsetForward
<1>1. AloneAll /\ [Next]_vars => \A u \in Upload : upload'[u].received >= upload[u].received
  <2> SUFFICES ASSUME AloneAll, [Next]_vars, NEW u \in Upload
               PROVE  upload'[u].received >= upload[u].received
    OBVIOUS
  <2>1. upload[u].received \in Nat
    BY TypeParts, Constants DEF AloneAll, TypeInv, UploadType, UploadRow
  <2>2. ASSUME NEW c \in Patch, PatchRecord(c), patch[c].up = u
        PROVE  upload[u].received <= patch[c].pos /\ patch[c].pos \in Nat
    BY <2>2, TypeParts, Constants
       DEF PatchRecord, AloneAll, OffsetInv, TypeInv, PatchType, PatchState
  <2> QED
    BY <2>1, <2>2, ReceivedSteps DEF AloneAll
<1>2. Spec => []AloneAll
  BY AloneAllInit, AloneAllStep, PTL DEF Spec
<1> QED
  BY <1>1, <1>2, PTL DEF Spec, OffsetForward

-----------------------------------------------------------------------------
(* The temporary files *)

(* What removes the temporary file of u.                                   *)
Removed(u) ==
  \/ Cancel(u)
  \/ SweepRemove /\ u \in sweep.todo /\ sweep'.up = u
  \/ \E c \in Patch : patch[c].up = u /\ (PatchExceed(c) \/ FinalMove(c) \/ FinalUnlink(c))

(* A temporary file stays, is removed, begins empty, or is written to.     *)
LEMMA TemporarySteps ==
  ASSUME TypeInv, HandleInv, [Next]_vars, NEW u \in Upload
  PROVE  \/ disk'[u] = disk[u]
         \/ disk'[u] = NoFile /\ Removed(u)
         \/ disk'[u] = Empty(u) /\ \E p \in Path : PostCheck(u, p)
         \/ \E c \in Patch : PatchOpen(c) /\ patch[c].up = u /\ patch[c].pos = 0
                             /\ disk'[u] = Empty(u)
         \/ \E c \in Patch, n \in 1 .. MaxChunk, m \in 1 .. MaxChunk :
              /\ m <= n /\ PatchWrite(c, n, m) /\ patch[c].at = u /\ patch[c].up = u
              /\ disk'[u] = Written(disk[u], patch[c].pos, m, patch[c].gap)
<1>1. /\ DiskType /\ PatchType /\ JobType /\ JobsInv
      /\ \A c \in Patch : RequestFields(c) /\ patch[c] \in PatchState
  BY TypeParts DEF TypeInv, FieldsInv, PatchType
<1>2. u \in Location /\ u \notin Place
  BY Constants DEF Location
<1>3. ASSUME NEW l, disk' = [disk EXCEPT ![l] = NoFile]
      PROVE  disk'[u] = disk[u] \/ (l = u /\ disk'[u] = NoFile)
  BY <1>1, <1>2, <1>3 DEF DiskType
<1>4. CASE UNCHANGED disk
  BY <1>4
<1>5. ASSUME NEW v \in Upload, Cancel(v)
      PROVE  disk'[u] = disk[u] \/ (disk'[u] = NoFile /\ Removed(u))
  <2>1. disk' = [disk EXCEPT ![v] = NoFile]
    BY <1>5 DEF Cancel, Remove
  <2>2. v = u => Removed(u)
    BY <1>5 DEF Removed
  <2> QED
    BY <1>3, <2>1, <2>2
<1>6. ASSUME NEW v \in Upload, NEW p \in Path, PostCheck(v, p)
      PROVE  disk'[u] = disk[u] \/ (disk'[u] = Empty(u) /\ PostCheck(u, p))
  BY <1>1, <1>2, <1>6 DEF PostCheck, DiskType
<1>7. ASSUME NEW c \in Patch, PatchOpen(c)
      PROVE  \/ disk'[u] = disk[u]
             \/ PatchOpen(c) /\ patch[c].up = u /\ patch[c].pos = 0 /\ disk'[u] = Empty(u)
  BY <1>1, <1>2, <1>7 DEF PatchOpen, DiskType
<1>8. ASSUME NEW c \in Patch, PatchExceed(c)
      PROVE  disk'[u] = disk[u] \/ (disk'[u] = NoFile /\ Removed(u))
  BY <1>3, <1>8 DEF PatchExceed, Removed
<1>9. ASSUME NEW c \in Patch, NEW n \in 1 .. MaxChunk, NEW m \in 1 .. MaxChunk, m <= n,
             PatchWrite(c, n, m)
      PROVE  \/ disk'[u] = disk[u]
             \/ /\ patch[c].at = u /\ patch[c].up = u
                /\ disk'[u] = Written(disk[u], patch[c].pos, m, patch[c].gap)
  <2>1. CASE patch[c].at = Nowhere
    BY <1>9, <2>1 DEF PatchWrite
  <2>2. CASE patch[c].at # Nowhere
    <3>1. patch[c].at = patch[c].up
      BY <2>2 DEF HandleInv
    <3>2. disk' = [disk EXCEPT ![patch[c].at] = Written(@, patch[c].pos, m, patch[c].gap)]
      BY <1>9, <2>2 DEF PatchWrite
    <3> QED
      BY <1>1, <1>2, <3>1, <3>2 DEF DiskType
  <2> QED
    BY <2>1, <2>2
<1>10. ASSUME NEW c \in Patch, FinalMove(c)
       PROVE  disk'[u] = disk[u] \/ (disk'[u] = NoFile /\ Removed(u))
  <2>1. patch[c].place \in Place
    BY <1>1, <1>10 DEF FinalMove, RequestFields, PatchState, Placed
  <2>2. \/ disk' = disk \/ disk' = [disk EXCEPT ![patch[c].place] = disk[patch[c].up]]
        \/ disk' = [disk EXCEPT ![patch[c].place] = disk[patch[c].up], ![patch[c].up] = NoFile]
    BY <1>10 DEF FinalMove
  <2>3. disk'[u] = disk[u] \/ (patch[c].up = u /\ disk'[u] = NoFile)
    BY <1>1, <1>2, <2>1, <2>2 DEF DiskType
  <2> QED
    BY <1>10, <2>3 DEF Removed
<1>11. ASSUME NEW c \in Patch, FinalUnlink(c)
       PROVE  disk'[u] = disk[u] \/ (disk'[u] = NoFile /\ Removed(u))
  BY <1>3, <1>11 DEF FinalUnlink, Removed
<1>12. ASSUME NEW c \in Patch, FinalDrop(c)
       PROVE  disk'[u] = disk[u]
  <2>1. patch[c].place \in Place
    BY <1>1, <1>12 DEF FinalDrop, RequestFields, PatchState, Placed
  <2> QED
    BY <1>2, <1>3, <1>12, <2>1 DEF FinalDrop
<1>13. ASSUME NEW d \in Deleter, DeleteUnlink(d)
       PROVE  disk'[u] = disk[u]
  <2>1. deleter[d].row.place \in Place
    BY <1>1, <1>13 DEF DeleteUnlink, JobType, JobsInv, FileRow
  <2> QED
    BY <1>2, <1>3, <1>13, <2>1 DEF DeleteUnlink, Remove
<1>14. CASE FolderRemove
  BY <1>2, <1>14 DEF FolderRemove, Place
<1>15. CASE SweepRemove
  <2>1. PICK v \in sweep.todo : Remove(v) /\ sweep' = [sweep EXCEPT !.pc = "mark", !.up = v]
    BY <1>15 DEF SweepRemove
  <2>2. sweep'.up = v
    BY <1>1, <2>1 DEF JobType
  <2> QED
    BY <1>3, <1>15, <2>1, <2>2 DEF Remove, Removed
<1> QED
  BY <1>4, <1>5, <1>6, <1>7, <1>8, <1>9, <1>10, <1>11, <1>12, <1>13, <1>14, <1>15, DiskSteps
     DEF Writes

(* What is removed has a row, and is cancelled, late, or received in full. *)
LEMMA RemovedWhy ==
  ASSUME AloneAll, [Next]_vars, NEW u \in Upload, Removed(u)
  PROVE  /\ upload[u].status # "none"
         /\ u \in late \cup dropped' \/ upload[u].received = Size
<1>1. CASE Cancel(u)
  BY <1>1 DEF Cancel, Row
<1>2. CASE SweepRemove /\ u \in sweep.todo
  BY <1>2 DEF AloneAll, FreshInv
<1>3. ASSUME NEW c \in Patch, patch[c].up = u, PatchExceed(c)
      PROVE  upload[u].status # "none" /\ u \in dropped'
  BY <1>3 DEF PatchExceed, AloneAll, AloneInv, Active
<1>4. ASSUME NEW c \in Patch, patch[c].up = u, FinalMove(c) \/ FinalUnlink(c)
      PROVE  upload[u].status # "none" /\ upload[u].received = Size
  BY <1>4 DEF FinalMove, FinalUnlink, AloneAll, AloneInv, OffsetInv, Active, Final
<1> QED
  BY <1>1, <1>2, <1>3, <1>4 DEF Removed

(* Nobody but its own request touches the file of an upload in work, other *)
(* than to remove it.                                                      *)
LEMMA OwnFile ==
  ASSUME AloneAll, [Next]_vars, NEW c \in Patch, Active(c), ~Works(c)
  PROVE  disk'[patch[c].up] \in {disk[patch[c].up], NoFile}
<1> DEFINE u == patch[c].up
<1>1. u \in Upload /\ upload[u].status # "none"
  BY DEF AloneAll, AloneInv, TypeInv, FieldsInv, RequestFields
<1>2. ASSUME NEW d \in Patch, patch[d].up = u, PatchOpen(d) \/ Writes(d)
      PROVE  FALSE
  <2>1. d = c
    BY <1>2 DEF AloneAll, AloneInv, PatchOpen, Writes, PatchWrite, Active
  <2> QED
    BY <1>2, <2>1 DEF Works, Receive, Writes
<1>3. ASSUME NEW p \in Path, PostCheck(u, p)
      PROVE  FALSE
  BY <1>1, <1>3 DEF PostCheck
<1> QED
  BY <1>1, <1>2, <1>3, TemporarySteps DEF AloneAll, Writes

(* What the file of an upload holds after a write.                         *)
LEMMA WriteHolds ==
  ASSUME ~ShortWrites, TypeInv, NEW c \in Patch, RequestBytes(c),
         NEW n \in 1 .. MaxChunk, NEW m \in 1 .. MaxChunk, m <= n, PatchWrite(c, n, m),
         NEW u \in Upload, patch[c].at = u, patch[c].up = u,
         disk'[u] = Written(disk[u], patch[c].pos, m, patch[c].gap)
  PROVE  /\ disk[u] # NoFile /\ disk'[u] # NoFile /\ m = n /\ ~patch[c].gap
         /\ disk[u].good \subseteq disk'[u].good
         /\ (0 .. patch[c].pos + m - 1) \cap Byte \subseteq disk'[u].good
<1>1. DiskType /\ patch[c] \in PatchState /\ OpenInv /\ u \in Location /\ u # Nowhere
  BY TypeParts, Constants DEF TypeInv, FieldsInv, PatchType, Location
<1>2. disk[u] # NoFile
  BY <1>1 DEF OpenInv
<1>3. disk[u] \in File /\ patch[c].pos \in Nat /\ m \in Nat /\ patch[c].gap \in BOOLEAN
      /\ patch[c].pos + m <= Size + MaxChunk /\ m = n /\ patch[c].pc = "write"
  BY <1>1, <1>2, Constants DEF DiskType, PatchState, PatchWrite
<1>4. ~patch[c].gap /\ (0 .. patch[c].pos - 1) \cap Byte \subseteq disk[u].good
  BY <1>2, <1>3 DEF RequestBytes, Holds
<1>5. /\ disk'[u] \in File
      /\ disk'[u].good = disk[u].good \cup ((patch[c].pos .. patch[c].pos + m - 1) \cap Byte)
  BY <1>3, <1>4, WrittenFile
<1>6. (0 .. patch[c].pos + m - 1) \cap Byte \subseteq disk'[u].good
  BY <1>3, <1>4, <1>5
<1> QED
  BY <1>2, <1>3, <1>4, <1>5, <1>6, Constants

(* What a file holds it keeps, unless it is emptied or removed.            *)
LEMMA HoldsOn ==
  ASSUME ~ShortWrites, AloneAll, BytesInv, [Next]_vars, NEW u \in Upload, NEW k \in Nat,
         Holds(u, k),
         \A c \in Patch : PatchOpen(c) /\ patch[c].up = u /\ patch[c].pos = 0 => k = 0,
         \A p \in Path : PostCheck(u, p) => k = 0
  PROVE  Holds(u, k)'
<1>1. CASE disk'[u] \in {disk[u], NoFile}
  BY <1>1 DEF Holds
<1>2. CASE disk'[u] = Empty(u) /\ k = 0
  BY <1>2 DEF Holds
<1>3. ASSUME NEW c \in Patch, NEW n \in 1 .. MaxChunk, NEW m \in 1 .. MaxChunk, m <= n,
             PatchWrite(c, n, m), patch[c].at = u, patch[c].up = u,
             disk'[u] = Written(disk[u], patch[c].pos, m, patch[c].gap)
      PROVE  Holds(u, k)'
  <2>1. RequestBytes(c) /\ TypeInv
    BY DEF BytesInv, AloneAll
  <2>2. disk[u] # NoFile /\ disk[u].good \subseteq disk'[u].good
    <3>1. disk[u] # NoFile
      BY <1>3, <2>1, WriteHolds
    <3>2. disk[u].good \subseteq disk'[u].good
      BY <1>3, <2>1, WriteHolds
    <3> QED
      BY <3>1, <3>2
  <2> QED
    BY <2>2 DEF Holds
<1> QED
  BY <1>1, <1>2, <1>3, TemporarySteps DEF AloneAll

(* The bytes before the offset stay in the file.                           *)
LEMMA BytesStep ==
  ASSUME ~Overlap, ~ShortWrites, AloneAll, BytesInv, [Next]_vars
  PROVE  BytesInv'
<1>1. /\ TypeInv /\ UploadType /\ DiskType /\ PatchType /\ AloneInv /\ HandleInv /\ OffsetInv
      /\ FreshInv /\ OpenInv
      /\ \A c \in Patch : RequestFields(c) /\ patch[c] \in PatchState /\ RequestBytes(c)
  BY TypeParts DEF AloneAll, TypeInv, FieldsInv, PatchType, BytesInv
<1>2. /\ \A c \in Patch : patch[c].pos \in Nat
      /\ \A u \in Upload : upload[u].received \in Nat /\ Holds(u, upload[u].received)
  BY <1>1, Constants DEF PatchState, UploadType, UploadRow, BytesInv
<1>3. ASSUME NEW u \in Upload
      PROVE  Holds(u, upload[u].received)'
  <2>1. ASSUME NEW c \in Patch, PatchRecord(c), patch[c].up = u, upload'[u].received = patch[c].pos
        PROVE  Holds(u, upload[u].received)'
    <3>1. disk' = disk /\ Holds(u, patch[c].pos)
      BY <1>1, <2>1 DEF PatchRecord, RequestBytes
    <3> QED
      BY <2>1, <3>1 DEF Holds
  <2>2. CASE upload'[u].received = upload[u].received
    <3>1. Holds(u, upload[u].received)
      BY <1>2
    <3>2. \A c \in Patch : PatchOpen(c) /\ patch[c].up = u /\ patch[c].pos = 0
            => upload[u].received = 0
      BY <1>1 DEF OffsetInv, PatchOpen
    <3>3. \A p \in Path : PostCheck(u, p) => upload[u].received = 0
      BY <1>1 DEF PostCheck, FreshInv
    <3>4. \A k \in Nat : k = upload[u].received => Holds(u, k)'
      BY <3>1, <3>2, <3>3, HoldsOn
    <3>5. upload[u].received \in Nat
      BY <1>2
    <3> QED
      BY <2>2, <3>4, <3>5 DEF Holds
  <2> QED
    BY <1>1, <2>1, <2>2, ReceivedSteps
<1>4. ASSUME NEW c \in Patch
      PROVE  RequestBytes(c)'
  <2>1. CASE patch'[c].pc \notin {"open", "write", "record"}
    BY <2>1 DEF RequestBytes
  <2>2. ASSUME NEW u \in Upload, PatchCheck(c, u)
        PROVE  RequestBytes(c)'
    <3>1. patch'[c].pc \in {"late", "open"} /\ patch'[c].gap = FALSE
      BY <1>1, <2>2, CheckFields
    <3> QED
      BY <3>1 DEF RequestBytes
  <2>3. CASE ~Works(c) /\ Waits(c) /\ patch'[c].pc \in {"open", "write", "record"}
    <3> DEFINE u == patch[c].up
    <3>1. u \in Upload /\ Active(c) /\ Active(c)' /\ patch'[c].up = u
      BY <1>1, <2>3 DEF Waits, Active, RequestFields
    <3>2. disk'[u] \in {disk[u], NoFile}
      BY <2>3, <3>1, OwnFile
    <3>3. patch'[c].at = patch[c].at \/ disk'[u] = NoFile
      BY <1>1, <2>3, <3>1, HandleSteps
    <3>4. RequestBytes(c)
      BY <1>1
    <3>5. CASE disk'[u] = NoFile
      BY <2>3, <3>1, <3>4, <3>5 DEF Waits, RequestBytes, Holds
    <3>6. CASE disk'[u] = disk[u] /\ patch'[c].at = patch[c].at
      BY <2>3, <3>1, <3>4, <3>6 DEF Waits, RequestBytes, Holds
    <3> QED
      BY <3>2, <3>3, <3>5, <3>6
  <2>4. CASE Works(c) /\ patch'[c].pc \in {"open", "write", "record"}
    <3> DEFINE u == patch[c].up
    <3>1. u \in Upload /\ Active(c) /\ patch'[c].up = u /\ RequestBytes(c) /\ u \in Location
      BY <1>1, <2>4, WorkKeeps DEF RequestFields, Location
    <3>2. \/ patch[c].pc = "open" /\ PatchOpen(c) /\ patch'[c].pc = "write"
          \/ Writes(c)
          \/ PatchClose(c) /\ patch'[c].pc = "record"
      <4>1. /\ patch'[c].pc # "open" /\ patch[c].pc \in {"open", "write"}
            /\ patch'[c].pc = "record" => patch[c].pc = "write"
        BY <1>1, <2>4, WorkPositions
      <4>2. PatchOpen(c) \/ Writes(c) \/ PatchAbort(c) \/ PatchClose(c)
        BY <2>4, <4>1
           DEF Works, Receive, Writes, PatchLate, PatchExceed, PatchRefuse, PatchRecord, Finalize,
               FinalRead, FinalChecksum, FinalMove, FinalVerify, FinalUnlink, FinalInsert,
               FinalDrop
      <4>3. ~PatchAbort(c)
        BY <1>1, <2>4, EndFields DEF PatchAbort, Idle
      <4>4. PatchClose(c) => patch'[c].pc = "record"
        BY <1>1, <2>4, CloseFields
      <4>5. PatchOpen(c) => patch[c].pc = "open"
        BY DEF PatchOpen
      <4> QED
        BY <2>4, <4>1, <4>2, <4>3, <4>4, <4>5
    <3>3. CASE patch[c].pc = "open" /\ PatchOpen(c) /\ patch'[c].pc = "write"
      <4>1. ~(patch[c].pos > 0 /\ disk[u] = NoFile)
        BY <1>1, <3>3, EndFields DEF PatchOpen, Idle
      <4>2. SamePosition(c) /\ patch'[c].at = u /\ u # Nowhere
        BY <1>1, <3>1, <3>3, <4>1, OpenFields, Constants
      <4>3. patch[c].pos = upload[u].received /\ ~patch[c].gap
        BY <1>1, <3>3 DEF OffsetInv, RequestBytes
      <4>4. CASE patch[c].pos = 0
        <5>1. Holds(u, 0)'
          BY DEF Holds
        <5> QED
          BY <3>1, <3>3, <4>2, <4>3, <4>4, <5>1 DEF RequestBytes, SamePosition
      <4>5. CASE patch[c].pos # 0
        <5>1. disk'[u] = disk[u] /\ Holds(u, patch[c].pos)
          BY <1>2, <3>1, <3>3, <4>1, <4>3, <4>5 DEF PatchOpen
        <5> QED
          BY <3>1, <3>3, <4>2, <4>3, <5>1 DEF RequestBytes, SamePosition, Holds
      <4> QED
        BY <4>4, <4>5
    <3>4. CASE Writes(c)
      <4>1. PICK n \in 1 .. MaxChunk, m \in 1 .. MaxChunk : m <= n /\ PatchWrite(c, n, m)
        BY <3>4 DEF Writes
      <4>2. /\ patch'[c].pc = "write" /\ patch'[c].at = patch[c].at
            /\ patch'[c].pos = patch[c].pos + m /\ patch'[c].gap = (patch[c].gap \/ m < n)
        BY <1>1, <4>1, WriteFields
      <4>3. m = n /\ patch[c].pc = "write" /\ ~patch[c].gap
        BY <3>1, <4>1 DEF PatchWrite, RequestBytes
      <4>4. ~patch'[c].gap
        <5>1. ~(m < n)
          BY <4>3, Constants
        <5> QED
          BY <4>2, <4>3, <5>1, Zenon
      <4>5. CASE patch[c].at = Nowhere
        <5>1. disk'[u] = NoFile
          BY <3>1, <4>1, <4>3, <4>5 DEF PatchWrite, RequestBytes
        <5> QED
          BY <3>1, <4>2, <4>4, <5>1 DEF RequestBytes, Holds
      <4>6. CASE patch[c].at # Nowhere
        <5>1. patch[c].at = u
          BY <1>1, <4>6 DEF HandleInv
        <5>2. disk'[u] = Written(disk[u], patch[c].pos, m, patch[c].gap)
          BY <1>1, <3>1, <4>1, <4>6, <5>1 DEF PatchWrite, DiskType
        <5>3. (0 .. patch[c].pos + m - 1) \cap Byte \subseteq disk'[u].good
          BY <1>1, <3>1, <4>1, <5>1, <5>2, WriteHolds
        <5>4. Holds(patch[c].up, patch[c].pos)'
          <6>1. patch'[c].pos - 1 = patch[c].pos + m - 1
            BY <1>2, <4>2, Constants
          <6> QED
            BY <3>1, <4>2, <5>3, <6>1 DEF Holds
        <5> QED
          BY <3>1, <4>2, <4>4, <4>6, <5>4 DEF RequestBytes
      <4> QED
        BY <4>5, <4>6
    <3>5. CASE PatchClose(c) /\ patch'[c].pc = "record"
      <4>1. patch'[c].pos = patch[c].pos /\ disk' = disk /\ patch[c].pc = "write"
        BY <1>1, <3>5, CloseFields DEF PatchClose
      <4> QED
        BY <3>1, <3>5, <4>1 DEF RequestBytes, Holds
    <3> QED
      BY <3>2, <3>3, <3>4, <3>5
  <2> QED
    BY <1>1, <2>1, <2>2, <2>3, <2>4, RequestSteps
<1> QED
  BY <1>3, <1>4 DEF BytesInv

(* The file of an upload that can go on is there.                          *)
LEMMA ThereStep ==
  ASSUME AloneAll, ThereInv, [Next]_vars
  PROVE  ThereInv'
<1>1. /\ TypeInv /\ UploadType /\ EnvType /\ DiskType /\ JobType /\ HandleInv /\ OpenInv
      /\ PostedInv /\ \A c \in Patch : RequestFields(c) /\ patch[c].pos \in Nat
  BY TypeParts, Constants DEF AloneAll, TypeInv, FieldsInv, PatchType, PatchState
<1>2. late \subseteq late' /\ dropped \subseteq dropped'
  <2>1. late \subseteq late'
    BY LateSteps DEF Expire
  <2>2. dropped \subseteq dropped'
    BY DroppedSteps DEF Cancel, PatchExceed
  <2> QED
    BY <2>1, <2>2
<1>3. ASSUME NEW u \in Upload, disk[u] # NoFile, ~Removed(u)
      PROVE  disk'[u] # NoFile
  <2>1. ASSUME NEW c \in Patch, patch[c].at = u, NEW m \in 1 .. MaxChunk, NEW n \in 1 .. MaxChunk,
               PatchWrite(c, n, m), m <= n,
               disk'[u] = Written(disk[u], patch[c].pos, m, patch[c].gap)
        PROVE  disk'[u] # NoFile
    <3>1. disk[u] \in File /\ patch[c].gap \in BOOLEAN
      BY <1>1, <1>3, TypeParts DEF DiskType, Location, TypeInv, PatchType, PatchState
    <3>2. m \in Nat /\ patch[c].pos + m <= Size + MaxChunk
      BY <1>1, <2>1, Constants DEF PatchWrite
    <3> QED
      BY <1>1, <2>1, <3>1, <3>2, WrittenFile, Constants
  <2> QED
    BY <1>1, <1>3, <2>1, TemporarySteps, FileKinds, Constants
<1>4. ASSUME NEW u \in Upload, post'[u] # NoPath
      PROVE  disk'[u] # NoFile
  <2>1. ASSUME NEW p \in Path, PostCheck(u, p)
        PROVE  disk'[u] # NoFile
    BY <1>1, <2>1, FileKinds, Constants DEF PostCheck, DiskType, Location
  <2>2. CASE post'[u] = post[u]
    <3>1. disk[u] # NoFile /\ upload[u].status = "none"
      BY <1>1, <1>4, <2>2 DEF ThereInv, PostedInv
    <3> QED
      BY <1>3, <3>1, RemovedWhy
  <2>3. post'[u] = post[u] \/ \E p \in Path : PostCheck(u, p)
    BY <1>1, <1>4, PostSteps DEF PostCheck, PostInsert, Restart, JobType
  <2> QED
    BY <2>1, <2>2, <2>3
<1>5. ASSUME NEW u \in Upload, upload'[u].status = "in_progress", u \notin late' \cup dropped',
             upload'[u].received < Size
      PROVE  disk'[u] # NoFile
  <2>1. CASE PostInsert(u)
    BY <1>1, <2>1 DEF PostInsert, ThereInv
  <2>2. CASE upload[u].status = "in_progress"
    <3>1. u \notin late \cup dropped
      BY <1>2, <1>5
    <3>2. upload[u].received <= upload'[u].received /\ upload[u].received \in Nat
          /\ upload'[u].received \in Nat
      <4>1. \A c \in Patch : PatchRecord(c) /\ patch[c].up = u => upload[u].received <= patch[c].pos
        BY DEF AloneAll, OffsetInv, PatchRecord
      <4>2. upload[u].received \in Nat
        BY <1>1, Constants DEF UploadType, UploadRow
      <4> QED
        BY <1>1, <4>1, <4>2, ReceivedSteps
    <3>3. upload[u].received < Size
      BY <1>5, <3>2, Constants
    <3>4. disk[u] # NoFile
      BY <2>2, <3>1, <3>3 DEF ThereInv
    <3>5. ~Removed(u)
      BY <1>5, <3>1, <3>3, RemovedWhy, Constants
    <3> QED
      BY <1>3, <3>4, <3>5
  <2>3. PostInsert(u) \/ upload[u].status = "in_progress"
    BY <1>1, <1>5, StatusSteps
  <2> QED
    BY <2>1, <2>2, <2>3
<1> QED
  BY <1>4, <1>5 DEF ThereInv

Held == AloneAll /\ BytesInv /\ ThereInv

(* The bytes before the offset are there at first.                         *)
LEMMA HeldInit ==
  ASSUME Init
  PROVE  Held
<1>1. BytesInv /\ ThereInv
  <2>1. \A u \in Upload : disk[u] = NoFile /\ post[u] = NoPath /\ upload[u].status = "none"
    BY DEF Init, Location
  <2>2. \A c \in Patch : patch[c].pc = "idle"
    BY IdleFields DEF Init
  <2> QED
    BY <2>1, <2>2 DEF BytesInv, ThereInv, Holds, RequestBytes
<1> QED
  BY <1>1, AloneAllInit DEF Held

(* They stay there.                                                        *)
LEMMA HeldStep ==
  ASSUME ~Overlap, ~ShortWrites, Held, [Next]_vars
  PROVE  Held'
BY AloneAllStep, BytesStep, ThereStep DEF Held

(* A client may resume where the server says: the bytes before             *)
(* bytesReceived are in the temporary file of every upload that goes on,   *)
(* because the file is written before the position is stored, also across  *)
(* restarts. Requests of one upload must not overlap, and a write must     *)
(* write what it was given.                                                *)
THEOREM ResumesWhereTold ==
  ASSUME ~Overlap, ~ShortWrites
  PROVE  Spec => []ResumePoint
<1>1. Spec => []Held
  BY HeldInit, HeldStep, PTL DEF Spec
<1>2. Held => ResumePoint
  <2> SUFFICES ASSUME Held, NEW u \in Upload, upload[u].status = "in_progress",
                      u \notin late \cup dropped, upload[u].received < Size
               PROVE  disk[u] # NoFile /\ 0 .. upload[u].received - 1 \subseteq disk[u].good
    BY DEF ResumePoint
  <2>1. disk[u] # NoFile
    BY DEF Held, ThereInv
  <2>2. upload[u].received \in 0 .. Size
    BY TypeParts DEF Held, AloneAll, TypeInv, UploadType, UploadRow
  <2>3. (0 .. upload[u].received - 1) \cap Byte \subseteq disk[u].good
    BY <2>1 DEF Held, BytesInv, Holds
  <2>4. 0 .. upload[u].received - 1 \subseteq Byte
    BY <2>2, Constants DEF Byte
  <2> QED
    BY <2>1, <2>3, <2>4
<1> QED
  BY <1>1, <1>2, PTL

-----------------------------------------------------------------------------
(* The places of files *)

(* When a request gets a place and a checksum, and when the file is there. *)
LEMMA WorkPlaces ==
  ASSUME TypeInv, [Next]_vars, NEW c \in Patch, Works(c), patch'[c].pc # "idle"
  PROVE  /\ \/ /\ FinalChecksum(c) /\ patch'[c].pc = "move" /\ disk[patch[c].up] # NoFile
               /\ patch'[c].checksum = disk[patch[c].up]
               /\ patch'[c].place \in {upload[patch[c].up].path} \cup {h \in FileId : Fresh(h)}
            \/ SameJob(c) /\ (patch'[c].pc \in Placed <=> patch[c].pc \in Placed)
         /\ patch'[c].pc \in Moved =>
              \/ patch[c].pc \in Moved
              \/ /\ FinalMove(c) /\ disk[patch[c].up] # NoFile
                 /\ disk'[patch[c].place] = disk[patch[c].up]
<1>1. /\ PatchType /\ DiskType /\ RequestFields(c) /\ patch[c] \in PatchState /\ RowsInv
      /\ UploadType
  BY TypeParts DEF TypeInv, FieldsInv, PatchType
<1>2. Active(c) /\ patch[c].up \in Upload /\ patch[c].up \in Location
  BY <1>1, WorkKeeps DEF RequestFields, Location
<1>3. CASE Receive(c)
  <2>1. CASE PatchLate(c) \/ PatchAbort(c) \/ PatchRefuse(c)
    BY <1>1, <2>1, EndFields DEF PatchLate, PatchAbort, PatchRefuse, Idle
  <2>2. CASE PatchOpen(c)
    <3>1. CASE patch[c].pos > 0 /\ disk[patch[c].up] = NoFile
      BY <1>1, <1>2, <2>2, <3>1, EndFields DEF PatchOpen, Idle
    <3>2. CASE ~(patch[c].pos > 0 /\ disk[patch[c].up] = NoFile)
      BY <1>1, <1>2, <2>2, <3>2, OpenFields DEF PatchOpen, Placed, Moved
    <3> QED
      BY <3>1, <3>2
  <2>3. CASE Writes(c)
    <3>1. patch[c].pc = "write" /\ patch'[c].pc = "write" /\ SameJob(c)
      BY <1>1, <2>3, WriteFields DEF Writes, PatchWrite
    <3> QED
      BY <3>1 DEF Placed, Moved
  <2>4. CASE PatchClose(c)
    <3>1. patch[c].pc = "write" /\ patch'[c].pc \in {"exceed", "record"} /\ SameJob(c)
      BY <1>1, <2>4, CloseFields DEF PatchClose
    <3> QED
      BY <3>1 DEF Placed, Moved
  <2>5. CASE PatchExceed(c)
    <3>1. patch[c].pc = "exceed" /\ patch'[c].pc = "refuse" /\ SameJob(c)
      BY <1>1, <1>2, <2>5, RemoveFields DEF PatchExceed
    <3> QED
      BY <3>1 DEF Placed, Moved
  <2>6. CASE PatchRecord(c)
    <3>1. CASE patch[c].pos = Size
      <4>1. patch'[c].pc = "read" /\ SameJob(c) /\ patch[c].pc = "record"
        BY <1>1, <2>6, <3>1, GotoFields DEF PatchRecord
      <4> QED
        BY <4>1 DEF Placed, Moved
    <3>2. CASE patch[c].pos # Size
      BY <1>1, <2>6, <3>2, EndFields DEF PatchRecord, Idle
    <3> QED
      BY <3>1, <3>2
  <2> QED
    BY <1>3, <2>1, <2>2, <2>3, <2>4, <2>5, <2>6 DEF Receive, Writes
<1>4. CASE Finalize(c)
  <2>1. CASE FinalRead(c)
    <3>1. Goto(c, "checksum") /\ patch[c].pc = "read"
      BY <1>1, <2>1, EndFields DEF FinalRead, Idle
    <3> QED
      BY <1>1, <3>1, GotoFields DEF Placed, Moved
  <2>2. CASE FinalVerify(c) \/ FinalInsert(c)
    <3>1. patch[c].pc \in Moved /\ patch[c].pc \in Placed
      BY <2>2 DEF FinalVerify, FinalInsert, Moved, Placed
    <3>2. Goto(c, "unlink") \/ Goto(c, "drop")
      BY <1>1, <2>2, EndFields DEF FinalVerify, FinalInsert, Idle
    <3>3. SameJob(c) /\ patch'[c].pc \in {"unlink", "drop"}
      BY <1>1, <3>2, GotoFields
    <3> QED
      BY <3>1, <3>3 DEF Placed
  <2>3. CASE FinalChecksum(c)
    <3> DEFINE u == patch[c].up
    <3>1. CASE disk[u] = NoFile
      BY <1>1, <1>2, <2>3, <3>1, EndFields DEF FinalChecksum, Idle
    <3>2. CASE disk[u] # NoFile
      <4>1. PICK f \in File : f = disk[u]
        BY <1>1, <1>2, <3>2 DEF DiskType
      <4>2. upload[u].path \in Place
        BY <1>1, <1>2 DEF RequestFields, RowsInv, Place
      <4>3. PICK place \in Place :
              /\ place \in {upload[u].path} \cup {h \in FileId : Fresh(h)}
              /\ Chosen(c, place, f)
        BY <2>3, <3>2, <4>1, <4>2 DEF FinalChecksum, Place, Chosen
      <4>4. Chosen(c, place, f)
        BY <4>3
      <4>5. patch'[c].pc = "move" /\ patch'[c].place = place /\ patch'[c].checksum = f
        BY <1>1, <4>4, ChecksumFields
      <4> QED
        BY <2>3, <3>2, <4>1, <4>3, <4>5 DEF Moved
    <3> QED
      BY <3>1, <3>2
  <2>4. CASE FinalMove(c)
    <3>1. /\ patch[c].place \in Location /\ patch[c].place # patch[c].up
          /\ patch[c].pc = "move" /\ patch[c].pc \in Placed
      BY <1>1, <1>2, <2>4, Constants DEF FinalMove, RequestFields, PatchState, Placed, Location
    <3>2. CASE End(c)
      BY <1>1, <3>2, EndFields DEF Idle
    <3>3. CASE /\ disk[patch[c].up] # NoFile /\ patch' = [patch EXCEPT ![c].pc = "verify"]
               /\ disk' = [disk EXCEPT ![patch[c].place] = disk[patch[c].up]]
      <4>1. patch'[c].pc = "verify" /\ SameJob(c)
        BY <1>1, <3>3, CopyFields
      <4>2. disk'[patch[c].place] = disk[patch[c].up]
        BY <1>1, <3>1, <3>3 DEF DiskType
      <4> QED
        BY <2>4, <3>1, <3>3, <4>1, <4>2 DEF Placed
    <3>4. CASE /\ disk[patch[c].up] # NoFile
               /\ patch' = [Carried(Closed(patch, patch[c].place), patch[c].up, patch[c].place)
                              EXCEPT ![c].pc = "insert"]
               /\ disk' = [disk EXCEPT ![patch[c].place] = disk[patch[c].up],
                                       ![patch[c].up] = NoFile]
      <4>1. patch'[c].pc = "insert" /\ SameJob(c)
        BY <1>1, <1>2, <3>1, <3>4, RenameFields
      <4>2. disk'[patch[c].place] = disk[patch[c].up]
        BY <1>1, <1>2, <3>1, <3>4 DEF DiskType
      <4> QED
        BY <2>4, <3>1, <3>4, <4>1, <4>2 DEF Placed
    <3> QED
      BY <2>4, <3>2, <3>3, <3>4 DEF FinalMove
  <2>5. CASE FinalUnlink(c)
    <3>1. patch[c].pc = "unlink" /\ patch'[c].pc = "insert" /\ SameJob(c)
      BY <1>1, <1>2, <2>5, RemoveFields DEF FinalUnlink
    <3> QED
      BY <3>1 DEF Placed, Moved
  <2>6. CASE FinalDrop(c)
    <3>1. patch[c].place \in Location
      BY <1>1, <2>6 DEF FinalDrop, RequestFields, PatchState, Placed, Location
    <3> QED
      BY <1>1, <2>6, <3>1, DropFields DEF FinalDrop, Idle
  <2> QED
    BY <1>4, <2>1, <2>2, <2>3, <2>4, <2>5, <2>6 DEF Finalize
<1> QED
  BY <1>3, <1>4 DEF Works

(* What is at a place stays, is moved there, or is removed.                *)
LEMMA PlaceSteps ==
  ASSUME TypeInv, HandleInv, [Next]_vars, NEW l \in Place
  PROVE  \/ disk'[l] = disk[l]
         \/ \E c \in Patch : FinalMove(c) /\ patch[c].place = l /\ disk[patch[c].up] # NoFile
                             /\ disk'[l] = disk[patch[c].up]
         \/ \E c \in Patch : FinalDrop(c) /\ patch[c].place = l /\ disk'[l] = NoFile
         \/ \E d \in Deleter : DeleteUnlink(d) /\ deleter[d].row.place = l /\ disk'[l] = NoFile
         \/ FolderRemove /\ l \in Path /\ disk'[l] = NoFile
<1>1. /\ DiskType /\ PatchType /\ JobType /\ JobsInv
      /\ \A c \in Patch : RequestFields(c) /\ patch[c] \in PatchState
  BY TypeParts DEF TypeInv, FieldsInv, PatchType
<1>2. l \in Location /\ l \notin Upload
  BY Constants DEF Location
<1>3. ASSUME NEW k, disk' = [disk EXCEPT ![k] = NoFile]
      PROVE  disk'[l] = disk[l] \/ (k = l /\ disk'[l] = NoFile)
  BY <1>1, <1>2, <1>3 DEF DiskType
<1>4. ASSUME NEW u \in Upload, Cancel(u) \/ \E p \in Path : PostCheck(u, p)
      PROVE  disk'[l] = disk[l]
  BY <1>1, <1>2, <1>4 DEF Cancel, Remove, PostCheck, DiskType
<1>5. ASSUME NEW c \in Patch, PatchOpen(c) \/ PatchExceed(c) \/ FinalUnlink(c)
      PROVE  disk'[l] = disk[l]
  <2>1. patch[c].up \in Upload
    BY <1>1, <1>5 DEF PatchOpen, PatchExceed, FinalUnlink, RequestFields, Active
  <2> QED
    BY <1>1, <1>2, <1>5, <2>1 DEF PatchOpen, PatchExceed, FinalUnlink, DiskType
<1>6. ASSUME NEW c \in Patch, Writes(c)
      PROVE  disk'[l] = disk[l]
  <2>1. PICK n \in 1 .. MaxChunk, m \in 1 .. MaxChunk : PatchWrite(c, n, m)
    BY <1>6 DEF Writes
  <2>2. CASE patch[c].at = Nowhere
    BY <2>1, <2>2 DEF PatchWrite
  <2>3. CASE patch[c].at # Nowhere
    <3>1. patch[c].at \in Upload
      BY <1>1, <2>3 DEF HandleInv, RequestFields, Active
    <3> QED
      BY <1>1, <1>2, <2>1, <2>3, <3>1 DEF PatchWrite, DiskType
  <2> QED
    BY <2>2, <2>3
<1>7. ASSUME NEW c \in Patch, FinalMove(c)
      PROVE  \/ disk'[l] = disk[l]
             \/ FinalMove(c) /\ patch[c].place = l /\ disk[patch[c].up] # NoFile
                /\ disk'[l] = disk[patch[c].up]
  <2>1. patch[c].up \in Upload
    BY <1>1, <1>7 DEF FinalMove, RequestFields, Active
  <2>2. \/ disk' = disk
        \/ /\ disk[patch[c].up] # NoFile
           /\ \/ disk' = [disk EXCEPT ![patch[c].place] = disk[patch[c].up]]
              \/ disk' = [disk EXCEPT ![patch[c].place] = disk[patch[c].up],
                                      ![patch[c].up] = NoFile]
    BY <1>7 DEF FinalMove
  <2>3. disk'[l] = disk[l] \/ (patch[c].place = l /\ disk[patch[c].up] # NoFile
                               /\ disk'[l] = disk[patch[c].up])
    BY <1>1, <1>2, <2>1, <2>2 DEF DiskType
  <2> QED
    BY <1>7, <2>3
<1>8. ASSUME NEW c \in Patch, FinalDrop(c)
      PROVE  disk'[l] = disk[l] \/ (patch[c].place = l /\ disk'[l] = NoFile)
  BY <1>3, <1>8 DEF FinalDrop
<1>9. ASSUME NEW d \in Deleter, DeleteUnlink(d)
      PROVE  disk'[l] = disk[l] \/ (deleter[d].row.place = l /\ disk'[l] = NoFile)
  BY <1>3, <1>9 DEF DeleteUnlink, Remove
<1>10. CASE FolderRemove
  BY <1>2, <1>10 DEF FolderRemove
<1>11. CASE SweepRemove
  <2>1. PICK v \in sweep.todo : Remove(v)
    BY <1>11 DEF SweepRemove
  <2>2. v \in Upload
    BY <1>1 DEF JobType
  <2> QED
    BY <1>2, <1>3, <2>1, <2>2 DEF Remove
<1> QED
  BY <1>4, <1>5, <1>6, <1>7, <1>8, <1>9, <1>10, <1>11, DiskSteps

-----------------------------------------------------------------------------
(* A file that is received in full is whole *)

(* A file is as long as its bytes, and no longer than announced unless a   *)
(* request that wrote too much is still there to remove it.                *)
LEMMA LengthStep ==
  ASSUME ~Overlap, ~ShortWrites, ~ExcessAborts, Held, LengthInv, [Next]_vars
  PROVE  LengthInv'
<1>1. /\ TypeInv /\ AloneAll /\ BytesInv /\ AloneInv /\ HandleInv /\ PatchType /\ DiskType
      /\ OpenInv /\ FreshInv
      /\ \A c \in Patch : RequestFields(c) /\ patch[c] \in PatchState /\ RequestBytes(c)
  BY TypeParts DEF Held, AloneAll, TypeInv, FieldsInv, PatchType, BytesInv
<1>2. TypeInv' /\ DiskType' /\ PatchType'
  BY <1>1, TypeStep, TypeParts DEF TypeInv, TypeOK, DiskType, PatchType
<1>3. SUFFICES ASSUME NEW u \in Upload, disk'[u] # NoFile
               PROVE  /\ disk'[u].of = u /\ disk'[u].good \subseteq 0 .. disk'[u].len - 1
                      /\ disk'[u].len <= Size \/ \E c \in Patch : (Serves(c, u) /\ Excess(c))'
  BY <1>3 DEF LengthInv
(* A request that wrote too much goes on until it has removed the file.    *)
<1>4. ASSUME NEW c \in Patch, Serves(c, u), Excess(c), disk'[u] # NoFile
      PROVE  (Serves(c, u) /\ Excess(c))'
  <2>1. /\ patch[c].pc \in {"write", "exceed"} /\ patch[c].pos > Size /\ patch[c].up = u
        /\ patch[c].pos \in Nat /\ patch'[c].pos \in Nat
    BY <1>1, <1>2, <1>4, Constants DEF Serves, Excess, PatchState, PatchType
  <2>2. CASE Waits(c)
    BY <1>4, <2>1, <2>2 DEF Waits, Serves, Excess
  <2>3. CASE Works(c)
    <3>1. ~PatchAbort(c)
      BY <1>4 DEF PatchAbort
    <3>2. ~PatchExceed(c)
      <4>1. PatchExceed(c) => disk'[u] = NoFile
        BY <1>1, <2>1, Constants DEF PatchExceed, DiskType, Location
      <4> QED
        BY <1>4, <4>1
    <3>3. Writes(c) \/ PatchClose(c)
      BY <2>1, <2>3, <3>1, <3>2
         DEF Works, Receive, Writes, PatchLate, PatchOpen, PatchRefuse, PatchRecord, Finalize,
             FinalRead, FinalChecksum, FinalMove, FinalVerify, FinalUnlink, FinalInsert,
             FinalDrop
    <3>4. CASE Writes(c)
      <4>1. PICK m \in 1 .. MaxChunk : /\ patch'[c].pc = "write" /\ SameJob(c)
                                       /\ patch'[c].pos = patch[c].pos + m
        BY <1>1, <3>4, WriteFields DEF Writes
      <4>2. patch'[c].pos > Size
        BY <2>1, <4>1, Constants
      <4> QED
        BY <2>1, <4>1, <4>2 DEF Serves, Excess, SameJob
    <3>5. CASE PatchClose(c)
      <4>1. patch'[c].pc = "exceed" /\ SameJob(c) /\ patch'[c].pos = patch[c].pos
        BY <1>1, <2>1, <3>5, CloseFields
      <4> QED
        BY <2>1, <4>1 DEF Serves, Excess, SameJob
    <3> QED
      BY <3>3, <3>4, <3>5
  <2>4. ~\E v \in Upload : PatchCheck(c, v)
    BY <2>1 DEF PatchCheck
  <2>5. ~Restart
    BY <1>4 DEF Restart
  <2> QED
    BY <1>1, <2>2, <2>3, <2>4, <2>5, RequestSteps
<1>5. CASE disk'[u] = disk[u]
  BY <1>3, <1>4, <1>5 DEF LengthInv
<1>6. CASE disk'[u] = Empty(u)
  BY <1>6, FileKinds, Constants
<1>7. ASSUME NEW c \in Patch, NEW n \in 1 .. MaxChunk, NEW m \in 1 .. MaxChunk, m <= n,
             PatchWrite(c, n, m), patch[c].at = u, patch[c].up = u,
             disk'[u] = Written(disk[u], patch[c].pos, m, patch[c].gap)
      PROVE  /\ disk'[u].of = u /\ disk'[u].good \subseteq 0 .. disk'[u].len - 1
             /\ disk'[u].len <= Size \/ \E d \in Patch : (Serves(d, u) /\ Excess(d))'
  <2>1. disk[u] # NoFile /\ ~patch[c].gap
    BY <1>1, <1>7, WriteHolds
  <2>2. /\ disk[u] \in File /\ patch[c].pos \in Nat /\ m \in Nat /\ patch[c].gap \in BOOLEAN
        /\ patch[c].pos + m <= Size + MaxChunk /\ patch[c].pc = "write"
    BY <1>1, <1>7, <2>1, Constants DEF PatchWrite, DiskType, Location, PatchState
  <2>3. /\ disk'[u].of = disk[u].of
        /\ disk'[u].len = IF disk[u].len < patch[c].pos + m THEN patch[c].pos + m ELSE disk[u].len
        /\ disk'[u].good = disk[u].good \cup ((patch[c].pos .. patch[c].pos + m - 1) \cap Byte)
    BY <1>7, <2>1, <2>2, WrittenFile
  <2>4. disk[u].len \in Nat /\ disk[u].of = u /\ disk[u].good \subseteq 0 .. disk[u].len - 1
    BY <2>1, <2>2, Constants DEF File, LengthInv
  <2>5. disk'[u].good \subseteq 0 .. disk'[u].len - 1
    BY <2>2, <2>3, <2>4
  <2>6. CASE patch[c].pos + m > Size
    <3>1. patch'[c].pc = "write" /\ patch'[c].up = u /\ patch'[c].pos > Size
      BY <1>1, <1>7, <2>6, WriteFields DEF SameJob
    <3>2. (Serves(c, u) /\ Excess(c))'
      BY <3>1 DEF Serves, Excess
    <3> QED
      BY <2>3, <2>4, <2>5, <3>2
  <2>7. CASE ~(patch[c].pos + m > Size)
    <3>1. CASE disk[u].len <= Size
      BY <2>2, <2>3, <2>4, <2>5, <2>7, <3>1, Constants
    <3>2. CASE \E d \in Patch : Serves(d, u) /\ Excess(d)
      BY <1>3, <1>4, <2>3, <2>4, <2>5, <3>2
    <3> QED
      BY <2>1, <3>1, <3>2 DEF LengthInv
  <2> QED
    BY <2>6, <2>7
<1> QED
  BY <1>1, <1>3, <1>5, <1>6, <1>7, TemporarySteps

(* What is finalized is the whole file.                                    *)
LEMMA FullFile ==
  ASSUME Held, LengthInv, NEW c \in Patch, patch[c].pc \in Final, disk[patch[c].up] # NoFile
  PROVE  disk[patch[c].up] = Whole(patch[c].up)
<1> DEFINE u == patch[c].up
           f == disk[u]
<1>1. u \in Upload /\ Active(c)
  BY DEF Held, AloneAll, TypeInv, FieldsInv, RequestFields, Active, Final
<1>2. f \in File
  BY <1>1, TypeParts DEF Held, AloneAll, TypeInv, DiskType, Location
<1>3. upload[u].received = Size
  BY DEF Held, AloneAll, OffsetInv
<1>4. (0 .. Size - 1) \cap Byte \subseteq f.good
  BY <1>1, <1>3 DEF Held, BytesInv, Holds
<1>5. f.good = Byte
  BY <1>2, <1>4 DEF File, Byte
<1>6. f.of = u /\ Byte \subseteq 0 .. f.len - 1
  BY <1>1, <1>5 DEF LengthInv
<1>7. f.len <= Size
  <2>1. ASSUME NEW d \in Patch, Serves(d, u), Excess(d)
        PROVE  FALSE
    <3>1. d = c
      BY <1>1, <2>1 DEF Held, AloneAll, AloneInv, Serves, Active
    <3> QED
      BY <2>1, <3>1 DEF Excess, Final
  <2> QED
    BY <1>1, <2>1 DEF LengthInv
<1>8. f.len \in Nat
  BY <1>2, Constants DEF File
<1>9. Size - 1 \in Byte
  BY Constants DEF Byte
<1>10. f.len = Size
  BY <1>6, <1>7, <1>8, <1>9, Constants
<1> QED
  BY <1>2, <1>5, <1>6, <1>10 DEF File, Whole

-----------------------------------------------------------------------------
(* Rows, paths and the folder *)

(* The request c enters its file at p and completes its upload.            *)
Inserts(c, p) ==
  /\ FinalInsert(c) /\ Idle(c) /\ upload'[patch[c].up].status = "completed"
  /\ patch[c].pc = "insert" /\ p = upload[patch[c].up].path /\ file[p] = NoRow
  /\ file'[p] # NoRow /\ file'[p].of = patch[c].up /\ file'[p].place = patch[c].place
  /\ file'[p].checksum = patch[c].checksum
  /\ \A q \in Path \ {p} : file'[q] = file[q]
  /\ disk' = disk

(* A finalization whose transaction succeeds enters the file.              *)
LEMMA InsertsRow ==
  ASSUME AloneAll, [Next]_vars, NEW c \in Patch, FinalInsert(c), patch'[c].pc # "drop"
  PROVE  Inserts(c, upload[patch[c].up].path) /\ upload[patch[c].up].path \in Path
<1> DEFINE u == patch[c].up
           p == upload[u].path
           row == [of |-> u, place |-> patch[c].place, checksum |-> patch[c].checksum]
<1>1. /\ UploadType /\ FileType /\ PatchType /\ RequestFields(c) /\ patch[c] \in PatchState
      /\ RowsInv /\ Active(c) /\ patch[c].pc = "insert"
  BY TypeParts DEF AloneAll, TypeInv, FieldsInv, PatchType, FinalInsert, Active
<1>2. u \in Upload /\ p \in Path
  BY <1>1 DEF RequestFields, RowsInv
<1>3. upload[u].status \in {"in_progress", "expired"}
  BY <1>1 DEF AloneAll, AloneInv
<1>4. ~Goto(c, "drop")
  BY <1>1, GotoFields
<1>5. file[p] = NoRow /\ file' = [file EXCEPT ![p] = row] /\ SetStatus(u, "completed") /\ End(c)
  BY <1>4 DEF FinalInsert
<1>6. patch[c].place \in Place /\ patch[c].checksum \in File
  BY <1>1 DEF RequestFields, Placed, PatchState
<1>7. row \in FileRow /\ row # NoRow
  BY <1>2, <1>6, Constants DEF FileRow
<1>8. row.of = u /\ row.place = patch[c].place /\ row.checksum = patch[c].checksum
  OBVIOUS
<1> HIDE DEF row
<1>9. file'[p] = row /\ \A q \in Path \ {p} : file'[q] = file[q]
  BY <1>1, <1>2, <1>5 DEF FileType
<1>10. upload'[u].status = "completed"
  BY <1>1, <1>2, <1>3, <1>5, StatusFields DEF Row
<1>11. Idle(c)
  BY <1>1, <1>5, EndFields
<1>12. disk' = disk
  BY DEF FinalInsert
<1> QED
  BY <1>1, <1>2, <1>5, <1>7, <1>8, <1>9, <1>10, <1>11, <1>12 DEF Inserts

(* A row of a file stays, is deleted, or is entered at a free path.        *)
LEMMA FileRowSteps ==
  ASSUME AloneAll, [Next]_vars, NEW p \in Path
  PROVE  \/ file'[p] = file[p]
         \/ file'[p] = NoRow /\ FolderRow
         \/ \E d \in Deleter : DeleteRow(d) /\ file[p] = deleter[d].row /\ file'[p] = NoRow
         \/ \E c \in Patch : Inserts(c, p)
<1>1. PatchType
  BY TypeParts DEF AloneAll, TypeInv
<1>2. CASE UNCHANGED file
  BY <1>2
<1>3. ASSUME NEW c \in Patch, FinalInsert(c)
      PROVE  file'[p] = file[p] \/ Inserts(c, p)
  <2>1. CASE patch'[c].pc # "drop"
    BY <1>3, <2>1, InsertsRow DEF Inserts
  <2>2. CASE patch'[c].pc = "drop"
    <3>1. ~End(c)
      BY <1>1, <2>2, EndFields DEF Idle
    <3> QED
      BY <1>3, <3>1 DEF FinalInsert
  <2> QED
    BY <2>1, <2>2
<1>4. ASSUME NEW d \in Deleter, DeleteRow(d)
      PROVE  \/ file'[p] = file[p]
             \/ DeleteRow(d) /\ file[p] = deleter[d].row /\ file'[p] = NoRow
  BY <1>4 DEF DeleteRow
<1>5. CASE FolderRow
  BY <1>5 DEF FolderRow
<1>6. (\E c \in Patch : FinalChecksum(c)) \/ FolderRemove \/ CreateFolder => UNCHANGED file
  BY DEF FinalChecksum, FolderRemove, CreateFolder
<1> QED
  BY <1>2, <1>3, <1>4, <1>5, <1>6, FileSteps

(* While the folder is deleted no request begins and no file is entered.   *)
LEMMA FolderStep ==
  ASSUME ~FolderRaces, AloneAll, FolderInv, [Next]_vars
  PROVE  FolderInv'
<1> SUFFICES ASSUME fdel' # "idle"
             PROVE  /\ \A c \in Patch : ~Active(c)'
                    /\ \A p \in Path : file'[p] = NoRow
  BY DEF FolderInv
<1>1. CASE DeleteFolder
  BY <1>1 DEF DeleteFolder, Active, db
<1>2. CASE ~DeleteFolder
  <2>1. fdel # "idle" /\ ~Restart
    BY <1>2, FdelSteps DEF FolderRemove, FolderRow, Restart
  <2>2. (\A c \in Patch : ~Active(c)) /\ \A p \in Path : file[p] = NoRow
    BY <2>1 DEF FolderInv
  <2>3. ASSUME NEW c \in Patch, Active(c)'
        PROVE  FALSE
    <3>1. ~\E u \in Upload : PatchCheck(c, u)
      BY <2>1 DEF PatchCheck
    <3>2. ~Works(c)
      BY <2>2, WorkKeeps DEF AloneAll
    <3> QED
      BY <2>2, <2>3, <3>1, <3>2, RequestSteps DEF AloneAll, Active, Waits
  <2>4. ASSUME NEW p \in Path, file'[p] # NoRow
        PROVE  FALSE
    <3>1. ~\E c \in Patch : Inserts(c, p)
      BY <2>2 DEF Inserts, Active
    <3> QED
      BY <2>2, <2>4, <3>1, FileRowSteps
  <2> QED
    BY <2>3, <2>4
<1> QED
  BY <1>1, <1>2

(* Who aims at a path aimed at it before, or has just been given it.       *)
LEMMA AimSteps ==
  ASSUME AloneAll, [Next]_vars, NEW u \in Upload, NEW p \in Path, Aims(u, p)'
  PROVE  Aims(u, p) \/ PostCheck(u, p)
<1>1. /\ TypeInv /\ UploadType /\ JobType /\ RowsStay /\ \A c \in Patch : RequestFields(c)
  BY TypeStep, UploadTypeStep, TypeParts DEF AloneAll, TypeInv, FieldsInv
<1>2. upload[u].status # "none" => upload'[u].path = upload[u].path
  BY <1>1 DEF RowsStay
<1>3. CASE post'[u] = p
  <2>1. ASSUME NEW v \in Upload, NEW q \in Path, PostCheck(v, q)
        PROVE  post[u] = p \/ PostCheck(u, p)
    <3>1. post' = [post EXCEPT ![v] = q]
      BY <2>1 DEF PostCheck
    <3>2. CASE v = u
      <4>1. q = p
        BY <1>1, <1>3, <3>1, <3>2 DEF JobType
      <4> QED
        BY <2>1, <3>2, <4>1
    <3>3. CASE v # u
      BY <1>1, <1>3, <3>1, <3>3 DEF JobType
    <3> QED
      BY <3>2, <3>3
  <2>2. ASSUME NEW v \in Upload, PostInsert(v)
        PROVE  post[u] = p
    <3>1. post' = [post EXCEPT ![v] = NoPath]
      BY <2>2 DEF PostInsert
    <3> QED
      BY <1>1, <1>3, <3>1, Constants DEF JobType
  <2>3. ~Restart
    BY <1>3, Constants DEF Restart
  <2> QED
    BY <1>3, <2>1, <2>2, <2>3, PostSteps DEF Aims
<1>4. CASE upload'[u].path = p /\ upload'[u].status = "in_progress"
  <2>1. CASE upload[u].status = "in_progress"
    BY <1>2, <1>4, <2>1 DEF Aims
  <2>2. CASE PostInsert(u)
    <3>1. upload'[u].path = post[u]
      BY <1>1, <2>2, InsertedFields
    <3> QED
      BY <1>4, <3>1 DEF Aims
  <2> QED
    BY <1>1, <1>4, <2>1, <2>2, StatusSteps
<1>5. ASSUME NEW c \in Patch, Serves(c, u)', upload'[u].path = p
      PROVE  Aims(u, p)
  <2>1. CASE Active(c) /\ patch[c].up = u
    <3>1. upload[u].status # "none"
      BY <1>1, <2>1 DEF RequestFields
    <3> QED
      BY <1>2, <1>5, <2>1, <3>1 DEF Aims, Serves, Active
  <2>2. CASE PatchCheck(c, u)
    <3>1. upload[u].status = "in_progress"
      BY <2>2 DEF PatchCheck
    <3> QED
      BY <1>2, <1>5, <3>1 DEF Aims
  <2> QED
    BY <1>1, <1>5, <2>1, <2>2, RequestSteps DEF Serves, Active, Waits
<1> QED
  BY <1>3, <1>4, <1>5 DEF Aims

(* A path is given to one upload at a time, and a file is only entered at  *)
(* a path by the upload that has it.                                       *)
LEMMA AimStep ==
  ASSUME ~SameTarget, ~Overlap, AloneAll, AloneAll', AimInv, [Next]_vars
  PROVE  AimInv'
<1>1. JobType /\ FileType /\ \A c \in Patch : RequestFields(c)
  BY TypeParts DEF AloneAll, TypeInv, FieldsInv
<1>2. ASSUME NEW p \in Path, NEW u \in Upload, NEW v \in Upload, Aims(v, p), PostCheck(u, p)
      PROVE  FALSE
  BY <1>2 DEF PostCheck, Aimed, Aims, Served
<1>3. ASSUME NEW p \in Path, NEW u \in Upload, NEW v \in Upload, PostCheck(u, p), PostCheck(v, p)
      PROVE  u = v
  <2>1. post[u] = NoPath /\ post' = [post EXCEPT ![u] = p] /\ post' = [post EXCEPT ![v] = p]
    BY <1>3 DEF PostCheck
  <2>2. post'[u] = p /\ (u # v => post'[u] = NoPath)
    BY <1>1, <2>1 DEF JobType
  <2> QED
    BY <2>2, Constants
<1>4. ASSUME NEW p \in Path, NEW u \in Upload, NEW v \in Upload, Aims(u, p)', Aims(v, p)'
      PROVE  u = v
  BY <1>2, <1>3, <1>4, AimSteps DEF AimInv
<1>5. ASSUME NEW p \in Path, NEW u \in Upload, Aims(u, p)', file'[p] # NoRow
      PROVE  FALSE
  <2>1. CASE PostCheck(u, p)
    BY <1>5, <2>1 DEF PostCheck, db
  <2>2. CASE Aims(u, p)
    <3>1. PICK c \in Patch : Inserts(c, p)
      BY <1>5, <2>2, FileRowSteps DEF AimInv
    <3>2. Active(c) /\ patch[c].up \in Upload
      BY <1>1, <3>1 DEF Inserts, Active, RequestFields
    <3>3. Aims(patch[c].up, p)
      BY <3>1, <3>2 DEF Inserts, Aims, Serves, Active
    <3>4. patch[c].up = u
      BY <2>2, <3>2, <3>3 DEF AimInv
    <3>5. upload'[u].status = "completed"
      BY <3>1, <3>4 DEF Inserts
    <3>6. post'[u] # p
      BY <3>5, Constants DEF AloneAll, TypeInv, FieldsInv, PostedInv
    <3>7. ~\E d \in Patch : Serves(d, u)'
      BY <3>5 DEF AloneAll, AloneInv, Serves, Active
    <3> QED
      BY <1>5, <3>5, <3>6, <3>7 DEF Aims
  <2> QED
    BY <1>5, <2>1, <2>2, AimSteps
<1> QED
  BY <1>4, <1>5 DEF AimInv

-----------------------------------------------------------------------------
(* A file that is there stays whole until its deletion is asked for *)

(* A request keeps its place, or has just chosen one.                      *)
LEMMA PlaceKept ==
  ASSUME AloneAll, PlaceInv, [Next]_vars, NEW c \in Patch, patch'[c].place # Nowhere
  PROVE  /\ Active(c) /\ patch'[c].up = patch[c].up /\ patch'[c].pc \in Placed
         /\ \/ /\ patch'[c].place = patch[c].place /\ patch[c].pc \in Placed
               /\ patch'[c].checksum = patch[c].checksum
            \/ /\ FinalChecksum(c) /\ patch'[c].pc = "move" /\ disk[patch[c].up] # NoFile
               /\ patch'[c].checksum = disk[patch[c].up]
               /\ patch'[c].place \in {upload[patch[c].up].path} \cup {h \in FileId : Fresh(h)}
<1>1. TypeInv /\ PatchType /\ UploadType
  BY TypeParts DEF AloneAll, TypeInv
<1>2. patch'[c].pc # "idle"
  <2>1. CASE Works(c)
    BY <1>1, <2>1, WorkKeeps DEF Idle
  <2>2. CASE Waits(c)
    BY <2>2 DEF Waits, PlaceInv, Placed
  <2>3. CASE patch'[c] = IdlePatch
    BY <2>3 DEF IdlePatch
  <2>4. ASSUME NEW u \in Upload, PatchCheck(c, u)
        PROVE  FALSE
    BY <1>1, <2>4, CheckFields
  <2> QED
    BY <1>1, <2>1, <2>2, <2>3, <2>4, RequestSteps
<1>3. CASE Waits(c)
  BY <1>3 DEF Waits, PlaceInv, Placed, Active
<1>4. CASE Works(c)
  <2>1. Active(c) /\ patch'[c].up = patch[c].up
    BY <1>1, <1>2, <1>4, WorkKeeps
  <2>2. CASE SameJob(c) /\ (patch'[c].pc \in Placed <=> patch[c].pc \in Placed)
    <3>1. patch[c].place # Nowhere
      BY <2>2 DEF SameJob
    <3>2. patch[c].pc \in Placed
      BY <3>1 DEF PlaceInv
    <3> QED
      BY <2>1, <2>2, <3>2 DEF SameJob
  <2> QED
    BY <1>1, <1>2, <1>4, <2>1, <2>2, WorkPlaces DEF Placed
<1>5. ASSUME NEW u \in Upload, PatchCheck(c, u)
      PROVE  FALSE
  BY <1>1, <1>5, CheckFields
<1> QED
  BY <1>1, <1>2, <1>3, <1>4, <1>5, RequestSteps

(* Each file has a place of its own, and each finalization.                *)
LEMMA PlaceStep ==
  ASSUME AloneAll, AimInv, PlaceInv, [Next]_vars
  PROVE  PlaceInv'
<1>1. /\ TypeInv /\ UploadType /\ PatchType /\ RowsStay
      /\ \A c \in Patch : RequestFields(c)
  BY UploadTypeStep, TypeParts DEF AloneAll, TypeInv, FieldsInv
<1>2. ASSUME NEW p \in Path, NEW c \in Patch, Inserts(c, p)
      PROVE  /\ file'[p].place = patch[c].place /\ patch[c].place # Nowhere /\ Active(c)
             /\ patch'[c].place = Nowhere /\ p = upload[patch[c].up].path
  <2>1. patch[c].pc = "insert"
    BY <1>2 DEF Inserts
  <2> QED
    BY <1>1, <1>2, <2>1 DEF Inserts, RequestFields, Placed, Active, Idle
<1>3. ASSUME NEW p \in Path, file'[p] # NoRow
      PROVE  file'[p].place \in {p} \cup FileId
  <2>1. ASSUME NEW c \in Patch, Inserts(c, p)
        PROVE  file'[p].place \in {p} \cup FileId
    BY <1>2, <2>1 DEF PlaceInv
  <2> QED
    BY <1>3, <2>1, FileRowSteps DEF PlaceInv
<1>4. ASSUME NEW p \in Path, NEW q \in Path, NEW c \in Patch, Inserts(c, p), p # q,
             file'[q] # NoRow
      PROVE  file'[q].place # file'[p].place
  <2>1. file'[q] = file[q]
    BY <1>4 DEF Inserts
  <2> QED
    BY <1>2, <1>4, <2>1 DEF PlaceInv
<1>5. ASSUME NEW p \in Path, NEW q \in Path, file'[p] # NoRow, file'[q] # NoRow,
             file'[p].place = file'[q].place
      PROVE  p = q
  <2>1. CASE file'[p] = file[p] /\ file'[q] = file[q]
    BY <1>5, <2>1 DEF PlaceInv
  <2>2. CASE \E c \in Patch : Inserts(c, p) \/ Inserts(c, q)
    BY <1>4, <1>5, <2>2
  <2> QED
    BY <1>5, <2>1, <2>2, FileRowSteps
<1>6. ASSUME NEW c \in Patch, patch'[c].place # Nowhere
      PROVE  /\ patch'[c].pc \in Placed
             /\ patch'[c].place \in {upload'[patch'[c].up].path} \cup FileId
  <2>1. patch'[c].pc \in Placed /\ patch'[c].up = patch[c].up /\ Active(c)
    BY <1>6, PlaceKept
  <2>2. patch[c].up \in Upload /\ upload'[patch[c].up].path = upload[patch[c].up].path
    BY <1>1, <2>1 DEF RequestFields, RowsStay
  <2>3. patch'[c].place \in {upload[patch[c].up].path} \cup FileId
    <3>1. CASE patch'[c].place = patch[c].place
      BY <1>6, <3>1 DEF PlaceInv
    <3>2. CASE patch'[c].place \in {upload[patch[c].up].path} \cup {h \in FileId : Fresh(h)}
      BY <3>2
    <3> QED
      BY <1>6, <3>1, <3>2, PlaceKept
  <2> QED
    BY <2>1, <2>2, <2>3
(* A place that is chosen is nobody's.                                     *)
<1>7. ASSUME NEW c \in Patch, FinalChecksum(c),
             patch'[c].place \in {upload[patch[c].up].path} \cup {h \in FileId : Fresh(h)}
      PROVE  /\ \A p \in Path : file[p] # NoRow => file[p].place # patch'[c].place
             /\ \A d \in Patch \ {c} : patch[d].place # patch'[c].place
  <2> DEFINE u == patch[c].up
             q == upload[u].path
  <2>1. Active(c) /\ u \in Upload
    BY <1>1, <1>7 DEF FinalChecksum, Active, RequestFields
  <2>2. q \in Path
    BY <1>1, <2>1 DEF RequestFields, TypeInv, FieldsInv, RowsInv
  <2>3. Aims(u, q)
    BY <2>1 DEF Aims, Serves, Active
  <2>4. CASE patch'[c].place \in {h \in FileId : Fresh(h)}
    BY <2>4 DEF Fresh
  <2>5. CASE patch'[c].place = q
    <3>1. ASSUME NEW p \in Path, file[p] # NoRow, file[p].place = q
          PROVE  FALSE
      <4>1. p = q
        BY <2>2, <3>1, Constants DEF PlaceInv
      <4> QED
        BY <2>1, <2>2, <2>3, <3>1, <4>1 DEF AimInv
    <3>2. ASSUME NEW d \in Patch \ {c}, patch[d].place = q
          PROVE  FALSE
      <4>1. patch[d].pc \in Placed /\ q \in {upload[patch[d].up].path} \cup FileId
        BY <2>2, <3>2, Constants DEF PlaceInv, Location, Place
      <4>2. Active(d) /\ q = upload[patch[d].up].path /\ patch[d].up \in Upload
        BY <1>1, <2>2, <4>1, Constants DEF Placed, Active, RequestFields
      <4>3. Aims(patch[d].up, q)
        BY <4>2 DEF Aims, Serves, Active
      <4>4. patch[d].up = u
        BY <2>1, <2>2, <2>3, <4>2, <4>3 DEF AimInv
      <4> QED
        BY <2>1, <3>2, <4>2, <4>4 DEF AloneAll, AloneInv
    <3> QED
      BY <2>5, <3>1, <3>2
  <2> QED
    BY <1>7, <2>4, <2>5
<1>8. ASSUME NEW c \in Patch, patch'[c].place # Nowhere, NEW p \in Path, file'[p] # NoRow
      PROVE  file'[p].place # patch'[c].place
  <2>1. CASE patch'[c].place = patch[c].place
    <3>1. CASE file'[p] = file[p]
      BY <1>8, <2>1, <3>1 DEF PlaceInv
    <3>2. ASSUME NEW d \in Patch, Inserts(d, p)
          PROVE  file'[p].place # patch'[c].place
      BY <1>2, <1>8, <2>1, <3>2 DEF PlaceInv
    <3> QED
      BY <1>8, <3>1, <3>2, FileRowSteps
  <2>2. CASE FinalChecksum(c) /\ patch'[c].place # patch[c].place
    <3>1. file' = file
      BY <2>2 DEF FinalChecksum
    <3> QED
      BY <1>7, <1>8, <2>2, <3>1, PlaceKept
  <2> QED
    BY <1>8, <2>1, <2>2, PlaceKept
<1>9. ASSUME NEW c \in Patch, NEW d \in Patch, patch'[c].place # Nowhere,
             patch'[d].place = patch'[c].place, c # d,
             FinalChecksum(c), patch'[c].place # patch[c].place
      PROVE  FALSE
  <2>1. patch'[d].place = patch[d].place
    BY <1>1, <1>9, WorkKeeps DEF Works, Finalize, OthersStay
  <2> QED
    BY <1>7, <1>9, <2>1, PlaceKept
<1>10. ASSUME NEW c \in Patch, NEW d \in Patch, patch'[c].place # Nowhere,
              patch'[d].place = patch'[c].place
       PROVE  c = d
  <2>1. CASE patch'[c].place = patch[c].place /\ patch'[d].place = patch[d].place
    BY <1>10, <2>1 DEF PlaceInv
  <2> QED
    BY <1>9, <1>10, <2>1, PlaceKept
<1> QED
  BY <1>3, <1>5, <1>6, <1>8, <1>10 DEF PlaceInv

(* What is at the place of a file stays until the file is deleted.         *)
LEMMA FileStays ==
  ASSUME AloneAll, FolderInv, PlaceInv, DeleteInv, [Next]_vars, NEW p \in Path,
         file[p] # NoRow, disk'[file[p].place] # disk[file[p].place]
  PROVE  disk'[file[p].place] = NoFile /\ \E d \in Deleter : deleter[d].row = file[p]
                                                             /\ DeleteUnlink(d)
<1> DEFINE l == file[p].place
<1>1. /\ TypeInv /\ HandleInv /\ FileType /\ JobsInv /\ \A c \in Patch : RequestFields(c)
  BY TypeParts DEF AloneAll, TypeInv, FieldsInv
<1>2. l \in Place /\ l # Nowhere
  BY <1>1, Constants DEF FileType, FileRow, Location
<1>3. \A c \in Patch : patch[c].place # l
  BY <1>2 DEF PlaceInv
<1>4. ~FolderRemove
  BY DEF FolderInv, FolderRemove
<1>5. ASSUME NEW d \in Deleter, DeleteUnlink(d), deleter[d].row.place = l
      PROVE  deleter[d].row = file[p]
  <2>1. PICK q \in Path : file[q] = deleter[d].row
    BY <1>5 DEF DeleteUnlink, DeleteInv
  <2>2. deleter[d].row # NoRow
    BY <1>1, <1>5 DEF DeleteUnlink, JobsInv
  <2> QED
    BY <1>5, <2>1, <2>2 DEF PlaceInv
<1> QED
  BY <1>1, <1>2, <1>3, <1>4, <1>5, PlaceSteps

(* A row stays until its deletion is asked for.                            *)
LEMMA RowStays ==
  ASSUME AloneAll, FolderInv, DeleteInv, [Next]_vars, NEW p \in Path,
         file[p] # NoRow, file'[p] # file[p]
  PROVE  \E d \in Deleter : DeleteRow(d) /\ file[p] = deleter[d].row
<1>1. ~FolderRow
  BY DEF FolderInv, FolderRow
<1>2. ~\E c \in Patch : Inserts(c, p)
  BY DEF Inserts
<1> QED
  BY <1>1, <1>2, FileRowSteps

(* One deletion at a time: it works on a row that is there.                *)
LEMMA DeleteStep ==
  ASSUME \A d, e \in Deleter : d = e,
         AloneAll, FolderInv, PlaceInv, DeleteInv, [Next]_vars
  PROVE  DeleteInv'
<1>1. /\ TypeInv /\ FileType /\ JobType /\ DiskType /\ JobsInv /\ EnvType
  BY TypeParts DEF AloneAll, TypeInv, FieldsInv
<1>2. deleting \subseteq deleting'
  BY DeletingSteps DEF DeleteFile
<1> SUFFICES ASSUME NEW d \in Deleter, deleter'[d].pc # "idle"
             PROVE  /\ \E p \in Path : file'[p] = deleter'[d].row
                    /\ deleter'[d].row.of \in deleting'
                    /\ deleter'[d].pc = "row" => disk'[deleter'[d].row.place] = NoFile
  BY DEF DeleteInv
<1>3. CASE UNCHANGED deleter
  <2>1. deleter[d].pc # "idle" /\ deleter[d].row # NoRow
    BY <1>1, <1>3 DEF JobsInv
  <2>2. PICK p \in Path : file[p] = deleter[d].row
    BY <2>1 DEF DeleteInv
  <2>3. file'[p] = file[p]
    <3>1. ASSUME NEW e \in Deleter, DeleteRow(e)
          PROVE  FALSE
      <4>1. e = d /\ deleter' = [deleter EXCEPT ![e] = IdleDeleter]
        BY <3>1 DEF DeleteRow
      <4>2. deleter'[d] = IdleDeleter
        BY <1>1, <4>1 DEF JobType
      <4> QED
        BY <4>2 DEF IdleDeleter
    <3> QED
      BY <2>1, <2>2, <3>1, RowStays
  <2>4. deleter[d].pc = "row" => disk'[file[p].place] = NoFile
    <3>1. deleter[d].pc = "row" => disk[file[p].place] = NoFile
      BY <2>1, <2>2 DEF DeleteInv
    <3> QED
      BY <2>1, <2>2, <3>1, FileStays
  <2>5. deleter[d].row.of \in deleting
    BY <2>1 DEF DeleteInv
  <2> QED
    BY <1>2, <1>3, <2>2, <2>3, <2>4, <2>5
<1>4. ASSUME NEW e \in Deleter, NEW p \in Path, DeleteFile(e, p)
      PROVE  /\ \E q \in Path : file'[q] = deleter'[d].row
             /\ deleter'[d].row.of \in deleting' /\ deleter'[d].pc # "row"
  <2>1. e = d /\ file' = file
        /\ deleter' = [deleter EXCEPT ![e] = [pc |-> "unlink", row |-> file[p]]]
        /\ deleting' = deleting \cup {file[p].of}
    BY <1>4 DEF DeleteFile, db
  <2>2. deleter'[d] = [pc |-> "unlink", row |-> file[p]]
    BY <1>1, <2>1 DEF JobType
  <2> QED
    BY <2>1, <2>2
<1>5. ASSUME NEW e \in Deleter, DeleteUnlink(e)
      PROVE  /\ \E q \in Path : file'[q] = deleter'[d].row
             /\ deleter'[d].row.of \in deleting' /\ disk'[deleter'[d].row.place] = NoFile
  <2> DEFINE row == deleter[d].row
  <2>1. /\ e = d /\ file' = file /\ deleter' = [deleter EXCEPT ![e].pc = "row"]
        /\ deleter[d].pc = "unlink" /\ disk' = [disk EXCEPT ![row.place] = NoFile]
    BY <1>5 DEF DeleteUnlink, Remove, db
  <2>2. deleter'[d].row = row
    BY <1>1, <2>1 DEF JobType
  <2>3. row \in FileRow
    BY <1>1, <2>1 DEF JobType, JobsInv
  <2>4. disk'[row.place] = NoFile
    BY <1>1, <2>1, <2>3 DEF DiskType, FileRow, Location
  <2>5. (\E q \in Path : file[q] = row) /\ row.of \in deleting
    BY <2>1 DEF DeleteInv
  <2> QED
    BY <1>2, <2>1, <2>2, <2>4, <2>5
<1>6. ASSUME NEW e \in Deleter, DeleteRow(e)
      PROVE  FALSE
  <2>1. e = d /\ deleter' = [deleter EXCEPT ![e] = IdleDeleter]
    BY <1>6 DEF DeleteRow
  <2>2. deleter'[d] = IdleDeleter
    BY <1>1, <2>1 DEF JobType
  <2> QED
    BY <2>2 DEF IdleDeleter
<1>7. ~Restart
  BY DEF Restart, IdleDeleter
<1> QED
  BY <1>3, <1>4, <1>5, <1>6, <1>7, DeleterSteps

(* What a request has moved stays in its place until it is dropped.        *)
LEMMA MovedStays ==
  ASSUME AloneAll, FolderInv, PlaceInv, DeleteInv, [Next]_vars, NEW c \in Patch,
         patch[c].pc \in Moved, disk'[patch[c].place] # disk[patch[c].place]
  PROVE  patch'[c].pc = "idle"
<1> DEFINE l == patch[c].place
<1>1. /\ TypeInv /\ HandleInv /\ PatchType /\ RequestFields(c) /\ patch[c] \in PatchState /\ JobsInv
  BY TypeParts DEF AloneAll, TypeInv, FieldsInv, PatchType
<1>2. l \in Place /\ l # Nowhere /\ Active(c)
  BY <1>1, Constants DEF RequestFields, PatchState, Placed, Moved, Active, Location
<1>3. ASSUME NEW d \in Patch, FinalMove(d), patch[d].place = l
      PROVE  FALSE
  <2>1. d = c
    BY <1>2, <1>3 DEF PlaceInv
  <2> QED
    BY <1>3, <2>1 DEF FinalMove, Moved
<1>4. ASSUME NEW d \in Patch, FinalDrop(d), patch[d].place = l
      PROVE  patch'[c].pc = "idle"
  <2>1. d = c
    BY <1>2, <1>4 DEF PlaceInv
  <2>2. patch' = [Closed(patch, l) EXCEPT ![c] = IdlePatch] /\ l \in Location
    BY <1>2, <1>4, <2>1 DEF FinalDrop, Location
  <2> QED
    BY <1>1, <2>2, DropFields DEF Idle
<1>5. ASSUME NEW d \in Deleter, DeleteUnlink(d), deleter[d].row.place = l
      PROVE  FALSE
  <2>1. PICK q \in Path : file[q] = deleter[d].row
    BY <1>5 DEF DeleteUnlink, DeleteInv
  <2>2. deleter[d].row # NoRow
    BY <1>1, <1>5 DEF DeleteUnlink, JobsInv
  <2> QED
    BY <1>2, <1>5, <2>1, <2>2 DEF PlaceInv
<1>6. ~FolderRemove
  BY <1>2 DEF FolderInv, FolderRemove
<1> QED
  BY <1>1, <1>2, <1>3, <1>4, <1>5, <1>6, PlaceSteps

(* What is finalized is the whole file, in its checksum and in its place.  *)
LEMMA WholeStep ==
  ASSUME Held, LengthInv, FolderInv, PlaceInv, DeleteInv, WholeInv, [Next]_vars
  PROVE  WholeInv'
<1>1. AloneAll /\ TypeInv /\ PatchType /\ \A c \in Patch : RequestFields(c)
  BY TypeParts DEF Held, AloneAll, TypeInv, FieldsInv
<1>2. ASSUME NEW c \in Patch, patch'[c].pc \in Placed
      PROVE  patch'[c].checksum = Whole(patch'[c].up)
  <2>1. CASE Waits(c)
    BY <1>2, <2>1 DEF Waits, WholeInv
  <2>2. CASE Works(c)
    <3>1. patch'[c].up = patch[c].up
      BY <1>1, <1>2, <2>2, WorkKeeps DEF Placed
    <3>2. CASE FinalChecksum(c) /\ disk[patch[c].up] # NoFile
               /\ patch'[c].checksum = disk[patch[c].up]
      BY <3>1, <3>2, FullFile DEF FinalChecksum, Final
    <3>3. CASE SameJob(c) /\ patch[c].pc \in Placed
      BY <3>1, <3>3 DEF SameJob, WholeInv
    <3> QED
      BY <1>1, <1>2, <2>2, <3>2, <3>3, WorkPlaces DEF Placed
  <2>3. ASSUME NEW u \in Upload, PatchCheck(c, u)
        PROVE  FALSE
    <3>1. patch'[c].pc \in {"late", "open"}
      BY <1>1, <2>3, TypeParts, CheckFields DEF TypeInv
    <3> QED
      BY <1>2, <3>1 DEF Placed
  <2> QED
    BY <1>1, <1>2, <2>1, <2>2, <2>3, RequestSteps DEF Placed
<1>3. ASSUME NEW c \in Patch, patch'[c].pc \in Moved
      PROVE  disk'[patch'[c].place] = Whole(patch'[c].up)
  <2>1. CASE /\ patch[c].pc \in Moved
             /\ patch'[c].place = patch[c].place /\ patch'[c].up = patch[c].up
    <3>1. disk'[patch[c].place] = disk[patch[c].place]
      BY <1>1, <1>3, <2>1, MovedStays DEF Moved
    <3> QED
      BY <2>1, <3>1 DEF WholeInv
  <2>2. CASE Waits(c)
    BY <1>3, <2>1, <2>2 DEF Waits
  <2>3. CASE Works(c)
    <3>1. patch'[c].up = patch[c].up /\ patch'[c].pc # "idle"
      BY <1>1, <1>3, <2>3, WorkKeeps DEF Moved
    <3>2. CASE patch[c].pc \in Moved
      <4>1. SameJob(c)
        BY <1>1, <1>3, <2>3, <3>1, <3>2, WorkPlaces DEF Moved, FinalChecksum
      <4> QED
        BY <2>1, <3>2, <4>1 DEF SameJob
    <3>3. CASE /\ FinalMove(c) /\ disk[patch[c].up] # NoFile
               /\ disk'[patch[c].place] = disk[patch[c].up]
      <4>1. SameJob(c)
        BY <1>1, <1>3, <2>3, <3>1, <3>3, WorkPlaces DEF FinalMove, FinalChecksum
      <4>2. disk[patch[c].up] = Whole(patch[c].up)
        BY <3>3, FullFile DEF FinalMove, Final
      <4> QED
        BY <3>3, <4>1, <4>2 DEF SameJob
    <3> QED
      BY <1>1, <1>3, <2>3, <3>1, <3>2, <3>3, WorkPlaces
  <2>4. ASSUME NEW u \in Upload, PatchCheck(c, u)
        PROVE  FALSE
    <3>1. patch'[c].pc \in {"late", "open"}
      BY <1>1, <2>4, TypeParts, CheckFields DEF TypeInv
    <3> QED
      BY <1>3, <3>1 DEF Moved
  <2> QED
    BY <1>1, <1>3, <2>2, <2>3, <2>4, RequestSteps DEF Moved
<1> QED
  BY <1>2, <1>3 DEF WholeInv

(* The files of the property: their rows, content and checksums stay.      *)
LEMMA KeptStep ==
  ASSUME AloneAll, FolderInv, PlaceInv, DeleteInv, WholeInv, UploadsKept, [Next]_vars
  PROVE  UploadsKept'
<1>1. TypeInv /\ PatchType /\ \A c \in Patch : RequestFields(c)
  BY TypeParts DEF AloneAll, TypeInv, FieldsInv
<1>2. deleting \subseteq deleting'
  BY DeletingSteps DEF DeleteFile
<1>3. ASSUME NEW p \in Path, file'[p] # NoRow, file'[p].of \notin deleting'
      PROVE  /\ disk'[file'[p].place] = Whole(file'[p].of)
             /\ file'[p].checksum = Whole(file'[p].of)
  <2>1. CASE file'[p] = file[p]
    <3>1. file[p] # NoRow /\ file[p].of \notin deleting
      BY <1>2, <1>3, <2>1
    <3>2. disk'[file[p].place] = disk[file[p].place]
      <4>1. ~\E d \in Deleter : deleter[d].row = file[p] /\ DeleteUnlink(d)
        BY <3>1 DEF DeleteUnlink, DeleteInv
      <4> QED
        BY <3>1, <4>1, FileStays
    <3> QED
      BY <2>1, <3>1, <3>2 DEF UploadsKept
  <2>2. ASSUME NEW c \in Patch, Inserts(c, p)
        PROVE  /\ disk'[file'[p].place] = Whole(file'[p].of)
               /\ file'[p].checksum = Whole(file'[p].of)
    BY <2>2 DEF Inserts, WholeInv, Moved, Placed
  <2> QED
    BY <1>3, <2>1, <2>2, FileRowSteps
<1>4. ASSUME NEW u \in Upload, upload'[u].status = "completed", u \notin deleting'
      PROVE  \E p \in Path : file'[p] # NoRow /\ file'[p].of = u
  <2>1. CASE upload[u].status = "completed"
    <3>1. PICK p \in Path : file[p] # NoRow /\ file[p].of = u
      BY <1>2, <1>4, <2>1 DEF UploadsKept
    <3>2. ~\E d \in Deleter : DeleteRow(d) /\ file[p] = deleter[d].row
      BY <1>2, <1>4, <3>1 DEF DeleteRow, DeleteInv
    <3>3. file'[p] = file[p]
      BY <3>1, <3>2, RowStays
    <3> QED
      BY <3>1, <3>3
  <2>2. ASSUME NEW c \in Patch, FinalInsert(c), patch[c].up = u, End(c)
        PROVE  \E p \in Path : file'[p] # NoRow /\ file'[p].of = u
    <3>1. patch'[c].pc # "drop"
      BY <1>1, <2>2, EndFields DEF Idle
    <3>2. PICK p \in Path : Inserts(c, p)
      BY <2>2, <3>1, InsertsRow
    <3> QED
      BY <2>2, <3>2 DEF Inserts
  <2> QED
    BY <1>1, <1>4, <2>1, <2>2, StatusSteps
<1> QED
  BY <1>3, <1>4 DEF UploadsKept

(* All of this together is inductive.                                      *)
Kept ==
  /\ Held /\ LengthInv /\ FolderInv /\ AimInv /\ PlaceInv /\ DeleteInv /\ WholeInv
  /\ UploadsKept

(* It holds at first.                                                      *)
LEMMA KeptInit ==
  ASSUME Init
  PROVE  Kept
<1>1. Held
  BY HeldInit
<1>2. /\ \A u \in Upload : upload[u].status = "none" /\ post[u] = NoPath /\ disk[u] = NoFile
                           /\ upload[u].path = NoPath
      /\ \A p \in Path : file[p] = NoRow
      /\ \A c \in Patch : patch[c].pc = "idle" /\ patch[c].place = Nowhere
      /\ \A d \in Deleter : deleter[d].pc = "idle"
      /\ fdel = "idle"
  BY DEF Init, IdlePatch, IdleDeleter, Location
<1>3. LengthInv /\ FolderInv /\ DeleteInv /\ UploadsKept
  BY <1>2 DEF LengthInv, FolderInv, DeleteInv, UploadsKept
<1>4. AimInv
  BY <1>2, Constants DEF AimInv, Aims
<1>5. PlaceInv /\ WholeInv
  BY <1>2 DEF PlaceInv, WholeInv, Placed, Moved
<1> QED
  BY <1>1, <1>3, <1>4, <1>5 DEF Kept

(* Every step keeps it.                                                    *)
LEMMA KeptNext ==
  ASSUME ~SameTarget, ~Overlap, ~FolderRaces, ~ShortWrites, ~ExcessAborts,
         \A d, e \in Deleter : d = e, Kept, [Next]_vars
  PROVE  Kept'
<1>1. AloneAll /\ Held /\ Held'
  BY HeldStep DEF Kept, Held
<1>2. AloneAll'
  BY <1>1 DEF Held
<1>3. LengthInv' /\ FolderInv' /\ AimInv'
  BY <1>1, <1>2, LengthStep, FolderStep, AimStep DEF Kept
<1>4. PlaceInv' /\ DeleteInv' /\ WholeInv' /\ UploadsKept'
  BY <1>1, PlaceStep, DeleteStep, WholeStep, KeptStep DEF Kept
<1> QED
  BY <1>1, <1>3, <1>4 DEF Kept

(* A file stays what was uploaded until its deletion is asked for, and a   *)
(* completed upload has one: the finalization moves, compares, enters and  *)
(* drops only what is its own. Each assumption excludes one race or fault  *)
(* that the code does not guard against, and without which the property    *)
(* fails.                                                                  *)
THEOREM FilesKept ==
  ASSUME ~SameTarget, ~Overlap, ~FolderRaces, ~ShortWrites, ~ExcessAborts,
         \A d, e \in Deleter : d = e
  PROVE  Spec => []UploadsKept
<1>1. Init => Kept
  BY KeptInit
<1>2. Kept /\ [Next]_vars => Kept'
  BY KeptNext
<1>3. Kept => UploadsKept
  BY DEF Kept
<1> QED
  BY <1>1, <1>2, <1>3, PTL DEF Spec

-----------------------------------------------------------------------------
(* Nothing is left on the disk *)

(* When a temporary file appears.                                          *)
LEMMA Appears ==
  ASSUME AloneAll, [Next]_vars, NEW u \in Upload, disk[u] = NoFile, disk'[u] # NoFile
  PROVE  \/ \E p \in Path : PostCheck(u, p)
         \/ \E c \in Patch : PatchOpen(c) /\ patch[c].up = u
<1>1. ASSUME NEW c \in Patch, NEW n \in 1 .. MaxChunk, NEW m \in 1 .. MaxChunk,
             PatchWrite(c, n, m), patch[c].at = u
      PROVE  FALSE
  BY <1>1, Constants DEF AloneAll, TypeInv, FieldsInv, OpenInv, Location
<1> QED
  BY <1>1, TemporarySteps DEF AloneAll

(* A request that is about to refuse an upload or to enter its file has    *)
(* removed the temporary file; none that works becomes late.               *)
LEMMA WorkRemoves ==
  ASSUME AloneAll, [Next]_vars, NEW c \in Patch, Works(c),
         patch'[c].pc \in {"late", "refuse", "insert"}
  PROVE  patch'[c].pc # "late" /\ disk'[patch[c].up] = NoFile
<1>1. /\ TypeInv /\ PatchType /\ DiskType /\ RequestFields(c) /\ patch[c] \in PatchState /\ RowsInv
      /\ UploadType
  BY TypeParts DEF AloneAll, TypeInv, FieldsInv, PatchType
<1>2. Active(c) /\ patch[c].up \in Upload /\ patch[c].up \in Location
  BY <1>1, WorkKeeps DEF RequestFields, Location
<1>3. ~End(c) /\ \A s \in {"read", "checksum", "unlink", "drop"} : ~Goto(c, s)
  BY <1>1, EndFields, GotoFields DEF Idle
<1>4. CASE PatchExceed(c) \/ FinalUnlink(c)
  <2>1. patch'[c].pc # "late"
    BY <1>1, <1>2, <1>4, RemoveFields DEF PatchExceed, FinalUnlink
  <2>2. disk'[patch[c].up] = NoFile
    BY <1>1, <1>2, <1>4 DEF PatchExceed, FinalUnlink, DiskType
  <2> QED
    BY <2>1, <2>2
<1>5. CASE FinalMove(c)
  <2>1. /\ patch[c].place \in Location /\ patch[c].place # patch[c].up
    BY <1>1, <1>2, <1>5, Constants DEF FinalMove, RequestFields, PatchState, Placed, Location
  <2>2. CASE patch' = [patch EXCEPT ![c].pc = "verify"]
    BY <1>1, <2>2, CopyFields
  <2>3. CASE /\ disk' = [disk EXCEPT ![patch[c].place] = disk[patch[c].up],
                                     ![patch[c].up] = NoFile]
             /\ patch' = [Carried(Closed(patch, patch[c].place), patch[c].up, patch[c].place)
                            EXCEPT ![c].pc = "insert"]
    <3>1. patch'[c].pc = "insert"
      BY <1>1, <1>2, <2>1, <2>3, RenameFields
    <3>2. disk'[patch[c].up] = NoFile
      BY <1>1, <1>2, <2>1, <2>3 DEF DiskType
    <3> QED
      BY <3>1, <3>2
  <2> QED
    BY <1>3, <1>5, <2>2, <2>3 DEF FinalMove
<1>6. CASE PatchOpen(c)
  BY <1>1, <1>2, <1>3, <1>6, OpenFields DEF PatchOpen
<1>7. CASE Writes(c)
  BY <1>1, <1>7, WriteFields DEF Writes
<1>8. CASE PatchClose(c)
  BY <1>1, <1>8, CloseFields
<1>9. ASSUME FinalChecksum(c)
      PROVE  FALSE
  <2>1. PICK f \in File : f = disk[patch[c].up]
    BY <1>1, <1>2, <1>3, <1>9 DEF FinalChecksum, DiskType
  <2>2. upload[patch[c].up].path \in Place
    BY <1>1, <1>2 DEF RequestFields, RowsInv, Place
  <2>3. PICK place \in Place :
          Chosen(c, place, f)
    BY <1>3, <1>9, <2>1, <2>2 DEF FinalChecksum, Place, Chosen
  <2> QED
    BY <1>1, <2>3, ChecksumFields
<1>10. ~FinalDrop(c)
  <2>1. FinalDrop(c) => patch[c].place \in Location
    BY <1>1 DEF FinalDrop, RequestFields, PatchState, Placed, Location
  <2> QED
    BY <1>1, <2>1, DropFields DEF FinalDrop, Idle
<1>11. ~(PatchLate(c) \/ PatchAbort(c) \/ PatchRefuse(c) \/ PatchRecord(c))
  BY <1>3 DEF PatchLate, PatchAbort, PatchRefuse, PatchRecord
<1>12. ~(FinalRead(c) \/ FinalVerify(c) \/ FinalInsert(c))
  BY <1>3 DEF FinalRead, FinalVerify, FinalInsert
<1> QED
  BY <1>4, <1>5, <1>6, <1>7, <1>8, <1>9, <1>10, <1>11, <1>12
     DEF Works, Receive, Finalize, Writes

(* A file that a request has moved stays in its hands until it is entered  *)
(* or dropped.                                                             *)
LEMMA MovedGoes ==
  ASSUME AloneAll, [Next]_vars, NEW c \in Patch, patch[c].pc \in Moved, ~Restart
  PROVE  \/ patch'[c].pc \in Moved /\ patch'[c].place = patch[c].place
         \/ \E p \in Path : Inserts(c, p)
         \/ FinalDrop(c)
<1>1. /\ TypeInv /\ PatchType /\ RequestFields(c)
  BY TypeParts DEF AloneAll, TypeInv, FieldsInv
<1>2. CASE Waits(c)
  BY <1>2 DEF Waits
<1>3. CASE Works(c)
  <2>1. FinalVerify(c) \/ FinalUnlink(c) \/ FinalInsert(c) \/ FinalDrop(c)
    BY <1>3 DEF Works, Receive, PatchLate, PatchOpen, PatchAbort, PatchClose, PatchWrite,
                PatchExceed, PatchRefuse, PatchRecord, Finalize, FinalRead, FinalChecksum,
                FinalMove, Moved
  <2>2. CASE Goto(c, "unlink") \/ Goto(c, "drop")
    <3>1. SameJob(c) /\ patch'[c].pc \in {"unlink", "drop"}
      BY <1>1, <2>2, GotoFields
    <3> QED
      BY <3>1 DEF SameJob, Moved
  <2>3. CASE FinalUnlink(c)
    <3>1. patch[c].up \in Location
      BY <1>1, <2>3 DEF FinalUnlink, RequestFields, Active, Location
    <3>2. SameJob(c) /\ patch'[c].pc = "insert"
      BY <1>1, <2>3, <3>1, RemoveFields DEF FinalUnlink
    <3> QED
      BY <3>2 DEF SameJob, Moved
  <2>4. CASE FinalInsert(c) /\ ~Goto(c, "drop")
    <3>1. End(c)
      BY <2>4 DEF FinalInsert
    <3>2. patch'[c].pc # "drop"
      BY <1>1, <3>1, EndFields DEF Idle
    <3> QED
      BY <2>4, <3>2, InsertsRow
  <2> QED
    BY <2>1, <2>2, <2>3, <2>4 DEF FinalVerify
<1>4. \A u \in Upload : ~PatchCheck(c, u)
  BY DEF PatchCheck, Moved
<1>5. patch[c].pc # "idle"
  BY DEF Moved
<1> QED
  BY <1>1, <1>2, <1>3, <1>4, RequestSteps

(* A file that is moved is in the hands of its request.                    *)
LEMMA MoveFields ==
  ASSUME AloneAll, [Next]_vars, NEW c \in Patch, FinalMove(c),
         disk' # disk
  PROVE  patch'[c].pc \in Moved /\ patch'[c].place = patch[c].place
<1>1. /\ TypeInv /\ PatchType /\ RequestFields(c) /\ patch[c] \in PatchState
  BY TypeParts DEF AloneAll, TypeInv, FieldsInv, PatchType
<1>2. /\ patch[c].place \in Location /\ patch[c].place # patch[c].up /\ patch[c].up \in Location
  BY <1>1, Constants DEF FinalMove, RequestFields, PatchState, Placed, Active, Location
<1>3. CASE patch' = [patch EXCEPT ![c].pc = "verify"]
  <2>1. patch'[c].pc = "verify" /\ SameJob(c)
    BY <1>1, <1>3, CopyFields
  <2> QED
    BY <2>1 DEF SameJob, Moved
<1>4. CASE patch' = [Carried(Closed(patch, patch[c].place), patch[c].up, patch[c].place)
                       EXCEPT ![c].pc = "insert"]
  <2>1. patch'[c].pc = "insert" /\ SameJob(c)
    BY <1>1, <1>2, <1>4, RenameFields
  <2> QED
    BY <2>1 DEF SameJob, Moved
<1> QED
  BY <1>3, <1>4 DEF FinalMove

(* Who serves an upload did so before, or has just read its row, or        *)
(* cancels it.                                                             *)
LEMMA ServedSteps ==
  ASSUME AloneAll, [Next]_vars, NEW u \in Upload, Served(u)'
  PROVE  Served(u) \/ ((u \in LateRequests \/ u \notin late) /\ late' = late)
<1>1. TypeInv
  BY DEF AloneAll
<1>2. ASSUME u \in cancel', u \notin cancel
      PROVE  (u \in LateRequests \/ u \notin late) /\ late' = late
  <2>1. ASSUME NEW v \in Upload, CancelRow(v)
        PROVE  FALSE
    BY <1>2, <2>1 DEF CancelRow
  <2>2. ASSUME NEW v \in Upload, Cancel(v)
        PROVE  v = u
    BY <1>2, <2>2 DEF Cancel
  <2>3. ~Restart
    BY <1>2 DEF Restart
  <2> QED
    BY <1>2, <2>1, <2>2, <2>3, CancelSteps DEF Cancel
<1>3. ASSUME NEW c \in Patch, Serves(c, u)'
      PROVE  Serves(c, u) \/ ((u \in LateRequests \/ u \notin late) /\ late' = late)
  <2>1. CASE PatchCheck(c, u)
    BY <2>1 DEF PatchCheck, env
  <2> QED
    BY <1>1, <1>3, <2>1, RequestSteps DEF Serves, Active, Waits
<1> QED
  BY <1>2, <1>3 DEF Served

(* Late uploads, and temporary files that are about to go.                 *)
LEMMA TidyStep ==
  ASSUME AloneAll, TidyInv, [Next]_vars
  PROVE  TidyInv'
<1>1. /\ TypeInv /\ FreshInv /\ AloneInv /\ DiskType /\ JobType /\ JobsInv /\ PatchType
      /\ UploadType
      /\ \A c \in Patch : RequestFields(c)
  BY TypeParts DEF AloneAll, TypeInv, FieldsInv
<1>2. late \subseteq late'
  BY LateSteps DEF Expire
<1>3. ASSUME NEW u \in Upload \ LateRequests, u \in late', Served(u)'
      PROVE  FALSE
  <2>1. CASE u \in late
    BY <1>3, <2>1, ServedSteps DEF TidyInv
  <2>2. CASE u \notin late
    <3>1. Expire(u)
      BY <1>3, <2>2, LateSteps DEF Expire
    <3>2. UNCHANGED Served(u)
      BY <3>1 DEF Expire, jobs, Served, Serves
    <3> QED
      BY <1>3, <3>1, <3>2 DEF Expire
  <2> QED
    BY <2>1, <2>2
(* The file of an upload that nobody is about to open stays away.          *)
<1>4. ASSUME NEW u \in Upload, disk[u] = NoFile, disk'[u] # NoFile
      PROVE  \/ upload[u].status = "none"
             \/ \E c \in Patch : patch[c].pc = "open" /\ patch[c].up = u
  <2>1. \A p \in Path : PostCheck(u, p) => upload[u].status = "none"
    BY DEF PostCheck
  <2>2. \A c \in Patch : PatchOpen(c) => patch[c].pc = "open"
    BY DEF PatchOpen
  <2> QED
    BY <1>4, <2>1, <2>2, Appears
<1>5. ASSUME NEW u \in cancel', disk'[u] # NoFile
      PROVE  FALSE
  <2>1. CASE u \in cancel
    <3>1. u \in Upload /\ disk[u] = NoFile
      BY <1>1, <2>1 DEF JobType, TidyInv
    <3> QED
      BY <1>1, <1>4, <1>5, <2>1, <3>1 DEF FreshInv, AloneInv, Active
  <2>2. CASE u \notin cancel
    <3>1. \A v \in Upload : ~CancelRow(v)
      BY <1>5, <2>2 DEF CancelRow
    <3>2. ~Restart
      BY <1>5 DEF Restart
    <3>3. PICK v \in Upload : Cancel(v)
      BY <1>5, <2>2, <3>1, <3>2, CancelSteps
    <3>4. v = u
      BY <1>5, <2>2, <3>3 DEF Cancel
    <3> QED
      BY <1>1, <1>5, <3>3, <3>4 DEF Cancel, Remove, DiskType, Location
  <2> QED
    BY <2>1, <2>2
<1>6. ASSUME sweep'.pc = "mark"
      PROVE  disk'[sweep'.up] = NoFile \/ sweep'.up \in LateRequests
  <2>1. CASE SweepRemove
    <3>1. PICK v \in sweep.todo : /\ disk' = [disk EXCEPT ![v] = NoFile]
                                  /\ sweep' = [sweep EXCEPT !.pc = "mark", !.up = v]
      BY <2>1 DEF SweepRemove, Remove
    <3>2. v \in Upload /\ sweep'.up = v
      BY <1>1, <3>1 DEF JobType
    <3> QED
      BY <1>1, <3>1, <3>2 DEF DiskType, Location
  <2>2. CASE UNCHANGED sweep
    <3> DEFINE v == sweep.up
    <3>1. v \in sweep.todo /\ v \in Upload /\ v \in late
      BY <1>1, <1>6, <2>2 DEF JobsInv, JobType, FreshInv
    <3>2. CASE v \notin LateRequests
      <4>1. disk[v] = NoFile /\ ~Served(v)
        BY <1>6, <2>2, <3>1, <3>2 DEF TidyInv
      <4>2. upload[v].status # "none" /\ \A c \in Patch : ~(patch[c].pc = "open" /\ patch[c].up = v)
        BY <1>1, <3>1, <4>1 DEF FreshInv, Served, Serves
      <4> QED
        BY <1>4, <2>2, <3>1, <4>1, <4>2
    <3> QED
      BY <2>2, <3>2
  <2>3. CASE SweepBegin
    <3>1. sweep'.pc = "remove"
      BY <2>3 DEF SweepBegin, IdleSweep
    <3> QED
      BY <1>6, <3>1
  <2>4. CASE SweepMark
    BY <1>6, <2>4 DEF SweepMark
  <2>5. CASE Restart
    BY <1>6, <2>5 DEF Restart, IdleSweep
  <2> QED
    BY <2>1, <2>2, <2>3, <2>4, <2>5, SweepSteps
<1>7. ASSUME NEW c \in Patch, patch'[c].pc \in {"refuse", "insert"}
      PROVE  disk'[patch'[c].up] = NoFile
  <2>1. CASE Works(c)
    BY <1>1, <1>7, <2>1, WorkKeeps, WorkRemoves
  <2>2. CASE Waits(c) /\ ~Works(c)
    <3> DEFINE u == patch[c].up
    <3>1. Active(c) /\ patch[c].pc # "open" /\ disk[u] = NoFile /\ patch'[c].up = u
      BY <1>7, <2>2 DEF Waits, Active, TidyInv
    <3>2. u \in Upload /\ upload[u].status # "none"
      BY <1>1, <3>1 DEF RequestFields
    <3>3. \A d \in Patch : ~(patch[d].pc = "open" /\ patch[d].up = u)
      BY <1>1, <3>1 DEF AloneInv, Active
    <3> QED
      BY <1>4, <3>1, <3>2, <3>3
  <2>3. \A u \in Upload : PatchCheck(c, u) => patch'[c].pc \in {"late", "open"}
    BY <1>1, CheckFields
  <2> QED
    BY <1>1, <1>7, <2>1, <2>2, <2>3, RequestSteps
<1>8. ASSUME NEW c \in Patch, patch'[c].pc = "late"
      PROVE  patch'[c].up \in late'
  <2>1. CASE Waits(c)
    BY <1>2, <1>8, <2>1 DEF Waits, TidyInv
  <2>2. ~Works(c)
    <3>1. Works(c) => patch'[c].pc # "late"
      BY WorkRemoves
    <3> QED
      BY <1>8, <3>1
  <2>3. ASSUME NEW u \in Upload, PatchCheck(c, u)
        PROVE  patch'[c].up \in late'
    BY <1>1, <1>2, <1>8, <2>3, CheckFields
  <2> QED
    BY <1>1, <1>8, <2>1, <2>2, <2>3, RequestSteps
<1>9. ASSUME NEW c \in Patch, Active(c)'
      PROVE  upload'[patch'[c].up].status = "in_progress" \/ patch'[c].up \in late'
  <2>1. CASE Active(c) /\ patch'[c].up = patch[c].up
    <3> DEFINE u == patch[c].up
    <3>1. u \in Upload /\ (upload[u].status = "in_progress" \/ u \in late) /\ u \notin cancel
      BY <1>1, <2>1 DEF RequestFields, TidyInv, AloneInv
    <3>2. CASE Expires(u)
      <4>1. ASSUME NEW d \in Patch, PatchLate(d) \/ PatchRefuse(d), patch[d].up = u
            PROVE  FALSE
        <5>1. d = c
          BY <1>1, <2>1, <4>1 DEF AloneInv, PatchLate, PatchRefuse, Active
        <5>2. Idle(c)
          BY <1>1, <4>1, <5>1, EndFields DEF PatchLate, PatchRefuse
        <5> QED
          BY <1>9, <5>2 DEF Active, Idle
      <4>2. SweepMark /\ sweep.up = u
        BY <3>2, <4>1 DEF Expires
      <4>3. u \in late
        BY <1>1, <4>2 DEF SweepMark, JobsInv, FreshInv
      <4> QED
        BY <1>2, <2>1, <4>3
    <3>3. ASSUME NEW d \in Patch, FinalInsert(d), patch[d].up = u, End(d)
          PROVE  FALSE
      <4>1. d = c
        BY <1>1, <2>1, <3>3 DEF AloneInv, FinalInsert, Active
      <4>2. Idle(c)
        BY <1>1, <3>3, <4>1, EndFields
      <4> QED
        BY <1>9, <4>2 DEF Active, Idle
    <3>4. ~CancelRow(u)
      BY <3>1 DEF CancelRow
    <3> QED
      BY <1>1, <1>2, <2>1, <3>1, <3>2, <3>3, <3>4, StatusSteps
  <2>2. ASSUME NEW u \in Upload, PatchCheck(c, u), patch'[c].up = u
        PROVE  upload'[u].status = "in_progress"
    BY <2>2 DEF PatchCheck, db
  <2> QED
    BY <1>1, <1>9, <2>1, <2>2, RequestSteps DEF Active, Waits
<1> QED
  BY <1>3, <1>5, <1>6, <1>7, <1>8, <1>9 DEF TidyInv

(* Without a restart, what there is on the disk is in somebody's hands.    *)
LEMMA LitterStep ==
  ASSUME AloneAll, FolderInv, PlaceInv, DeleteInv, TidyInv, LitterInv, [Next]_vars
  PROVE  LitterInv'
<1>1. /\ TypeInv /\ HandleInv /\ FreshInv /\ AloneInv /\ PatchType /\ UploadType /\ JobType
      /\ JobsInv /\ EnvType /\ DiskType /\ FileType
      /\ \A c \in Patch : RequestFields(c)
  BY TypeParts DEF AloneAll, TypeInv, FieldsInv
<1> SUFFICES ASSUME restarts' = 0
             PROVE  /\ \A u \in Upload :
                         disk'[u] # NoFile => \/ upload'[u].status = "in_progress"
                                              \/ post'[u] # NoPath \/ Excused(u)'
                    /\ \A l \in Place : disk'[l] # NoFile =>
                         \/ \E p \in Path : file'[p] # NoRow /\ file'[p].place = l
                         \/ \E c \in Patch : patch'[c].pc \in Moved /\ patch'[c].place = l
  BY DEF LitterInv
<1>2. restarts = 0 /\ ~Restart
  BY <1>1, RestartSteps, Constants DEF Restart, EnvType
<1>3. late \subseteq late'
  BY LateSteps DEF Expire
<1>4. ASSUME NEW u \in Upload, disk'[u] # NoFile
      PROVE  upload'[u].status = "in_progress" \/ post'[u] # NoPath \/ Excused(u)'
  <2>1. ASSUME NEW p \in Path, PostCheck(u, p)
        PROVE  post'[u] # NoPath
    BY <1>1, <2>1, Constants DEF PostCheck, JobType
  <2>2. ASSUME NEW c \in Patch, PatchOpen(c), patch[c].up = u
        PROVE  upload'[u].status = "in_progress" \/ Excused(u)'
    <3>1. Active(c) /\ upload' = upload /\ late' = late
      BY <2>2 DEF PatchOpen, Active, db, env
    <3>2. upload[u].status = "in_progress" \/ u \in late
      BY <2>2, <3>1 DEF TidyInv
    <3>3. Served(u)
      BY <2>2, <3>1 DEF Served, Serves, Active
    <3> QED
      BY <3>1, <3>2, <3>3 DEF TidyInv, Excused
  <2>3. CASE disk[u] # NoFile /\ Excused(u)
    BY <1>3, <2>3 DEF Excused
  <2>4. CASE disk[u] # NoFile /\ post[u] # NoPath
    <3>1. CASE PostInsert(u)
      BY <1>1, <3>1, InsertedFields
    <3>2. ASSUME NEW v \in Upload \ {u}, PostInsert(v)
          PROVE  post'[u] # NoPath
      BY <1>1, <2>4, <3>2 DEF PostInsert, JobType
    <3>3. ASSUME NEW v \in Upload, NEW p \in Path, PostCheck(v, p)
          PROVE  post'[u] # NoPath
      BY <1>1, <2>4, <3>3, Constants DEF PostCheck, JobType
    <3> QED
      BY <1>2, <2>4, <3>1, <3>2, <3>3, PostSteps
  <2>5. CASE disk[u] # NoFile /\ upload[u].status = "in_progress"
    <3>1. ~CancelRow(u)
      BY <2>5 DEF CancelRow, TidyInv
    <3>2. ASSUME NEW c \in Patch, FinalInsert(c) \/ PatchRefuse(c), patch[c].up = u
          PROVE  FALSE
      BY <2>5, <3>2 DEF FinalInsert, PatchRefuse, TidyInv
    <3>3. ASSUME NEW c \in Patch, PatchLate(c), patch[c].up = u
          PROVE  Excused(u)
      <4>1. u \in late /\ Served(u)
        BY <3>3 DEF PatchLate, TidyInv, Served, Serves
      <4> QED
        BY <4>1 DEF TidyInv, Excused
    <3>4. ASSUME SweepMark, sweep.up = u
          PROVE  Excused(u)
      BY <1>1, <2>5, <3>4 DEF SweepMark, JobsInv, FreshInv, TidyInv, Excused
    <3>5. Expires(u) => Excused(u)'
      BY <1>3, <3>2, <3>3, <3>4 DEF Expires, Excused
    <3> QED
      BY <1>1, <2>5, <3>1, <3>2, <3>5, StatusSteps
  <2> QED
    BY <1>2, <1>4, <2>1, <2>2, <2>3, <2>4, <2>5, Appears DEF LitterInv
<1>5. ASSUME NEW l \in Place, disk'[l] # NoFile
      PROVE  \/ \E p \in Path : file'[p] # NoRow /\ file'[p].place = l
             \/ \E c \in Patch : patch'[c].pc \in Moved /\ patch'[c].place = l
  <2>1. ASSUME disk'[l] = disk[l], NEW p \in Path, file[p] # NoRow, file[p].place = l
        PROVE  file'[p] = file[p]
    <3>1. ASSUME NEW d \in Deleter, DeleteRow(d), file[p] = deleter[d].row
          PROVE  FALSE
      BY <1>5, <2>1, <3>1 DEF DeleteRow, DeleteInv
    <3> QED
      BY <2>1, <3>1, RowStays
  <2>2. ASSUME disk'[l] = disk[l], NEW c \in Patch, patch[c].pc \in Moved, patch[c].place = l
        PROVE  \/ patch'[c].pc \in Moved /\ patch'[c].place = l
               \/ \E p \in Path : file'[p] # NoRow /\ file'[p].place = l
    <3>1. ~FinalDrop(c)
      <4>1. FinalDrop(c) => disk'[l] = NoFile
        BY <1>1, <2>2 DEF FinalDrop, DiskType, Location
      <4> QED
        BY <1>5, <4>1
    <3> QED
      BY <1>2, <2>2, <3>1, MovedGoes DEF Inserts
  <2>3. CASE disk'[l] = disk[l]
    <3>1. disk[l] # NoFile
      BY <1>5, <2>3
    <3>2. CASE \E p \in Path : file[p] # NoRow /\ file[p].place = l
      BY <2>1, <2>3, <3>2
    <3>3. CASE \E c \in Patch : patch[c].pc \in Moved /\ patch[c].place = l
      BY <2>2, <2>3, <3>3
    <3> QED
      BY <1>2, <3>1, <3>2, <3>3 DEF LitterInv
  <2>4. CASE disk'[l] # disk[l]
    <3>1. PICK c \in Patch : FinalMove(c) /\ patch[c].place = l
      BY <1>1, <1>5, <2>4, PlaceSteps
    <3>2. patch'[c].pc \in Moved /\ patch'[c].place = l
      BY <2>4, <3>1, MoveFields
    <3> QED
      BY <3>2
  <2> QED
    BY <2>3, <2>4
<1> QED
  BY <1>4, <1>5

(* Without a restart nothing is left on the disk when all is at rest:      *)
(* cancellation, expiry, refusal and failed finalization remove what they  *)
(* leave behind. The assumptions are those of FilesKept.                   *)
THEOREM NothingLeft ==
  ASSUME ~SameTarget, ~Overlap, ~FolderRaces, ~ShortWrites, ~ExcessAborts,
         \A d, e \in Deleter : d = e
  PROVE  Spec => []NoLitter
<1> DEFINE Inv == Kept /\ TidyInv /\ LitterInv
<1>1. Init => Inv
  <2> SUFFICES ASSUME Init
               PROVE  TidyInv /\ LitterInv
    BY KeptInit
  <2>1. /\ late = {} /\ cancel = {} /\ sweep.pc = "idle"
        /\ \A l \in Location : disk[l] = NoFile
        /\ \A c \in Patch : patch[c].pc = "idle"
    BY DEF Init, IdlePatch, IdleSweep
  <2> QED
    BY <2>1 DEF TidyInv, LitterInv, Location, Active
<1>2. Inv /\ [Next]_vars => Inv'
  BY KeptNext, TidyStep, LitterStep DEF Kept, Held
<1>3. Inv => NoLitter
  BY DEF NoLitter, AtRest, LitterInv, Excused, Moved
<1> QED
  BY <1>1, <1>2, <1>3, PTL DEF Spec

=============================================================================
