------------------------------ MODULE ObjectStore ------------------------------
(***************************************************************************)
(* The S3-compatible object store: files in a directory per bucket.        *)
(*                                                                         *)
(* An object is two files, its bytes and its metadata, each replaced by a  *)
(* rename; a part of a multipart upload is two files as well, the bytes    *)
(* written in place.  Nothing is locked: a request is a sequence of calls  *)
(* of the file system, and an action is one of them.                       *)
(*                                                                         *)
(* Bytes are sequences of blocks, and an ETag is the sequence it is the    *)
(* hash of.  "promised" is what the last request that ran alone on an      *)
(* object, or a part, was answered; nothing is promised of what requests   *)
(* that overlapped, failures after the first file and restarts have        *)
(* touched.  The properties say that all else is as promised.              *)
(***************************************************************************)
EXTENDS Integers, FiniteSets, Sequences

CONSTANTS
  Bucket,    \* names of buckets
  Key,       \* keys of objects
  Block,     \* what a body may be
  Upload,    \* ids of multipart uploads
  Part,      \* part numbers
  Handler,   \* requests that may be in progress at once
  None,      \* no file
  Cut,       \* bytes of a body that is not complete
  Nothing,   \* no promise
  MaxFaults  \* bound: failing calls, and restarts

ASSUME ConstantsAssumption == Key # {} /\ Part \subseteq Nat \ {0} /\ Part # {} /\ MaxFaults \in Nat

VARIABLES
  buckets,    \* buckets with a descriptor
  dirs,       \* directories of each bucket
  data,       \* bytes of each object
  meta,       \* ETag in the metadata of each object
  uploads,    \* directories of multipart uploads
  op,         \* what each request is doing
  promised,   \* what each object was answered to be
  doubtful,   \* parts of uploads of which nothing is promised
  faults      \* failures so far

bucketFiles == <<buckets, dirs>>
objectFiles == <<data, meta>>
history == <<promised, doubtful>>
storeVars == <<buckets, dirs, data, meta, uploads, op, promised, doubtful, faults>>

(***************************************************************************)
(* Types and helpers                                                       *)
(***************************************************************************)

Object == Bucket \X Key
Directory == {"metadata", "objects"}

Bytes == Seq(Block \cup {Cut})
ETag == Seq(Block)

UploadDir == [object : Object, part : [Part -> Block \cup {Cut, None}],
              note : [Part -> Block \cup {None}]]

(* The parts a completion names, with their ETags; read in this order.     *)
Completion == [Part -> Block \cup {None}]
Listed(c) == {p \in Part : c[p] # None}
First(c, p) == p \in Listed(c) /\ \A q \in Listed(c) : p <= q

Op == [kind : {"put", "copy", "delete", "createBucket", "deleteBucket",
               "part", "complete", "abort"},
       step : {"body", "copy", "data", "meta", "undo", "remove", "mkdir", "describe",
               "open", "write", "note", "read", "clean"},
       object : Object, source : Object, upload : Upload \cup {None}, part : Part,
       list : Completion, bytes : Bytes, etag : ETag,
       left : SUBSET {"data", "meta"}, alone : BOOLEAN, sound : BOOLEAN]
NoOp == None

ASSUME NoneAssumption == None \notin Op

SomeObject == CHOOSE o \in Object : TRUE
Blank == [kind |-> "put", step |-> "body", object |-> SomeObject, source |-> SomeObject,
          upload |-> None, part |-> CHOOSE p \in Part : TRUE, list |-> [p \in Part |-> None],
          bytes |-> <<>>, etag |-> <<>>, left |-> {}, alone |-> TRUE, sound |-> TRUE]

At(h, step) == op[h] # NoOp /\ op[h].step = step
Goto(h, step) == op' = [op EXCEPT ![h].step = step]
End(h) == op' = [op EXCEPT ![h] = NoOp]

InBucket(b) == {o \in Object : o[1] = b}

(***************************************************************************)
(* Which requests are in each other's way                                  *)
(***************************************************************************)

Writes(o) == IF o.kind \in {"put", "copy", "delete", "complete"} THEN {o.object}
             ELSE IF o.kind = "deleteBucket" THEN InBucket(o.object[1]) ELSE {}
Reads(o) == IF o.kind = "copy" THEN {o.source} ELSE {}
PartsOf(o) == IF o.kind = "part" THEN {<<o.upload, o.part>>}
              ELSE IF o.kind \in {"complete", "abort"} THEN {o.upload} \X Part ELSE {}

Conflict(a, b) ==
  \/ Writes(a) \cap (Writes(b) \cup Reads(b)) # {} \/ Reads(a) \cap Writes(b) # {}
  \/ PartsOf(a) \cap PartsOf(b) # {}

(* Bound: a race begins, and a call fails, when all else is as promised.   *)
Certain == doubtful = {} /\ \A o \in Object : promised[o] # Nothing
Racing == \E h \in Handler : op[h] # NoOp /\ ~op[h].alone

Start(h, o) ==
  LET others == {g \in Handler \ {h} : op[g] # NoOp /\ Conflict(o, op[g])} IN
  /\ op[h] = NoOp
  /\ others # {} => Certain /\ ~Racing
  /\ op' = [g \in Handler |->
       IF g = h THEN [o EXCEPT !.alone = (others = {})]
       ELSE IF g \in others THEN [op[g] EXCEPT !.alone = FALSE] ELSE op[g]]
  /\ UNCHANGED <<bucketFiles, objectFiles, uploads, history, faults>>

(* What the end of request o says about its object, or its part.           *)
Promise(o, what) ==
  promised' = [promised EXCEPT ![o.object] = IF o.alone /\ o.sound THEN what ELSE Nothing]
Doubt(objects) == promised' = [o \in Object |-> IF o \in objects THEN Nothing ELSE promised[o]]

(***************************************************************************)
(* The initial state: buckets that exist, with nothing in them.            *)
(***************************************************************************)

StoreInit ==
  /\ buckets \in SUBSET Bucket
  /\ dirs = [b \in Bucket |-> IF b \in buckets THEN Directory ELSE {}]
  /\ data = [o \in Object |-> None] /\ meta = [o \in Object |-> None]
  /\ uploads = [u \in Upload |-> None]
  /\ op = [h \in Handler |-> NoOp]
  /\ promised = [o \in Object |-> None] /\ doubtful = {}
  /\ faults = 0

(***************************************************************************)
(* PUT, copy: a file beside the bucket, then the two renames.              *)
(***************************************************************************)

StartPut(h, o, v) ==
  /\ o[1] \in buckets
  /\ Start(h, [Blank EXCEPT !.object = o, !.bytes = <<v>>, !.etag = <<v>>])

(* The body is there; it is refused, or the bucket is looked for again.    *)
PutBody(h) ==
  /\ At(h, "body")
  /\ End(h) \/ (op[h].object[1] \in buckets /\ Goto(h, "data"))
  /\ UNCHANGED <<bucketFiles, objectFiles, uploads, history, faults>>

StartCopy(h, from, o) ==
  /\ from[1] \in buckets /\ meta[from] # None
  /\ Start(h, [Blank EXCEPT !.kind = "copy", !.step = "copy", !.object = o, !.source = from,
                            !.etag = meta[from]])

CopyFile(h) ==
  LET o == op[h] IN
  /\ At(h, "copy")
  /\ IF o.object[1] \in buckets /\ data[o.source] # None
     THEN op' = [op EXCEPT ![h].step = "data", ![h].bytes = data[o.source],
                           ![h].source = o.object, ![h].sound = promised[o.source] # Nothing]
     ELSE End(h)
  /\ UNCHANGED <<bucketFiles, objectFiles, uploads, history, faults>>

ReplaceData(h) ==
  LET o == op[h] IN
  /\ At(h, "data")
  /\ IF "objects" \in dirs[o.object[1]]
     THEN data' = [data EXCEPT ![o.object] = o.bytes]
          /\ op' = [op EXCEPT ![h].step = "meta", ![h].bytes = <<>>]
     ELSE End(h) /\ UNCHANGED data
  /\ UNCHANGED <<bucketFiles, meta, uploads, history, faults>>

(* (mutant) The metadata of an object that is overwritten stays.           *)
ReplaceMetaOnce(h) ==
  LET o == op[h] IN
  /\ At(h, "meta") /\ "metadata" \in dirs[o.object[1]]
  /\ meta' = [meta EXCEPT ![o.object] = IF @ = None THEN o.etag ELSE @]
  /\ IF o.kind = "complete" THEN Goto(h, "clean") ELSE End(h)
  /\ Promise(o, o.etag)
  /\ UNCHANGED <<bucketFiles, data, uploads, doubtful, faults>>

ReplaceMeta(h) ==
  LET o == op[h] IN
  /\ At(h, "meta") /\ "metadata" \in dirs[o.object[1]]
  /\ meta' = [meta EXCEPT ![o.object] = o.etag]
  /\ IF o.kind = "complete" THEN Goto(h, "clean") ELSE End(h)
  /\ Promise(o, o.etag)
  /\ UNCHANGED <<bucketFiles, data, uploads, doubtful, faults>>

(* Without metadata the bytes are removed: those of an object that was     *)
(* there before are already gone.                                          *)
MetaFails(h) ==
  /\ At(h, "meta")
  /\ \/ "metadata" \notin dirs[op[h].object[1]] /\ UNCHANGED faults
     \/ faults < MaxFaults /\ Certain /\ faults' = faults + 1
  /\ Goto(h, "undo")
  /\ UNCHANGED <<bucketFiles, objectFiles, uploads, history>>

Undo(h) ==
  LET o == op[h] IN
  /\ At(h, "undo")
  /\ data' = [data EXCEPT ![o.object] = None]
  /\ Doubt(IF o.alone /\ meta[o.object] = None THEN {} ELSE {o.object})
  /\ End(h)
  /\ UNCHANGED <<bucketFiles, meta, uploads, doubtful, faults>>

(***************************************************************************)
(* DELETE of an object: two removals at once.                              *)
(***************************************************************************)

StartDelete(h, o) ==
  /\ o[1] \in buckets
  /\ Start(h, [Blank EXCEPT !.kind = "delete", !.step = "remove", !.object = o,
                            !.left = {"data", "meta"}])

RemoveFile(h, f) ==
  LET o == op[h]
      left == o.left \ {f} IN
  /\ At(h, "remove") /\ o.kind = "delete" /\ f \in o.left
  /\ data' = IF f = "data" THEN [data EXCEPT ![o.object] = None] ELSE data
  /\ meta' = IF f = "meta" THEN [meta EXCEPT ![o.object] = None] ELSE meta
  /\ IF left = {} THEN End(h) /\ Promise(o, None)
     ELSE op' = [op EXCEPT ![h].left = left] /\ UNCHANGED promised
  /\ UNCHANGED <<bucketFiles, uploads, doubtful, faults>>

(***************************************************************************)
(* Buckets                                                                 *)
(***************************************************************************)

StartCreateBucket(h, b) ==
  /\ b \notin buckets
  /\ Start(h, [Blank EXCEPT !.kind = "createBucket", !.step = "mkdir",
                            !.object = CHOOSE o \in Object : o[1] = b])

(* mkdir of metadata, then of objects                                      *)
MakeDir(h) ==
  LET b == op[h].object[1] IN
  /\ At(h, "mkdir")
  /\ IF op[h].left = {}
     THEN dirs' = [dirs EXCEPT ![b] = @ \cup {"metadata"}] /\ op' = [op EXCEPT ![h].left = {"data"}]
     ELSE dirs' = [dirs EXCEPT ![b] = @ \cup {"objects"}] /\ Goto(h, "describe")
  /\ UNCHANGED <<buckets, objectFiles, uploads, history, faults>>

Describe(h) ==
  LET b == op[h].object[1] IN
  /\ At(h, "describe")
  /\ buckets' = IF dirs[b] = {} THEN buckets ELSE buckets \cup {b}
  /\ End(h)
  /\ UNCHANGED <<dirs, objectFiles, uploads, history, faults>>

StartDeleteBucket(h, b) ==
  /\ b \in buckets /\ "metadata" \in dirs[b]
  /\ \A o \in InBucket(b) : meta[o] = None
  /\ Start(h, [Blank EXCEPT !.kind = "deleteBucket", !.step = "remove",
                            !.object = CHOOSE o \in Object : o[1] = b])

(* rm -r, taken as one step                                                *)
RemoveBucket(h) ==
  LET o == op[h]
      inside == InBucket(o.object[1]) IN
  /\ At(h, "remove") /\ o.kind = "deleteBucket"
  /\ buckets' = buckets \ {o.object[1]}
  /\ dirs' = [dirs EXCEPT ![o.object[1]] = {}]
  /\ data' = [x \in Object |-> IF x \in inside THEN None ELSE data[x]]
  /\ meta' = [x \in Object |-> IF x \in inside THEN None ELSE meta[x]]
  /\ promised' = [x \in Object |-> IF x \notin inside THEN promised[x] ELSE IF ~o.alone THEN Nothing
                     ELSE IF promised[x] = Nothing THEN None ELSE promised[x]]
  /\ End(h)
  /\ UNCHANGED <<uploads, doubtful, faults>>

(***************************************************************************)
(* Multipart uploads                                                       *)
(***************************************************************************)

CreateUpload(u, o) ==
  /\ o[1] \in buckets
  /\ uploads[u] = None /\ \A h \in Handler : op[h] # NoOp => op[h].upload # u
  /\ uploads' = [uploads EXCEPT ![u] =
       [object |-> o, part |-> [p \in Part |-> None], note |-> [p \in Part |-> None]]]
  /\ doubtful' = doubtful \ ({u} \X Part)
  /\ UNCHANGED <<bucketFiles, objectFiles, op, promised, faults>>

StartPart(h, u, p, v) ==
  /\ uploads[u] # None
  /\ Start(h, [Blank EXCEPT !.kind = "part", !.step = "open", !.object = uploads[u].object,
                            !.upload = u, !.part = p, !.bytes = <<v>>, !.etag = <<v>>])

(* open(path, "w") truncates what an earlier upload of the part left.      *)
OpenPart(h) ==
  LET o == op[h] IN
  /\ At(h, "open")
  /\ IF uploads[o.upload] = None THEN End(h) /\ UNCHANGED uploads
     ELSE Goto(h, "write") /\ uploads' = [uploads EXCEPT ![o.upload].part[o.part] = Cut]
  /\ UNCHANGED <<bucketFiles, objectFiles, history, faults>>

(* The body is written and verified, or refused and removed.  Two bodies   *)
(* in one file leave either, or a mixture.                                 *)
WritePart(h) ==
  LET o == op[h] IN
  /\ At(h, "write")
  /\ IF uploads[o.upload] = None THEN End(h) /\ UNCHANGED <<uploads, doubtful>>
     ELSE \/ \E bytes \in {o.bytes[1]} \cup (IF o.alone THEN {} ELSE {Cut}) :
               /\ uploads' = [uploads EXCEPT ![o.upload].part[o.part] = bytes]
               /\ Goto(h, "note") /\ UNCHANGED doubtful
          \/ /\ uploads' = [uploads EXCEPT ![o.upload].part[o.part] = None]
             /\ doubtful' = IF o.alone THEN doubtful ELSE doubtful \cup PartsOf(o)
             /\ End(h)
  /\ UNCHANGED <<bucketFiles, objectFiles, promised, faults>>

(* (mutant) A part that is uploaded again keeps its note.                  *)
NotePartOnce(h) ==
  LET o == op[h] IN
  /\ At(h, "note") /\ uploads[o.upload] # None
  /\ uploads' = [uploads EXCEPT ![o.upload].note[o.part] = IF @ = None THEN o.etag[1] ELSE @]
  /\ doubtful' = IF o.alone THEN doubtful \ PartsOf(o) ELSE doubtful \cup PartsOf(o)
  /\ End(h)
  /\ UNCHANGED <<bucketFiles, objectFiles, promised, faults>>

NotePart(h) ==
  LET o == op[h] IN
  /\ At(h, "note")
  /\ IF uploads[o.upload] = None THEN UNCHANGED <<uploads, doubtful>>
     ELSE /\ uploads' = [uploads EXCEPT ![o.upload].note[o.part] = o.etag[1]]
          /\ doubtful' = IF o.alone THEN doubtful \ PartsOf(o) ELSE doubtful \cup PartsOf(o)
  /\ End(h)
  /\ UNCHANGED <<bucketFiles, objectFiles, promised, faults>>

StartComplete(h, u, list) ==
  /\ uploads[u] # None
  /\ Start(h, [Blank EXCEPT !.kind = "complete", !.step = "read", !.object = uploads[u].object,
                            !.upload = u, !.list = list])

(* The note must name the ETag; the bytes are read as they are.            *)
ReadPart(h) ==
  LET o == op[h]
      dir == uploads[o.upload] IN
  /\ At(h, "read")
  /\ \E p \in Part :
       /\ First(o.list, p)
       /\ IF dir # None /\ dir.note[p] = o.list[p] /\ dir.part[p] # None
          THEN op' = [op EXCEPT ![h].list[p] = None, ![h].bytes = Append(@, dir.part[p]),
                                ![h].etag = Append(@, dir.note[p]),
                                ![h].sound = @ /\ <<o.upload, p>> \notin doubtful]
          ELSE End(h)
  /\ UNCHANGED <<bucketFiles, objectFiles, uploads, history, faults>>

Assembled(h) ==
  /\ At(h, "read") /\ Listed(op[h].list) = {}
  /\ (op[h].object[1] \in buckets /\ Goto(h, "data")) \/ (op[h].object[1] \notin buckets /\ End(h))
  /\ UNCHANGED <<bucketFiles, objectFiles, uploads, history, faults>>

RemoveUpload(h) ==
  /\ At(h, "clean")
  /\ uploads' = [uploads EXCEPT ![op[h].upload] = None]
  /\ End(h)
  /\ UNCHANGED <<bucketFiles, objectFiles, history, faults>>

StartAbort(h, u) ==
  /\ uploads[u] # None
  /\ Start(h, [Blank EXCEPT !.kind = "abort", !.step = "clean", !.object = uploads[u].object,
                            !.upload = u])

(***************************************************************************)
(* The process restarts: what it was doing stays half done.                *)
(***************************************************************************)

Half(o) == CASE o.step \in {"meta", "undo"} -> {o.object}
             [] o.kind = "delete" /\ o.left # {"data", "meta"} -> {o.object}
             [] OTHER -> {}

Crash ==
  LET running == {op[h] : h \in {h \in Handler : op[h] # NoOp}} IN
  /\ faults < MaxFaults /\ Certain /\ faults' = faults + 1
  /\ Doubt(UNION {Half(o) \cup (IF o.alone THEN {} ELSE Writes(o)) : o \in running})
  /\ doubtful' = doubtful \cup (UNION {PartsOf(o) : o \in {o \in running :
                                               o.step \in {"write", "note"} \/ ~o.alone}})
  /\ op' = [h \in Handler |-> NoOp]
  /\ UNCHANGED <<bucketFiles, objectFiles, uploads>>

-----------------------------------------------------------------------------

Dispatch(h) ==
  \/ \E o \in Object, v \in Block : StartPut(h, o, v)
  \/ \E from, o \in Object : StartCopy(h, from, o)
  \/ \E o \in Object : StartDelete(h, o)
  \/ \E b \in Bucket : StartCreateBucket(h, b) \/ StartDeleteBucket(h, b)
  \/ \E u \in Upload, p \in Part, v \in Block : StartPart(h, u, p, v)
  \/ \E u \in Upload, list \in Completion : Listed(list) # {} /\ StartComplete(h, u, list)
  \/ \E u \in Upload : StartAbort(h, u)

Proceed(h) ==
  \/ PutBody(h) \/ CopyFile(h) \/ ReplaceData(h) \/ ReplaceMeta(h) \/ MetaFails(h) \/ Undo(h)
  \/ \E f \in {"data", "meta"} : RemoveFile(h, f)
  \/ MakeDir(h) \/ Describe(h) \/ RemoveBucket(h)
  \/ OpenPart(h) \/ WritePart(h) \/ NotePart(h) \/ ReadPart(h) \/ Assembled(h) \/ RemoveUpload(h)

StoreNext ==
  \/ \E h \in Handler : Dispatch(h) \/ Proceed(h)
  \/ \E u \in Upload, o \in Object : CreateUpload(u, o)
  \/ Crash

StoreSpec == StoreInit /\ [][StoreNext]_storeVars

(***************************************************************************)
(* Properties                                                              *)
(***************************************************************************)

StoreTypeOK ==
  /\ buckets \in SUBSET Bucket /\ dirs \in [Bucket -> SUBSET Directory]
  /\ data \in [Object -> Bytes \cup {None}] /\ meta \in [Object -> ETag \cup {None}]
  /\ uploads \in [Upload -> UploadDir \cup {None}]
  /\ op \in [Handler -> Op \cup {NoOp}]
  /\ promised \in [Object -> ETag \cup {None, Nothing}]
  /\ doubtful \in SUBSET (Upload \X Part)
  /\ faults \in 0 .. MaxFaults

Running == {op[h] : h \in {h \in Handler : op[h] # NoOp}}
Written == UNION {Writes(o) : o \in Running}
WrittenParts == UNION {PartsOf(o) : o \in {o \in Running : o.kind = "part"}}

(* What was answered stays: an object that no request is writing, and that *)
(* no race and no failure has touched since the last answer, has the bytes *)
(* and the metadata of that answer, or neither file.                       *)
AcknowledgedKept ==
  \A o \in Object \ Written : promised[o] # Nothing => data[o] = promised[o] /\ meta[o] = promised[o]

(* A part whose ETag is noted has these bytes, or none (then completing    *)
(* the upload fails); never those of another upload of the part.           *)
PartsAsNoted ==
  \A u \in Upload : uploads[u] # None =>
    \A p \in Part : <<u, p>> \notin WrittenParts \cup doubtful =>
      uploads[u].part[p] \in {uploads[u].note[p], None}
================================================================================
