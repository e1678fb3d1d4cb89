------------------------- MODULE StoreAndTaskProofs -------------------------
(***************************************************************************)
(* Proofs about ObjectStore and TaskScheduler, two components that share   *)
(* nothing: in both, calls that may be under way any number at a time work *)
(* on the same files or rows, with failures and restarts between their     *)
(* steps.  The first part is about ObjectStore, the second about           *)
(* TaskScheduler.                                                          *)
(***************************************************************************)
EXTENDS ObjectStore, TaskScheduler, FiniteSetTheorems, TLAPS

(***************************************************************************)
(* Proofs about ObjectStore: types, that what was answered about an object *)
(* stays, and that a part has the bytes its note says, for any number of   *)
(* requests at once, objects, parts and faults.                            *)
(*                                                                         *)
(* A request that is alone with what it writes finds it as promised and    *)
(* leaves it as promised, one file after the other; what it knows in       *)
(* between (HoldsIn) rests on the objects and parts it works on, and the   *)
(* steps of the others leave these (ObjectFrame, PartFrame). Requests that *)
(* are not alone end with no promise.                                      *)
(***************************************************************************)

-----------------------------------------------------------------------------
(* Requests in progress                                                    *)

Busy(h) == op[h] # NoOp
Typed == op \in [Handler -> Op \cup {NoOp}]

Step == {"body", "copy", "data", "meta", "undo", "remove", "mkdir", "describe",
         "open", "write", "note", "read", "clean"}

(* What a request of a kind may be doing.                                  *)
KindStep(o) ==
  /\ o.step \in {"data", "meta", "undo"} => o.kind \in {"put", "copy", "complete"}
  /\ o.step = "body" => o.kind = "put"
  /\ o.step = "copy" => o.kind = "copy"
  /\ o.step \in {"open", "write", "note"} => o.kind = "part"
  /\ o.step = "read" => o.kind = "complete"
  /\ o.step = "clean" => o.kind \in {"complete", "abort"}
  /\ o.step = "remove" => o.kind \in {"delete", "deleteBucket"}
  /\ o.step \in {"mkdir", "describe"} => o.kind = "createBucket"
  /\ o.kind \in {"part", "complete", "abort"} => o.upload \in Upload
  /\ o.kind \in {"part", "delete"} => o.sound
  /\ o.kind = "part" => o.etag # <<>> /\ o.bytes = o.etag
KindInv == \A h \in Handler : Busy(h) => KindStep(op[h])

StoreType ==
  /\ buckets \in SUBSET Bucket /\ dirs \in [Bucket -> SUBSET Directory]
  /\ data \in [Object -> Bytes \cup {None}] /\ meta \in [Object -> ETag \cup {None}]
  /\ uploads \in [Upload -> UploadDir \cup {None}]
HistoryType ==
  /\ promised \in [Object -> ETag \cup {None, Nothing}]
  /\ doubtful \in SUBSET (Upload \X Part)
  /\ faults \in 0 .. MaxFaults

Shape == Typed /\ KindInv /\ StoreType /\ HistoryType

LEMMA ShapeIsTyped == Shape => StoreTypeOK
BY DEF Shape, Typed, StoreType, HistoryType, StoreTypeOK

LEMMA InProgress == ASSUME Typed, NEW h \in Handler, Busy(h) PROVE op[h] \in Op
BY DEF Typed, Busy

(* Two requests with the same fields but that they may differ in alone.    *)
Like(m, o) ==
  /\ m \in Op
  /\ m.kind = o.kind /\ m.step = o.step /\ m.object = o.object /\ m.source = o.source
  /\ m.upload = o.upload /\ m.part = o.part /\ m.list = o.list /\ m.bytes = o.bytes
  /\ m.etag = o.etag /\ m.left = o.left /\ m.sound = o.sound

LEMMA AloneField ==
  ASSUME NEW m \in Op, NEW b \in BOOLEAN
  PROVE  Like([m EXCEPT !.alone = b], m) /\ [m EXCEPT !.alone = b].alone = b
BY DEF Op, Like

LEMMA LikeSame ==
  ASSUME NEW m, NEW o, Like(m, o)
  PROVE  /\ KindStep(m) <=> KindStep(o)
         /\ Writes(m) = Writes(o) /\ Reads(m) = Reads(o) /\ PartsOf(m) = PartsOf(o)
         /\ Half(m) = Half(o)
BY DEF Like, KindStep, Writes, Reads, PartsOf, Half

(* A request that replaces that of h.                                      *)
LEMMA Replacing ==
  ASSUME Typed, NEW h \in Handler, NEW m \in Op \cup {NoOp}, op' = [op EXCEPT ![h] = m]
  PROVE  Typed' /\ op'[h] = m /\ \A g \in Handler \ {h} : op'[g] = op[g]
BY DEF Typed

(* After the step, the request of h is over.                               *)
Over(h) == Typed' /\ ~Busy(h)' /\ \A g \in Handler \ {h} : op'[g] = op[g]

LEMMA Ending == ASSUME Typed, NEW h \in Handler, End(h) PROVE Over(h)
<1>1. op' = [op EXCEPT ![h] = NoOp]
  BY DEF End
<1>2. op'[h] = NoOp
  BY <1>1, Replacing
<1>3. Typed' /\ \A g \in Handler \ {h} : op'[g] = op[g]
  BY <1>1, Replacing
<1> QED
  BY <1>2, <1>3 DEF Over, Busy

(* After the step, the request of h goes on with these values.             *)
Now(h, s, x, b, e, l, w) ==
  /\ Typed'
  /\ \A g \in Handler \ {h} : op'[g] = op[g]
  /\ op'[h] \in Op
  /\ op'[h].kind = op[h].kind /\ op'[h].object = op[h].object /\ op'[h].upload = op[h].upload
  /\ op'[h].part = op[h].part /\ op'[h].alone = op[h].alone
  /\ op'[h].step = s /\ op'[h].source = x /\ op'[h].bytes = b /\ op'[h].etag = e
  /\ op'[h].left = l /\ op'[h].sound = w

MovesOn(h, s) == Now(h, s, op[h].source, op[h].bytes, op[h].etag, op[h].left, op[h].sound)

LEMMA Going ==
  ASSUME Typed, NEW h \in Handler, Busy(h), NEW s \in Step, Goto(h, s)
  PROVE  MovesOn(h, s)
<1>1. op[h] \in Op
  BY InProgress
<1> DEFINE m == [op[h] EXCEPT !.step = s]
<1>2. op' = [op EXCEPT ![h] = m]
  BY DEF Goto, Typed
<1>3. m \in Op
  BY <1>1 DEF Op, Step
<1>4. /\ m.kind = op[h].kind /\ m.object = op[h].object /\ m.upload = op[h].upload
      /\ m.part = op[h].part /\ m.alone = op[h].alone
      /\ m.step = s /\ m.source = op[h].source /\ m.bytes = op[h].bytes /\ m.etag = op[h].etag
      /\ m.left = op[h].left /\ m.sound = op[h].sound
  BY <1>1 DEF Op
<1> HIDE DEF m
<1> QED
  BY <1>2, <1>3, <1>4, Replacing DEF MovesOn, Now

LEMMA Copied ==
  ASSUME Typed, NEW h \in Handler, Busy(h), NEW b \in Bytes, NEW x \in Object, NEW w \in BOOLEAN,
         op' = [op EXCEPT ![h].step = "data", ![h].bytes = b, ![h].source = x, ![h].sound = w]
  PROVE  Now(h, "data", x, b, op[h].etag, op[h].left, w)
<1>1. op[h] \in Op
  BY InProgress
<1> DEFINE m == [op[h] EXCEPT !.step = "data", !.bytes = b, !.source = x, !.sound = w]
<1>2. op' = [op EXCEPT ![h] = m]
  BY DEF Typed
<1>3. m \in Op
  BY <1>1 DEF Op
<1>4. /\ m.kind = op[h].kind /\ m.object = op[h].object /\ m.upload = op[h].upload
      /\ m.part = op[h].part /\ m.alone = op[h].alone
      /\ m.step = "data" /\ m.source = x /\ m.bytes = b /\ m.etag = op[h].etag
      /\ m.left = op[h].left /\ m.sound = w
  BY <1>1 DEF Op
<1> HIDE DEF m
<1> QED
  BY <1>2, <1>3, <1>4, Replacing DEF Now

LEMMA Renamed ==
  ASSUME Typed, NEW h \in Handler, Busy(h), op' = [op EXCEPT ![h].step = "meta", ![h].bytes = <<>>]
  PROVE  Now(h, "meta", op[h].source, <<>>, op[h].etag, op[h].left, op[h].sound)
<1>1. op[h] \in Op
  BY InProgress
<1> DEFINE m == [op[h] EXCEPT !.step = "meta", !.bytes = <<>>]
<1>2. op' = [op EXCEPT ![h] = m]
  BY DEF Typed
<1>3. <<>> \in Bytes
  BY DEF Bytes
<1>5. m \in Op
  BY <1>1, <1>3 DEF Op
<1>4. /\ m.kind = op[h].kind /\ m.object = op[h].object /\ m.upload = op[h].upload
      /\ m.part = op[h].part /\ m.alone = op[h].alone
      /\ m.step = "meta" /\ m.source = op[h].source /\ m.bytes = <<>> /\ m.etag = op[h].etag
      /\ m.left = op[h].left /\ m.sound = op[h].sound
  BY <1>1 DEF Op
<1> HIDE DEF m
<1> QED
  BY <1>2, <1>5, <1>4, Replacing DEF Now

LEMMA Leaving ==
  ASSUME Typed, NEW h \in Handler, Busy(h), NEW l \in SUBSET {"data", "meta"},
         op' = [op EXCEPT ![h].left = l]
  PROVE  Now(h, op[h].step, op[h].source, op[h].bytes, op[h].etag, l, op[h].sound)
<1>1. op[h] \in Op
  BY InProgress
<1> DEFINE m == [op[h] EXCEPT !.left = l]
<1>2. op' = [op EXCEPT ![h] = m]
  BY DEF Typed
<1>3. m \in Op
  BY <1>1 DEF Op
<1>4. /\ m.kind = op[h].kind /\ m.object = op[h].object /\ m.upload = op[h].upload
      /\ m.part = op[h].part /\ m.alone = op[h].alone
      /\ m.step = op[h].step /\ m.source = op[h].source /\ m.bytes = op[h].bytes
      /\ m.etag = op[h].etag /\ m.left = l /\ m.sound = op[h].sound
  BY <1>1 DEF Op
<1> HIDE DEF m
<1> QED
  BY <1>2, <1>3, <1>4, Replacing DEF Now

LEMMA Reading ==
  ASSUME Typed, NEW h \in Handler, Busy(h), NEW p \in Part, NEW b \in Block \cup {Cut},
         NEW e \in Block, NEW w \in BOOLEAN,
         op' = [op EXCEPT ![h].list[p] = None, ![h].bytes = Append(@, b), ![h].etag = Append(@, e),
                          ![h].sound = w]
  PROVE  Now(h, op[h].step, op[h].source, Append(op[h].bytes, b), Append(op[h].etag, e),
             op[h].left, w)
<1>1. op[h] \in Op
  BY InProgress
<1> DEFINE m == [op[h] EXCEPT !.list[p] = None, !.bytes = Append(@, b), !.etag = Append(@, e),
                              !.sound = w]
<1>2. op' = [op EXCEPT ![h] = m]
  BY DEF Typed
<1>3. /\ [op[h].list EXCEPT ![p] = None] \in Completion
      /\ Append(op[h].bytes, b) \in Bytes /\ Append(op[h].etag, e) \in ETag
  BY <1>1 DEF Op, Completion, Bytes, ETag
<1>4. m = [op[h] EXCEPT !.list = [op[h].list EXCEPT ![p] = None],
             !.bytes = Append(op[h].bytes, b), !.etag = Append(op[h].etag, e), !.sound = w]
  BY <1>1 DEF Op
<1>5. m \in Op
  BY <1>1, <1>3, <1>4 DEF Op
<1>6. /\ m.kind = op[h].kind /\ m.object = op[h].object /\ m.upload = op[h].upload
      /\ m.part = op[h].part /\ m.alone = op[h].alone
      /\ m.step = op[h].step /\ m.source = op[h].source /\ m.bytes = Append(op[h].bytes, b)
      /\ m.etag = Append(op[h].etag, e) /\ m.left = op[h].left /\ m.sound = w
  BY <1>1, <1>4 DEF Op
<1> HIDE DEF m
<1> QED
  BY <1>2, <1>5, <1>6, Replacing DEF Now

-----------------------------------------------------------------------------
(* The steps of a request                                                  *)

(* A step of the request of h: it ends, or goes on with the same errand.   *)
Advance(h) ==
  /\ Busy(h) /\ Typed'
  /\ \A g \in Handler \ {h} : op'[g] = op[g]
  /\ Busy(h)' =>
       /\ op'[h] \in Op /\ KindStep(op'[h])
       /\ op'[h].kind = op[h].kind /\ op'[h].object = op[h].object
       /\ op'[h].upload = op[h].upload /\ op'[h].part = op[h].part
       /\ op'[h].alone = op[h].alone /\ op'[h].source \in {op[h].source, op[h].object}

(* The steps that a request of each kind goes on to.                       *)
Along(h, s) ==
  \/ s \in {"data", "meta", "undo"} /\ op[h].kind \in {"put", "copy", "complete"}
  \/ s \in {"write", "note"} /\ op[h].kind = "part"
  \/ s = "clean" /\ op[h].kind = "complete"
  \/ s = "describe" /\ op[h].kind = "createBucket"
  \/ s = op[h].step

LEMMA NowBusy ==
  ASSUME NEW h, NEW s, NEW x, NEW b, NEW e, NEW l, NEW w, Now(h, s, x, b, e, l, w)
  PROVE  Busy(h)'
BY NoneAssumption DEF Now, Busy, NoOp

LEMMA NowAdvances ==
  ASSUME NEW h \in Handler, Busy(h), KindStep(op[h]),
         NEW s, NEW x, NEW b, NEW e, NEW l, NEW w, Now(h, s, x, b, e, l, w), Along(h, s),
         x \in {op[h].source, op[h].object},
         op[h].kind = "part" => b = op[h].bytes /\ e = op[h].etag,
         op[h].kind \in {"part", "delete"} => w
  PROVE  Advance(h)
<1>1. /\ op'[h].kind = op[h].kind /\ op'[h].object = op[h].object
      /\ op'[h].upload = op[h].upload /\ op'[h].step = s
      /\ op'[h].bytes = b /\ op'[h].etag = e /\ op'[h].sound = w
  BY DEF Now
<1>2. KindStep(op'[h])
  BY <1>1 DEF KindStep, Along
<1> QED
  BY <1>2 DEF Now, Advance

LEMMA OverAdvances == ASSUME NEW h \in Handler, Busy(h), Over(h) PROVE Advance(h)
BY DEF Over, Advance

(* A request that only moves on, or ends.                                  *)
Plain(h) == End(h) \/ \E s \in Step : Goto(h, s) /\ Along(h, s)

LEMMA PlainGoes ==
  ASSUME Typed, NEW h \in Handler, Busy(h), Plain(h)
  PROVE  Over(h) \/ \E s \in Step : MovesOn(h, s) /\ Along(h, s)
BY Ending, Going DEF Plain

LEMMA PlainAdvances ==
  ASSUME Shape, NEW h \in Handler, Busy(h), Plain(h)
  PROVE  Advance(h)
<1>1. Typed /\ KindStep(op[h])
  BY DEF Shape, KindInv
<1>2. CASE Over(h)
  BY <1>2, OverAdvances
<1>3. ASSUME NEW s \in Step, MovesOn(h, s), Along(h, s)
      PROVE  Advance(h)
  <2>1. op[h].kind \in {"part", "delete"} => op[h].sound
    BY <1>1 DEF KindStep
  <2> QED
    BY <1>1, <1>3, <2>1, NowAdvances DEF MovesOn
<1> QED
  BY <1>1, <1>2, <1>3, PlainGoes

(* Every action of a request is a step of it: most of them are plain.      *)
LEMMA WriterPlain ==
  ASSUME Shape, NEW h \in Handler,
         PutBody(h) \/ ReplaceMeta(h) \/ MetaFails(h) \/ Undo(h) \/ Assembled(h)
  PROVE  Busy(h) /\ Plain(h)
<1>1. Busy(h) => KindStep(op[h])
  BY DEF Shape, KindInv
<1>2. CASE PutBody(h)
  BY <1>1, <1>2 DEF PutBody, At, Busy, Plain, Step, Along, KindStep
<1>3. CASE ReplaceMeta(h)
  BY <1>1, <1>3 DEF ReplaceMeta, At, Busy, Plain, Step, Along, KindStep
<1>4. CASE MetaFails(h)
  BY <1>1, <1>4 DEF MetaFails, At, Busy, Plain, Step, Along, KindStep
<1>5. CASE Undo(h)
  BY <1>5 DEF Undo, At, Busy, Plain
<1>6. CASE Assembled(h)
  BY <1>1, <1>6 DEF Assembled, At, Busy, Plain, Step, Along, KindStep
<1> QED
  BY <1>2, <1>3, <1>4, <1>5, <1>6

LEMMA DirectoryPlain ==
  ASSUME Shape, NEW h \in Handler,
         \/ Describe(h) \/ RemoveBucket(h) \/ RemoveUpload(h)
         \/ OpenPart(h) \/ WritePart(h) \/ NotePart(h)
  PROVE  Busy(h) /\ Plain(h)
<1>1. Busy(h) => KindStep(op[h])
  BY DEF Shape, KindInv
<1>2. CASE Describe(h) \/ RemoveBucket(h) \/ RemoveUpload(h) \/ NotePart(h)
  BY <1>2 DEF Describe, RemoveBucket, RemoveUpload, NotePart, At, Busy, Plain
<1>3. CASE OpenPart(h)
  BY <1>1, <1>3 DEF OpenPart, At, Busy, Plain, Step, Along, KindStep
<1>4. CASE WritePart(h)
  BY <1>1, <1>4 DEF WritePart, At, Busy, Plain, Step, Along, KindStep
<1> QED
  BY <1>2, <1>3, <1>4

(* The others, with what they note.                                        *)
LEMMA CopyFileNow ==
  ASSUME Shape, NEW h \in Handler, CopyFile(h)
  PROVE  /\ Busy(h) /\ op[h].kind = "copy"
         /\ \/ Over(h)
            \/ /\ data[op[h].source] # None
               /\ Now(h, "data", op[h].object, data[op[h].source], op[h].etag, op[h].left,
                      promised[op[h].source] # Nothing)
<1>1. Typed /\ Busy(h) /\ op[h].kind = "copy" /\ op[h] \in Op
  BY InProgress DEF Shape, KindInv, KindStep, CopyFile, At, Busy
<1>2. op[h].object \in Object /\ op[h].source \in Object
  BY <1>1 DEF Op
<1>3. CASE End(h)
  BY <1>1, <1>3, Ending
<1>4. CASE ~End(h)
  <2> DEFINE b == data[op[h].source]
             w == promised[op[h].source] # Nothing
  <2>1. /\ b # None
        /\ op' = [op EXCEPT ![h].step = "data", ![h].bytes = b, ![h].source = op[h].object,
                            ![h].sound = w]
    BY <1>4 DEF CopyFile
  <2>2. b \in Bytes /\ w \in BOOLEAN
    BY <1>2, <2>1 DEF Shape, StoreType
  <2> HIDE DEF b, w
  <2>3. Now(h, "data", op[h].object, b, op[h].etag, op[h].left, w)
    BY <1>1, <1>2, <2>1, <2>2, Copied
  <2> QED
    BY <1>1, <2>1, <2>3 DEF b, w
<1> QED
  BY <1>3, <1>4

LEMMA ReplaceDataNow ==
  ASSUME Shape, NEW h \in Handler, ReplaceData(h)
  PROVE  /\ Busy(h) /\ op[h].kind \in {"put", "copy", "complete"}
         /\ \/ Over(h) /\ data' = data
            \/ /\ data' = [data EXCEPT ![op[h].object] = op[h].bytes]
               /\ Now(h, "meta", op[h].source, <<>>, op[h].etag, op[h].left, op[h].sound)
<1>1. Typed /\ Busy(h) /\ op[h].kind \in {"put", "copy", "complete"}
  BY DEF Shape, KindInv, KindStep, ReplaceData, At, Busy
<1>2. CASE End(h) /\ UNCHANGED data
  BY <1>1, <1>2, Ending
<1>3. CASE ~(End(h) /\ UNCHANGED data)
  <2>1. /\ data' = [data EXCEPT ![op[h].object] = op[h].bytes]
        /\ op' = [op EXCEPT ![h].step = "meta", ![h].bytes = <<>>]
    BY <1>3 DEF ReplaceData
  <2> QED
    BY <1>1, <2>1, Renamed
<1> QED
  BY <1>2, <1>3

LEMMA RemoveFileNow ==
  ASSUME Shape, NEW h \in Handler, NEW f \in {"data", "meta"}, RemoveFile(h, f)
  PROVE  /\ Busy(h) /\ op[h].kind = "delete" /\ op[h].step = "remove"
         /\ \/ Over(h) /\ op[h].left \ {f} = {} /\ Promise(op[h], None)
            \/ /\ op[h].left \ {f} # {} /\ f \in op[h].left /\ promised' = promised
               /\ Now(h, "remove", op[h].source, op[h].bytes, op[h].etag, op[h].left \ {f},
                      op[h].sound)
<1>1. Typed /\ Busy(h) /\ op[h].kind = "delete" /\ op[h].step = "remove" /\ op[h] \in Op
  BY InProgress DEF Shape, RemoveFile, At, Busy
<1> DEFINE left == op[h].left \ {f}
<1>2. left \in SUBSET {"data", "meta"}
  BY <1>1 DEF Op
<1>3. CASE left = {}
  <2>1. End(h) /\ Promise(op[h], None)
    BY <1>3 DEF RemoveFile
  <2> QED
    BY <1>1, <1>3, <2>1, Ending
<1>4. CASE left # {}
  <2>1. op' = [op EXCEPT ![h].left = left] /\ promised' = promised /\ f \in op[h].left
    BY <1>4 DEF RemoveFile
  <2> HIDE DEF left
  <2>2. Now(h, op[h].step, op[h].source, op[h].bytes, op[h].etag, left, op[h].sound)
    BY <1>1, <1>2, <2>1, Leaving
  <2> QED
    BY <1>1, <1>4, <2>1, <2>2 DEF left
<1> QED
  BY <1>3, <1>4

LEMMA MakeDirNow ==
  ASSUME Shape, NEW h \in Handler, MakeDir(h)
  PROVE  /\ Busy(h) /\ op[h].kind = "createBucket" /\ op[h].step = "mkdir"
         /\ \/ MovesOn(h, "describe")
            \/ Now(h, "mkdir", op[h].source, op[h].bytes, op[h].etag, {"data"}, op[h].sound)
<1>1. Typed /\ Busy(h) /\ op[h].kind = "createBucket" /\ op[h].step = "mkdir"
  BY DEF Shape, KindInv, KindStep, MakeDir, At, Busy
<1>2. CASE Goto(h, "describe")
  BY <1>1, <1>2, Going DEF Step
<1>3. CASE ~Goto(h, "describe")
  <2>1. op' = [op EXCEPT ![h].left = {"data"}]
    BY <1>3 DEF MakeDir
  <2>2. Now(h, op[h].step, op[h].source, op[h].bytes, op[h].etag, {"data"}, op[h].sound)
    BY <1>1, <2>1, Leaving
  <2> QED
    BY <1>1, <2>2
<1> QED
  BY <1>2, <1>3

LEMMA ReadPartNow ==
  ASSUME Shape, NEW h \in Handler, ReadPart(h)
  PROVE  /\ Busy(h) /\ op[h].kind = "complete" /\ op[h].step = "read"
         /\ \/ Over(h)
            \/ \E p \in Part : LET dir == uploads[op[h].upload] IN
                 /\ dir # None /\ dir.part[p] # None
                 /\ Now(h, "read", op[h].source, Append(op[h].bytes, dir.part[p]),
                        Append(op[h].etag, dir.note[p]), op[h].left,
                        op[h].sound /\ <<op[h].upload, p>> \notin doubtful)
<1>1. /\ Typed /\ Busy(h) /\ op[h].kind = "complete" /\ op[h].step = "read" /\ op[h] \in Op
      /\ op[h].upload \in Upload
  BY InProgress DEF Shape, KindInv, KindStep, ReadPart, At, Busy
<1>2. CASE End(h)
  BY <1>1, <1>2, Ending
<1>3. CASE ~End(h)
  <2> DEFINE dir == uploads[op[h].upload]
  <2>1. PICK p \in Part :
          /\ p \in Listed(op[h].list) /\ dir # None /\ dir.note[p] = op[h].list[p]
          /\ dir.part[p] # None
          /\ op' = [op EXCEPT ![h].list[p] = None, ![h].bytes = Append(@, dir.part[p]),
                              ![h].etag = Append(@, dir.note[p]),
                              ![h].sound = @ /\ <<op[h].upload, p>> \notin doubtful]
    BY <1>3 DEF ReadPart, First
  <2>2. dir \in UploadDir
    BY <1>1, <2>1 DEF Shape, StoreType
  <2> HIDE DEF dir
  <2> DEFINE b == dir.part[p]
             e == dir.note[p]
             w == op[h].sound /\ <<op[h].upload, p>> \notin doubtful
  <2>3. b \in Block \cup {Cut} /\ e \in Block
    BY <2>1, <2>2 DEF UploadDir, Listed
  <2>4. w \in BOOLEAN
    BY <1>1 DEF Op
  <2>5. op' = [op EXCEPT ![h].list[p] = None, ![h].bytes = Append(@, b),
                         ![h].etag = Append(@, e), ![h].sound = w]
    BY <1>1, <2>1 DEF Typed
  <2>6. Now(h, op[h].step, op[h].source, Append(op[h].bytes, b), Append(op[h].etag, e),
            op[h].left, w)
    <3> HIDE DEF b, e, w
    <3> QED
      BY <1>1, <2>3, <2>4, <2>5, Reading
  <2> QED
    BY <1>1, <2>1, <2>6 DEF dir
<1> QED
  BY <1>2, <1>3

LEMMA ProceedAdvances ==
  ASSUME Shape, NEW h \in Handler, Proceed(h)
  PROVE  Advance(h)
<1> DEFINE plain == \/ PutBody(h) \/ ReplaceMeta(h) \/ MetaFails(h) \/ Undo(h) \/ Assembled(h)
                    \/ Describe(h) \/ RemoveBucket(h) \/ RemoveUpload(h)
                    \/ OpenPart(h) \/ WritePart(h) \/ NotePart(h)
<1>1. Typed /\ (Busy(h) => KindStep(op[h]) /\ op[h] \in Op)
  BY InProgress DEF Shape, KindInv
<1>2. CASE plain
  BY <1>2, WriterPlain, DirectoryPlain, PlainAdvances
<1>3. CASE CopyFile(h)
  <2>1. Busy(h) /\ op[h].kind = "copy" /\ Along(h, "data")
    BY <1>3, CopyFileNow DEF Along
  <2>2. CASE Over(h)
    BY <2>1, <2>2, OverAdvances
  <2>3. CASE Now(h, "data", op[h].object, data[op[h].source], op[h].etag, op[h].left,
                 promised[op[h].source] # Nothing)
    BY <1>1, <2>1, <2>3, NowAdvances
  <2> QED
    BY <1>3, <2>2, <2>3, CopyFileNow
<1>4. CASE ReplaceData(h)
  <2>1. Busy(h) /\ op[h].kind \in {"put", "copy", "complete"} /\ Along(h, "meta")
    BY <1>4, ReplaceDataNow DEF Along
  <2>2. CASE Over(h)
    BY <2>1, <2>2, OverAdvances
  <2>3. CASE Now(h, "meta", op[h].source, <<>>, op[h].etag, op[h].left, op[h].sound)
    BY <1>1, <2>1, <2>3, NowAdvances
  <2> QED
    BY <1>4, <2>2, <2>3, ReplaceDataNow
<1>5. ASSUME NEW f \in {"data", "meta"}, RemoveFile(h, f)
      PROVE  Advance(h)
  <2>1. Busy(h) /\ op[h].kind = "delete" /\ Along(h, "remove")
    BY <1>5, RemoveFileNow DEF Along
  <2>2. CASE Over(h)
    BY <2>1, <2>2, OverAdvances
  <2>3. CASE Now(h, "remove", op[h].source, op[h].bytes, op[h].etag, op[h].left \ {f}, op[h].sound)
    <3>1. op[h].sound
      BY <1>1, <2>1 DEF KindStep
    <3> QED
      BY <1>1, <2>1, <2>3, <3>1, NowAdvances
  <2> QED
    BY <1>5, <2>2, <2>3, RemoveFileNow
<1>6. CASE MakeDir(h)
  <2>1. Busy(h) /\ op[h].kind = "createBucket" /\ Along(h, "describe") /\ Along(h, "mkdir")
    BY <1>6, MakeDirNow DEF Along
  <2>2. CASE MovesOn(h, "describe")
    BY <1>1, <2>1, <2>2, NowAdvances DEF MovesOn
  <2>3. CASE Now(h, "mkdir", op[h].source, op[h].bytes, op[h].etag, {"data"}, op[h].sound)
    BY <1>1, <2>1, <2>3, NowAdvances
  <2> QED
    BY <1>6, <2>2, <2>3, MakeDirNow
<1>7. CASE ReadPart(h)
  <2>1. Busy(h) /\ op[h].kind = "complete" /\ Along(h, "read")
    BY <1>7, ReadPartNow DEF Along
  <2>2. CASE Over(h)
    BY <2>1, <2>2, OverAdvances
  <2>3. CASE ~Over(h)
    <3>1. PICK b, e, w : Now(h, "read", op[h].source, b, e, op[h].left, w)
      BY <1>7, <2>3, ReadPartNow
    <3> QED
      BY <1>1, <2>1, <3>1, NowAdvances
  <2> QED
    BY <2>2, <2>3
<1> QED
  BY <1>2, <1>3, <1>4, <1>5, <1>6, <1>7 DEF Proceed

-----------------------------------------------------------------------------
(* The requests that arrive                                                *)

(* What a request knows when it starts.                                    *)
Fresh(r) ==
  /\ r \in Op /\ KindStep(r)
  /\ r.step \in {"body", "read"} => r.bytes = r.etag
  /\ r.step = "copy" => r.etag = meta[r.source]
  /\ r.step \notin {"data", "meta", "undo", "write", "note"}
  /\ r.kind = "delete" => r.left = {"data", "meta"}
  /\ r.kind = "deleteBucket" => \A x \in InBucket(r.object[1]) : meta[x] = None

(* After the step, h has the request r; those in its way are not alone.    *)
BeginsAs(h, r) ==
  /\ ~Busy(h) /\ Typed'
  /\ Busy(h)' /\ Like(op'[h], r)
  /\ op'[h].alone => \A g \in Handler \ {h} : Busy(g) => ~Conflict(r, op[g])
  /\ \A g \in Handler \ {h} :
       /\ Busy(g)' <=> Busy(g)
       /\ Busy(g) => /\ Like(op'[g], op[g])
                     /\ op'[g].alone => op[g].alone /\ ~Conflict(r, op[g])

LEMMA LikeItself == ASSUME NEW o \in Op PROVE Like(o, o)
BY DEF Like

LEMMA StartStarts ==
  ASSUME Typed, NEW h \in Handler, NEW r \in Op, Start(h, r)
  PROVE  BeginsAs(h, r)
<1> DEFINE others == {g \in Handler \ {h} : op[g] # NoOp /\ Conflict(r, op[g])}
           mine == [r EXCEPT !.alone = (others = {})]
           yours(g) == [op[g] EXCEPT !.alone = FALSE]
<1>1. /\ ~Busy(h)
      /\ op' = [g \in Handler |-> IF g = h THEN mine ELSE IF g \in others THEN yours(g) ELSE op[g]]
  BY DEF Start, Busy
<1>2. Like(mine, r) /\ (mine.alone <=> others = {})
  BY AloneField
<1>3. ASSUME NEW g \in Handler, Busy(g)
      PROVE  Like(yours(g), op[g]) /\ ~yours(g).alone
  <2>1. op[g] \in Op
    BY <1>3, InProgress
  <2> QED
    BY <2>1, AloneField
<1> HIDE DEF mine, yours
<1>4. op'[h] = mine
  BY <1>1
<1>5. ASSUME NEW g \in Handler \ {h}
      PROVE  /\ Busy(g)' <=> Busy(g)
             /\ op'[g] \in Op \cup {NoOp}
             /\ Busy(g) => /\ Like(op'[g], op[g])
                           /\ op'[g].alone => op[g].alone /\ ~Conflict(r, op[g])
  <2>1. CASE g \in others
    <3>1. op'[g] = yours(g) /\ Busy(g)
      BY <1>1, <2>1 DEF Busy
    <3>2. op'[g] \in Op
      BY <1>3, <3>1 DEF Like
    <3> QED
      BY <1>3, <3>1, <3>2, NoneAssumption DEF Busy, NoOp
  <2>2. CASE g \notin others
    <3>1. op'[g] = op[g] /\ (Busy(g) => ~Conflict(r, op[g]))
      BY <1>1, <2>2 DEF Busy
    <3> QED
      BY <3>1, InProgress, LikeItself DEF Busy, Typed
  <2> QED
    BY <2>1, <2>2
<1>6. mine \in Op
  BY <1>2 DEF Like
<1>7. op'[h] \in Op \cup {NoOp} /\ Busy(h)'
  BY <1>4, <1>6, NoneAssumption DEF Busy, NoOp
<1>8. Typed'
  <2>1. \A g \in Handler : op'[g] \in Op \cup {NoOp}
    BY <1>5, <1>7
  <2>2. op' = [g \in Handler |-> op'[g]]
    BY <1>1
  <2> QED
    BY <2>1, <2>2 DEF Typed
<1>9. op'[h].alone => \A g \in Handler \ {h} : Busy(g) => ~Conflict(r, op[g])
  BY <1>2, <1>4 DEF Busy
<1> HIDE DEF others
<1>10. Like(op'[h], r)
  BY <1>2, <1>4
<1> QED
  BY <1>1, <1>5, <1>7, <1>8, <1>9, <1>10 DEF BeginsAs

LEMMA BlankFields ==
  ASSUME NEW x \in Object
  PROVE  /\ Blank \in Op
         /\ Blank.kind = "put" /\ Blank.step = "body" /\ Blank.upload = None
         /\ Blank.bytes = <<>> /\ Blank.etag = <<>> /\ Blank.sound
<1>1. SomeObject \in Object
  BY DEF SomeObject
<1>2. (CHOOSE p \in Part : TRUE) \in Part
  BY ConstantsAssumption
<1>3. <<>> \in Bytes /\ <<>> \in ETag
  BY DEF Bytes, ETag
<1>4. [p \in Part |-> None] \in Completion
  BY DEF Completion
<1> QED
  BY <1>1, <1>2, <1>3, <1>4 DEF Blank, Op

LEMMA ObjectOfBucket ==
  ASSUME NEW b \in Bucket
  PROVE  /\ (CHOOSE o \in Object : o[1] = b) \in Object
         /\ (CHOOSE o \in Object : o[1] = b)[1] = b
<1>1. PICK k : k \in Key
  BY ConstantsAssumption
<1>2. <<b, k>> \in Object /\ <<b, k>>[1] = b
  BY <1>1 DEF Object
<1> QED
  BY <1>2

LEMMA OneBlock == ASSUME NEW v \in Block PROVE <<v>> \in Bytes /\ <<v>> \in ETag /\ <<v>> # <<>>
BY DEF Bytes, ETag

LEMMA RequestStarts ==
  ASSUME Shape, NEW h \in Handler, Dispatch(h)
  PROVE  \E r : Fresh(r) /\ Start(h, r) /\ BeginsAs(h, r)
<1>0. Typed
  BY DEF Shape
<1> SUFFICES \E r : Fresh(r) /\ Start(h, r)
  BY <1>0, StartStarts DEF Fresh
<1>1. ASSUME NEW o \in Object, NEW v \in Block, StartPut(h, o, v)
      PROVE  \E r : Fresh(r) /\ Start(h, r)
  <2> DEFINE r == [Blank EXCEPT !.object = o, !.bytes = <<v>>, !.etag = <<v>>]
  <2>1. Start(h, r)
    BY <1>1 DEF StartPut
  <2>2. r \in Op /\ r.kind = "put" /\ r.step = "body" /\ r.bytes = <<v>> /\ r.etag = <<v>>
    BY BlankFields, OneBlock DEF Op
  <2> HIDE DEF r
  <2>3. Fresh(r)
    BY <2>2 DEF Fresh, KindStep
  <2> QED
    BY <2>1, <2>3
<1>2. ASSUME NEW from \in Object, NEW o \in Object, StartCopy(h, from, o)
      PROVE  \E r : Fresh(r) /\ Start(h, r)
  <2> DEFINE r == [Blank EXCEPT !.kind = "copy", !.step = "copy", !.object = o, !.source = from,
                                !.etag = meta[from]]
  <2>1. Start(h, r) /\ meta[from] # None
    BY <1>2 DEF StartCopy
  <2>2. meta[from] \in ETag
    BY <2>1 DEF Shape, StoreType
  <2>3. r \in Op /\ r.kind = "copy" /\ r.step = "copy" /\ r.source = from /\ r.etag = meta[from]
    BY <2>2, BlankFields DEF Op
  <2> HIDE DEF r
  <2>4. Fresh(r)
    BY <2>3 DEF Fresh, KindStep
  <2> QED
    BY <2>1, <2>4
<1>3. ASSUME NEW o \in Object, StartDelete(h, o)
      PROVE  \E r : Fresh(r) /\ Start(h, r)
  <2> DEFINE r == [Blank EXCEPT !.kind = "delete", !.step = "remove", !.object = o,
                                !.left = {"data", "meta"}]
  <2>1. Start(h, r)
    BY <1>3 DEF StartDelete
  <2>2. r \in Op /\ r.kind = "delete" /\ r.step = "remove" /\ r.left = {"data", "meta"} /\ r.sound
    BY BlankFields DEF Op
  <2> HIDE DEF r
  <2>3. Fresh(r)
    BY <2>2 DEF Fresh, KindStep
  <2> QED
    BY <2>1, <2>3
<1>4. ASSUME NEW b \in Bucket, StartCreateBucket(h, b) \/ StartDeleteBucket(h, b)
      PROVE  \E r : Fresh(r) /\ Start(h, r)
  <2> DEFINE x == CHOOSE o \in Object : o[1] = b
  <2>1. x \in Object /\ x[1] = b
    BY ObjectOfBucket
  <2> HIDE DEF x
  <2>2. CASE StartCreateBucket(h, b)
    <3> DEFINE r == [Blank EXCEPT !.kind = "createBucket", !.step = "mkdir", !.object = x]
    <3>1. Start(h, r)
      BY <2>2 DEF StartCreateBucket, x
    <3>2. r \in Op /\ r.kind = "createBucket" /\ r.step = "mkdir"
      BY <2>1, BlankFields DEF Op
    <3> HIDE DEF r
    <3>3. Fresh(r)
      BY <3>2 DEF Fresh, KindStep
    <3> QED
      BY <3>1, <3>3
  <2>3. CASE StartDeleteBucket(h, b)
    <3> DEFINE r == [Blank EXCEPT !.kind = "deleteBucket", !.step = "remove", !.object = x]
    <3>1. Start(h, r) /\ \A o \in InBucket(b) : meta[o] = None
      BY <2>3 DEF StartDeleteBucket, x
    <3>2. r \in Op /\ r.kind = "deleteBucket" /\ r.step = "remove" /\ r.object = x
      BY <2>1, BlankFields DEF Op
    <3> HIDE DEF r
    <3>3. Fresh(r)
      BY <2>1, <3>1, <3>2 DEF Fresh, KindStep
    <3> QED
      BY <3>1, <3>3
  <2> QED
    BY <1>4, <2>2, <2>3
<1>5. ASSUME NEW u \in Upload, uploads[u] # None
      PROVE  uploads[u].object \in Object
  BY <1>5 DEF Shape, StoreType, UploadDir
<1>6. ASSUME NEW u \in Upload, NEW p \in Part, NEW v \in Block, StartPart(h, u, p, v)
      PROVE  \E r : Fresh(r) /\ Start(h, r)
  <2> DEFINE x == uploads[u].object
             r == [Blank EXCEPT !.kind = "part", !.step = "open", !.object = x,
                                !.upload = u, !.part = p, !.bytes = <<v>>, !.etag = <<v>>]
  <2>1. Start(h, r) /\ x \in Object
    BY <1>5, <1>6 DEF StartPart
  <2>2. /\ r \in Op /\ r.kind = "part" /\ r.step = "open" /\ r.upload = u
        /\ r.bytes = <<v>> /\ r.etag = <<v>> /\ r.sound
    BY <2>1, BlankFields, OneBlock DEF Op
  <2> HIDE DEF r
  <2>3. Fresh(r)
    BY <2>2, OneBlock DEF Fresh, KindStep
  <2> QED
    BY <2>1, <2>3
<1>7. ASSUME NEW u \in Upload, NEW list \in Completion, StartComplete(h, u, list)
      PROVE  \E r : Fresh(r) /\ Start(h, r)
  <2> DEFINE x == uploads[u].object
             r == [Blank EXCEPT !.kind = "complete", !.step = "read", !.object = x,
                                !.upload = u, !.list = list]
  <2>1. Start(h, r) /\ x \in Object
    BY <1>5, <1>7 DEF StartComplete
  <2>2. /\ r \in Op /\ r.kind = "complete" /\ r.step = "read" /\ r.upload = u /\ r.bytes = r.etag
    BY <2>1, BlankFields DEF Op
  <2> HIDE DEF r
  <2>3. Fresh(r)
    BY <2>2 DEF Fresh, KindStep
  <2> QED
    BY <2>1, <2>3
<1>8. ASSUME NEW u \in Upload, StartAbort(h, u)
      PROVE  \E r : Fresh(r) /\ Start(h, r)
  <2> DEFINE x == uploads[u].object
             r == [Blank EXCEPT !.kind = "abort", !.step = "clean", !.object = x, !.upload = u]
  <2>1. Start(h, r) /\ x \in Object
    BY <1>5, <1>8 DEF StartAbort
  <2>2. r \in Op /\ r.kind = "abort" /\ r.step = "clean" /\ r.upload = u
    BY <2>1, BlankFields DEF Op
  <2> HIDE DEF r
  <2>3. Fresh(r)
    BY <2>2 DEF Fresh, KindStep
  <2> QED
    BY <2>1, <2>3
<1> QED
  BY <1>1, <1>2, <1>3, <1>4, <1>6, <1>7, <1>8 DEF Dispatch

(* The files are what they were when a request starts.                     *)
LEMMA StartsLeaves ==
  ASSUME NEW h, NEW r, Start(h, r)
  PROVE  UNCHANGED <<buckets, dirs, data, meta, uploads, promised, doubtful, faults>>
BY DEF Start, bucketFiles, objectFiles, history

-----------------------------------------------------------------------------
(* Types                                                                   *)

LEMMA ErrandType ==
  ASSUME Shape, NEW h \in Handler, Busy(h)
  PROVE  /\ op[h] \in Op /\ KindStep(op[h])
         /\ op[h].object \in Object /\ op[h].object[1] \in Bucket /\ op[h].source \in Object
         /\ op[h].part \in Part /\ op[h].bytes \in Bytes /\ op[h].etag \in ETag
         /\ op[h].alone \in BOOLEAN /\ op[h].left \in SUBSET {"data", "meta"}
<1>1. op[h] \in Op /\ KindStep(op[h])
  BY InProgress DEF Shape, KindInv
<1>2. op[h].object \in Object
  BY <1>1 DEF Op
<1>3. op[h].object[1] \in Bucket
  BY <1>2 DEF Object
<1> QED
  BY <1>1, <1>2, <1>3 DEF Op

(* A part that is uploaded has the block that it was sent.                 *)
LEMMA PartSent ==
  ASSUME Shape, NEW h \in Handler, Busy(h), op[h].kind = "part"
  PROVE  /\ op[h].upload \in Upload /\ op[h].etag[1] \in Block /\ op[h].bytes = op[h].etag
<1>1. op[h].etag \in Seq(Block) /\ op[h].etag # <<>> /\ op[h].bytes = op[h].etag
  BY ErrandType DEF KindStep, ETag
<1>2. op[h].etag[1] \in Block
  BY <1>1
<1> QED
  BY <1>1, <1>2, ErrandType DEF KindStep

LEMMA PartFile ==
  ASSUME StoreType, NEW u \in Upload, uploads[u] # None, NEW p \in Part
  PROVE  /\ uploads[u] \in UploadDir
         /\ \A b \in Block \cup {Cut, None} :
              [uploads EXCEPT ![u].part[p] = b] \in [Upload -> UploadDir \cup {None}]
         /\ \A b \in Block :
              [uploads EXCEPT ![u].note[p] = b] \in [Upload -> UploadDir \cup {None}]
<1>1. uploads[u] \in UploadDir /\ uploads \in [Upload -> UploadDir \cup {None}]
  BY DEF StoreType
<1>2. ASSUME NEW b \in Block \cup {Cut, None}
      PROVE  [uploads[u] EXCEPT !.part[p] = b] \in UploadDir
  BY <1>1 DEF UploadDir
<1>3. ASSUME NEW b \in Block
      PROVE  [uploads[u] EXCEPT !.note[p] = b] \in UploadDir
  BY <1>1 DEF UploadDir
<1>4. \A d \in UploadDir : [uploads EXCEPT ![u] = d] \in [Upload -> UploadDir \cup {None}]
  BY <1>1
<1> QED
  BY <1>1, <1>2, <1>3, <1>4

LEMMA WriterStore ==
  ASSUME Shape, NEW h \in Handler,
         \/ PutBody(h) \/ CopyFile(h) \/ ReplaceData(h) \/ ReplaceMeta(h) \/ MetaFails(h) \/ Undo(h)
         \/ \E f \in {"data", "meta"} : RemoveFile(h, f)
         \/ MakeDir(h) \/ Describe(h) \/ RemoveBucket(h) \/ ReadPart(h) \/ Assembled(h)
  PROVE  StoreType'
<1> USE DEF bucketFiles, objectFiles, history
<1>1. StoreType
  BY DEF Shape
<1>2. CASE PutBody(h) \/ CopyFile(h) \/ MetaFails(h) \/ ReadPart(h) \/ Assembled(h)
  BY <1>1, <1>2 DEF StoreType, PutBody, CopyFile, MetaFails, ReadPart, Assembled
<1>3. CASE ReplaceData(h)
  <2>1. op[h].bytes \in Bytes
    BY <1>3, ReplaceDataNow, ErrandType
  <2>2. data' \in [Object -> Bytes \cup {None}]
    BY <1>1, <1>3, <2>1, ReplaceDataNow DEF StoreType
  <2> QED
    BY <1>1, <1>3, <2>2 DEF StoreType, ReplaceData
<1>4. CASE ReplaceMeta(h)
  <2>1. op[h].etag \in ETag
    BY <1>4, WriterPlain, ErrandType
  <2>2. meta' \in [Object -> ETag \cup {None}]
    BY <1>1, <1>4, <2>1 DEF StoreType, ReplaceMeta
  <2> QED
    BY <1>1, <1>4, <2>2 DEF StoreType, ReplaceMeta
<1>5. CASE Undo(h)
  BY <1>1, <1>5 DEF StoreType, Undo
<1>6. ASSUME NEW f \in {"data", "meta"}, RemoveFile(h, f)
      PROVE  StoreType'
  BY <1>1, <1>6 DEF StoreType, RemoveFile
<1>7. CASE MakeDir(h)
  <2>1. dirs' \in [Bucket -> SUBSET Directory]
    BY <1>1, <1>7 DEF StoreType, MakeDir, Directory
  <2> QED
    BY <1>1, <1>7, <2>1 DEF StoreType, MakeDir
<1>8. CASE Describe(h)
  <2>1. op[h].object[1] \in Bucket
    BY <1>8, DirectoryPlain, ErrandType
  <2>2. buckets' \in SUBSET Bucket
    BY <1>1, <1>8, <2>1 DEF StoreType, Describe
  <2> QED
    BY <1>1, <1>8, <2>2 DEF StoreType, Describe
<1>9. CASE RemoveBucket(h)
  BY <1>1, <1>9 DEF StoreType, RemoveBucket
<1> QED
  BY <1>2, <1>3, <1>4, <1>5, <1>6, <1>7, <1>8, <1>9

LEMMA UploadStore ==
  ASSUME Shape, NEW h \in Handler,
         OpenPart(h) \/ WritePart(h) \/ NotePart(h) \/ RemoveUpload(h)
  PROVE  StoreType'
<1> USE DEF bucketFiles, objectFiles, history
<1>1. StoreType
  BY DEF Shape
<1>2. Busy(h)
  BY DirectoryPlain
<1> DEFINE u == op[h].upload
           p == op[h].part
<1>3. p \in Part
  BY <1>2, ErrandType
<1> SUFFICES uploads' \in [Upload -> UploadDir \cup {None}]
  BY <1>1 DEF StoreType, OpenPart, WritePart, NotePart, RemoveUpload
<1>4. CASE uploads' = uploads
  BY <1>1, <1>4 DEF StoreType
<1>5. CASE OpenPart(h) /\ uploads' # uploads
  <2>1. op[h].kind = "part" /\ uploads[u] # None /\ uploads' = [uploads EXCEPT ![u].part[p] = Cut]
    BY <1>2, <1>5, ErrandType DEF OpenPart, At, KindStep
  <2>2. u \in Upload
    BY <1>2, <2>1, PartSent
  <2> QED
    BY <1>1, <1>3, <2>1, <2>2, PartFile
<1>6. CASE WritePart(h) /\ uploads' # uploads
  <2>1. op[h].kind = "part" /\ uploads[u] # None
    BY <1>2, <1>6, ErrandType DEF WritePart, At, KindStep
  <2>2. u \in Upload /\ op[h].bytes[1] \in Block
    BY <1>2, <2>1, PartSent
  <2>3. PICK b \in Block \cup {Cut, None} : uploads' = [uploads EXCEPT ![u].part[p] = b]
    BY <1>6, <2>1, <2>2 DEF WritePart
  <2> QED
    BY <1>1, <1>3, <2>1, <2>2, <2>3, PartFile
<1>7. CASE NotePart(h) /\ uploads' # uploads
  <2>1. op[h].kind = "part" /\ uploads[u] # None
    BY <1>2, <1>7, ErrandType DEF NotePart, At, KindStep
  <2>2. u \in Upload /\ op[h].etag[1] \in Block
    BY <1>2, <2>1, PartSent
  <2>3. uploads' = [uploads EXCEPT ![u].note[p] = op[h].etag[1]]
    BY <1>7, <2>1 DEF NotePart
  <2> QED
    BY <1>1, <1>3, <2>1, <2>2, <2>3, PartFile
<1>8. CASE RemoveUpload(h)
  BY <1>1, <1>8 DEF RemoveUpload, StoreType
<1> QED
  BY <1>4, <1>5, <1>6, <1>7, <1>8

LEMMA PromiseType ==
  ASSUME HistoryType, NEW o \in Op, NEW what \in ETag \cup {None}, Promise(o, what)
  PROVE  promised' \in [Object -> ETag \cup {None, Nothing}]
BY DEF HistoryType, Promise

LEMMA DoubtType ==
  ASSUME HistoryType, NEW S, Doubt(S)
  PROVE  promised' \in [Object -> ETag \cup {None, Nothing}]
BY DEF HistoryType, Doubt

LEMMA PartsAreParts ==
  ASSUME Shape, NEW h \in Handler, Busy(h)
  PROVE  PartsOf(op[h]) \subseteq Upload \X Part
BY ErrandType DEF PartsOf, KindStep

LEMMA ProceedHistory ==
  ASSUME Shape, NEW h \in Handler, Proceed(h)
  PROVE  HistoryType'
<1> USE DEF bucketFiles, objectFiles, history
<1>1. HistoryType
  BY DEF Shape
<1>2. Busy(h) /\ op[h] \in Op /\ op[h].etag \in ETag
  BY ProceedAdvances, ErrandType DEF Advance
<1>3. PartsOf(op[h]) \subseteq Upload \X Part
  BY <1>2, PartsAreParts
<1>4. CASE \/ PutBody(h) \/ CopyFile(h) \/ ReplaceData(h) \/ MakeDir(h) \/ Describe(h)
           \/ OpenPart(h) \/ ReadPart(h) \/ Assembled(h) \/ RemoveUpload(h)
  BY <1>1, <1>4 DEF HistoryType, PutBody, CopyFile, ReplaceData, MakeDir, Describe, OpenPart,
     ReadPart, Assembled, RemoveUpload
<1>5. CASE ReplaceMeta(h)
  <2>1. promised' \in [Object -> ETag \cup {None, Nothing}]
    BY <1>1, <1>2, <1>5, PromiseType DEF ReplaceMeta
  <2> QED
    BY <1>1, <1>5, <2>1 DEF HistoryType, ReplaceMeta
<1>6. CASE MetaFails(h)
  <2>1. faults' \in 0 .. MaxFaults
    BY <1>1, <1>6, ConstantsAssumption DEF HistoryType, MetaFails
  <2> QED
    BY <1>1, <1>6, <2>1 DEF HistoryType, MetaFails
<1>7. CASE Undo(h)
  <2>1. promised' \in [Object -> ETag \cup {None, Nothing}]
    BY <1>1, <1>7, DoubtType DEF Undo
  <2> QED
    BY <1>1, <1>7, <2>1 DEF HistoryType, Undo
<1>8. ASSUME NEW f \in {"data", "meta"}, RemoveFile(h, f)
      PROVE  HistoryType'
  <2>1. Promise(op[h], None) \/ promised' = promised
    BY <1>8 DEF RemoveFile
  <2>2. promised' \in [Object -> ETag \cup {None, Nothing}]
    BY <1>1, <1>2, <2>1, PromiseType DEF HistoryType
  <2> QED
    BY <1>1, <1>8, <2>2 DEF HistoryType, RemoveFile
<1>9. CASE RemoveBucket(h)
  <2>1. promised' \in [Object -> ETag \cup {None, Nothing}]
    BY <1>1, <1>9 DEF HistoryType, RemoveBucket
  <2> QED
    BY <1>1, <1>9, <2>1 DEF HistoryType, RemoveBucket
<1>10. CASE WritePart(h)
  <2>1. doubtful' = doubtful \/ doubtful' = doubtful \cup PartsOf(op[h])
    BY <1>10 DEF WritePart
  <2>2. doubtful' \subseteq Upload \X Part
    BY <1>1, <1>3, <2>1 DEF HistoryType
  <2> QED
    BY <1>1, <1>10, <2>2 DEF HistoryType, WritePart
<1>11. CASE NotePart(h)
  <2>1. \/ doubtful' = doubtful \/ doubtful' = doubtful \cup PartsOf(op[h])
        \/ doubtful' = doubtful \ PartsOf(op[h])
    BY <1>11 DEF NotePart
  <2>2. doubtful' \subseteq Upload \X Part
    BY <1>1, <1>3, <2>1 DEF HistoryType
  <2> QED
    BY <1>1, <1>11, <2>2 DEF HistoryType, NotePart
<1> QED
  BY <1>4, <1>5, <1>6, <1>7, <1>8, <1>9, <1>10, <1>11 DEF Proceed

LEMMA ProceedShape == ASSUME Shape, NEW h \in Handler, Proceed(h) PROVE Shape'
<1>1. Advance(h)
  BY ProceedAdvances
<1>2. KindInv'
  <2> SUFFICES ASSUME NEW g \in Handler, Busy(g)' PROVE KindStep(op'[g])
    BY DEF KindInv
  <2> QED
    BY <1>1 DEF Advance, Shape, KindInv, Busy
<1>3. StoreType'
  BY WriterStore, UploadStore DEF Proceed
<1> QED
  BY <1>1, <1>2, <1>3, ProceedHistory DEF Shape, Advance

LEMMA RequestShape == ASSUME Shape, NEW h \in Handler, Dispatch(h) PROVE Shape'
<1>1. PICK r : Fresh(r) /\ Start(h, r) /\ BeginsAs(h, r)
  BY RequestStarts
<1>2. KindInv'
  <2> SUFFICES ASSUME NEW g \in Handler, Busy(g)' PROVE KindStep(op'[g])
    BY DEF KindInv
  <2>1. CASE g = h
    BY <1>1, <2>1, LikeSame DEF Fresh, BeginsAs
  <2>2. CASE g # h
    <3>1. Busy(g) /\ Like(op'[g], op[g])
      BY <1>1, <2>2 DEF BeginsAs
    <3> QED
      BY <3>1, LikeSame DEF Shape, KindInv
  <2> QED
    BY <2>1, <2>2
<1>3. StoreType' /\ HistoryType'
  BY <1>1, StartsLeaves DEF Shape, StoreType, HistoryType
<1> QED
  BY <1>1, <1>2, <1>3 DEF BeginsAs, Shape

LEMMA CreateShape ==
  ASSUME Shape, NEW u \in Upload, NEW o \in Object, CreateUpload(u, o)
  PROVE  Shape'
<1> DEFINE dir == [object |-> o, part |-> [p \in Part |-> None], note |-> [p \in Part |-> None]]
<1>1. dir \in UploadDir
  BY DEF UploadDir
<1>2. uploads' = [uploads EXCEPT ![u] = dir]
  BY DEF CreateUpload
<1> HIDE DEF dir
<1>3. uploads' \in [Upload -> UploadDir \cup {None}]
  BY <1>1, <1>2 DEF Shape, StoreType
<1>4. StoreType'
  BY <1>3 DEF Shape, StoreType, CreateUpload, bucketFiles, objectFiles
<1>5. HistoryType'
  BY DEF Shape, HistoryType, CreateUpload
<1>6. Typed' /\ KindInv'
  BY DEF Shape, Typed, KindInv, CreateUpload, Busy
<1> QED
  BY <1>4, <1>5, <1>6 DEF Shape

LEMMA CrashShape == ASSUME Shape, Crash PROVE Shape'
<1> DEFINE running == {op[h] : h \in {h \in Handler : op[h] # NoOp}}
           torn == UNION {PartsOf(o) : o \in {o \in running : o.step \in {"write", "note"} \/ ~o.alone}}
<1>1. \A o \in running : PartsOf(o) \subseteq Upload \X Part
  BY PartsAreParts DEF Busy
<1>2. torn \subseteq Upload \X Part
  BY <1>1
<1>3. doubtful' = doubtful \cup torn
  BY DEF Crash
<1>4. \E S : Doubt(S)
  BY DEF Crash
<1>5. promised' \in [Object -> ETag \cup {None, Nothing}]
  BY <1>4, DoubtType DEF Shape
<1> HIDE DEF running, torn
<1>6. doubtful' \subseteq Upload \X Part
  BY <1>2, <1>3 DEF Shape, HistoryType
<1>7. faults' \in 0 .. MaxFaults
  BY ConstantsAssumption DEF Shape, HistoryType, Crash
<1>8. StoreType'
  BY DEF Shape, StoreType, Crash, bucketFiles, objectFiles
<1>9. Typed' /\ \A h \in Handler : ~Busy(h)'
  BY DEF Typed, Crash, Busy
<1> QED
  BY <1>5, <1>6, <1>7, <1>8, <1>9 DEF Shape, HistoryType, KindInv

LEMMA InitShape == StoreInit => Shape
<1> SUFFICES ASSUME StoreInit PROVE Shape
  OBVIOUS
<1>1. Typed /\ KindInv
  BY DEF StoreInit, Typed, KindInv, Busy
<1>2. StoreType
  BY DEF StoreInit, StoreType, Directory
<1>3. HistoryType
  BY ConstantsAssumption DEF StoreInit, HistoryType
<1> QED
  BY <1>1, <1>2, <1>3 DEF Shape

LEMMA NextShape == Shape /\ [StoreNext]_storeVars => Shape'
<1> SUFFICES ASSUME Shape, [StoreNext]_storeVars PROVE Shape'
  OBVIOUS
<1>1. CASE UNCHANGED storeVars
  BY <1>1 DEF storeVars, Shape, Typed, KindInv, Busy, StoreType, HistoryType
<1>2. CASE StoreNext
  BY <1>2, ProceedShape, RequestShape, CreateShape, CrashShape DEF StoreNext
<1> QED
  BY <1>1, <1>2

(* Every variable keeps its type, for any buckets, keys, blocks, uploads,  *)
(* parts, requests at once and faults (store.ts).                          *)
THEOREM StoreTypeCorrect == StoreSpec => []StoreTypeOK
<1>1. StoreSpec => []Shape
  BY InitShape, NextShape, PTL DEF StoreSpec
<1> QED
  BY <1>1, ShapeIsTyped, PTL

-----------------------------------------------------------------------------
(* The invariant                                                           *)

(* Requests in each other's way know it.                                   *)
AloneInv ==
  \A g, h \in Handler : g # h /\ Busy(g) /\ Busy(h) /\ Conflict(op[g], op[h]) =>
    ~op[g].alone /\ ~op[h].alone

(* What a request that is alone knows of what it holds.                    *)
HoldsIn(o, d, m, prom, dirOf) ==
  /\ o.step \in {"body", "read", "data"} /\ o.sound => o.bytes = o.etag
  /\ o.step = "copy" => o.etag = m[o.source]
  /\ o.step \in {"meta", "undo"} => prom[o.object] \in {Nothing, m[o.object]}
  /\ o.step = "meta" /\ o.sound => d[o.object] = o.etag
  /\ o.kind = "delete" => /\ "data" \notin o.left => d[o.object] = None
                          /\ "meta" \notin o.left => m[o.object] = None
  /\ o.kind = "deleteBucket" => \A x \in InBucket(o.object[1]) : prom[x] \in {None, Nothing}
  /\ o.step = "note" /\ dirOf[o.upload] # None => dirOf[o.upload].part[o.part] = o.etag[1]
Holds(h) == HoldsIn(op[h], data, meta, promised, uploads)
HoldInv == \A h \in Handler : Busy(h) /\ op[h].alone => Holds(h)

(* An object is as promised, or a request has replaced one of its files.   *)
Settled(x) == promised[x] # Nothing => data[x] = promised[x] /\ meta[x] = promised[x]
Halves(h, x) == Busy(h) /\ x \in Half(op[h])
ObjectInv == \A x \in Object : Settled(x) \/ \E h \in Handler : Halves(h, x)

(* A part is as noted, or a request has opened it, or is not alone with it. *)
Noted(u, p) == uploads[u].part[p] \in {uploads[u].note[p], None}
Spoils(h, u, p) ==
  /\ Busy(h) /\ op[h].kind = "part" /\ op[h].upload = u /\ op[h].part = p
  /\ op[h].step # "open" \/ ~op[h].alone
PartInv ==
  \A u \in Upload, p \in Part : uploads[u] # None =>
    Noted(u, p) \/ <<u, p>> \in doubtful \/ \E h \in Handler : Spoils(h, u, p)

IInv == Shape /\ AloneInv /\ HoldInv /\ ObjectInv /\ PartInv

-----------------------------------------------------------------------------
(* Requests in each other's way                                            *)

LEMMA ConflictBoth == ASSUME NEW a, NEW b PROVE Conflict(a, b) <=> Conflict(b, a)
BY DEF Conflict

(* What a request holds when it goes on.                                   *)
LEMMA AdvanceErrand ==
  ASSUME NEW h \in Handler, Advance(h), Busy(h)'
  PROVE  /\ Writes(op'[h]) = Writes(op[h]) /\ PartsOf(op'[h]) = PartsOf(op[h])
         /\ Reads(op'[h]) \subseteq Reads(op[h]) \cup Writes(op[h])
         /\ op'[h].alone = op[h].alone
<1>1. /\ op'[h].kind = op[h].kind /\ op'[h].object = op[h].object /\ op'[h].upload = op[h].upload
      /\ op'[h].part = op[h].part /\ op'[h].alone = op[h].alone
      /\ op'[h].source \in {op[h].source, op[h].object}
  BY DEF Advance
<1>2. Writes(op'[h]) = Writes(op[h]) /\ PartsOf(op'[h]) = PartsOf(op[h])
  BY <1>1 DEF Writes, PartsOf
<1>3. Reads(op'[h]) \subseteq Reads(op[h]) \cup Writes(op[h])
  BY <1>1 DEF Reads, Writes
<1> QED
  BY <1>1, <1>2, <1>3

LEMMA ConflictShrinks ==
  ASSUME NEW m, NEW o, NEW a, Writes(m) = Writes(o), PartsOf(m) = PartsOf(o),
         Reads(m) \subseteq Reads(o) \cup Writes(o), Conflict(m, a)
  PROVE  Conflict(o, a)
<1>1. \/ Writes(m) \cap Writes(a) # {} \/ Writes(m) \cap Reads(a) # {}
      \/ Reads(m) \cap Writes(a) # {} \/ PartsOf(m) \cap PartsOf(a) # {}
  BY DEF Conflict
<1>2. Reads(m) \cap Writes(a) # {} => Reads(o) \cap Writes(a) # {} \/ Writes(o) \cap Writes(a) # {}
  OBVIOUS
<1> QED
  BY <1>1, <1>2 DEF Conflict

LEMMA ProceedAlone ==
  ASSUME AloneInv, NEW h \in Handler, Advance(h)
  PROVE  AloneInv'
<1> SUFFICES ASSUME NEW f \in Handler, NEW g \in Handler, f # g, Busy(f)', Busy(g)',
                    Conflict(op'[f], op'[g])
             PROVE  ~op'[f].alone /\ ~op'[g].alone
  BY DEF AloneInv
<1>1. ASSUME NEW e \in Handler \ {h}
      PROVE  op'[e] = op[e] /\ (Busy(e)' <=> Busy(e))
  BY DEF Advance, Busy
<1>2. CASE f = h
  <2>1. Conflict(op[h], op[g])
    <3>1. op'[g] = op[g]
      BY <1>1, <1>2
    <3>2. Conflict(op'[h], op[g])
      BY <1>2, <3>1
    <3> QED
      BY <1>2, <3>2, AdvanceErrand, ConflictShrinks
  <2>2. ~op[h].alone /\ ~op[g].alone
    BY <1>1, <1>2, <2>1 DEF AloneInv, Advance
  <2> QED
    BY <1>1, <1>2, <2>2, AdvanceErrand
<1>3. CASE g = h
  <2>1. Conflict(op[h], op[f])
    <3>1. op'[f] = op[f]
      BY <1>1, <1>3
    <3>2. Conflict(op'[h], op[f])
      BY <1>3, <3>1, ConflictBoth
    <3> QED
      BY <1>3, <3>2, AdvanceErrand, ConflictShrinks
  <2>2. ~op[h].alone /\ ~op[f].alone
    BY <1>1, <1>3, <2>1 DEF AloneInv, Advance
  <2> QED
    BY <1>1, <1>3, <2>2, AdvanceErrand
<1>4. CASE f # h /\ g # h
  BY <1>1, <1>4 DEF AloneInv
<1> QED
  BY <1>2, <1>3, <1>4

LEMMA LikeConflict ==
  ASSUME NEW m, NEW o, NEW n, NEW q, Like(m, o), Like(n, q)
  PROVE  Conflict(m, n) <=> Conflict(o, q)
<1>1. /\ Writes(m) = Writes(o) /\ Reads(m) = Reads(o) /\ PartsOf(m) = PartsOf(o)
      /\ Writes(n) = Writes(q) /\ Reads(n) = Reads(q) /\ PartsOf(n) = PartsOf(q)
  BY LikeSame
<1> QED
  BY <1>1 DEF Conflict

LEMMA StartsAlone ==
  ASSUME Shape, AloneInv, NEW h \in Handler, NEW r, BeginsAs(h, r)
  PROVE  AloneInv'
<1>1. ASSUME NEW g \in Handler, g # h, Busy(g)', Conflict(op'[h], op'[g])
      PROVE  ~op'[h].alone /\ ~op'[g].alone
  <2>1. Busy(g) /\ Like(op'[h], r) /\ Like(op'[g], op[g])
    BY <1>1 DEF BeginsAs
  <2>2. Conflict(r, op[g])
    BY <1>1, <2>1, LikeConflict
  <2> QED
    BY <1>1, <2>1, <2>2 DEF BeginsAs
<1>2. ASSUME NEW f \in Handler, NEW g \in Handler, f # g, f # h, g # h, Busy(f)', Busy(g)',
             Conflict(op'[f], op'[g])
      PROVE  ~op'[f].alone /\ ~op'[g].alone
  <2>1. Busy(f) /\ Like(op'[f], op[f]) /\ Busy(g) /\ Like(op'[g], op[g])
    BY <1>2 DEF BeginsAs
  <2>2. Conflict(op[f], op[g])
    BY <1>2, <2>1, LikeConflict
  <2>3. ~op[f].alone /\ ~op[g].alone
    BY <1>2, <2>1, <2>2 DEF AloneInv
  <2> QED
    BY <1>2, <2>1, <2>3 DEF BeginsAs
<1> QED
  BY <1>1, <1>2, ConflictBoth DEF AloneInv

(* Nobody else works on what a request that is alone writes or reads.      *)
LEMMA Undisturbed ==
  ASSUME AloneInv, NEW g \in Handler, NEW h \in Handler, g # h, Busy(g), Busy(h), op[g].alone
  PROVE  /\ (Writes(op[g]) \cup Reads(op[g])) \cap Writes(op[h]) = {}
         /\ PartsOf(op[g]) \cap PartsOf(op[h]) = {}
<1>1. ~Conflict(op[g], op[h])
  BY DEF AloneInv
<1> QED
  BY <1>1 DEF Conflict

LEMMA HalfWrites == ASSUME NEW o, KindStep(o) PROVE Half(o) \subseteq Writes(o)
BY DEF KindStep, Half, Writes

(* An object that a request alone writes or reads: settled, or half done   *)
(* by itself.                                                              *)
LEMMA MyObject ==
  ASSUME IInv, NEW h \in Handler, Busy(h), op[h].alone, NEW x \in Object,
         x \in Writes(op[h]) \cup Reads(op[h])
  PROVE  Settled(x) \/ x \in Half(op[h])
<1>1. Settled(x) \/ \E g \in Handler : Halves(g, x)
  BY DEF IInv, ObjectInv
<1>2. ASSUME NEW g \in Handler, g # h, Halves(g, x)
      PROVE  FALSE
  <2>1. Busy(g) /\ x \in Half(op[g]) /\ KindStep(op[g])
    BY <1>2 DEF Halves, IInv, Shape, KindInv
  <2>2. x \in Writes(op[g])
    BY <2>1, HalfWrites
  <2> QED
    BY <1>2, <2>1, <2>2, Undisturbed DEF IInv
<1> QED
  BY <1>1, <1>2 DEF Halves

LEMMA MyPart ==
  ASSUME IInv, NEW h \in Handler, Busy(h), op[h].alone, NEW u \in Upload, NEW p \in Part,
         <<u, p>> \in PartsOf(op[h]), uploads[u] # None
  PROVE  Noted(u, p) \/ <<u, p>> \in doubtful \/ Spoils(h, u, p)
<1>1. Noted(u, p) \/ <<u, p>> \in doubtful \/ \E g \in Handler : Spoils(g, u, p)
  BY DEF IInv, PartInv
<1>2. ASSUME NEW g \in Handler, g # h, Spoils(g, u, p)
      PROVE  FALSE
  <2>1. Busy(g) /\ <<u, p>> \in PartsOf(op[g])
    BY <1>2 DEF Spoils, PartsOf
  <2> QED
    BY <1>2, <2>1, Undisturbed DEF IInv
<1> QED
  BY <1>1, <1>2

-----------------------------------------------------------------------------
(* What a step leaves alone                                                *)

(* The step of h leaves every object that its request does not write.      *)
LEMMA ObjectFrame ==
  ASSUME Shape, NEW h \in Handler, Proceed(h), NEW x \in Object, x \notin Writes(op[h])
  PROVE  data'[x] = data[x] /\ meta'[x] = meta[x] /\ promised'[x] = promised[x]
<1> USE DEF bucketFiles, objectFiles, history
<1>1. Busy(h) /\ KindStep(op[h]) /\ op[h].object \in Object
  BY ProceedAdvances, ErrandType DEF Advance
<1>2. /\ data \in [Object -> Bytes \cup {None}] /\ meta \in [Object -> ETag \cup {None}]
      /\ promised \in [Object -> ETag \cup {None, Nothing}]
  BY DEF Shape, StoreType, HistoryType
<1>3. op[h].kind \in {"put", "copy", "delete", "complete"} => x # op[h].object
  BY DEF Writes
<1>4. ASSUME NEW what, Promise(op[h], what), x # op[h].object
      PROVE  promised'[x] = promised[x]
  BY <1>2, <1>4 DEF Promise
<1>5. CASE \/ PutBody(h) \/ CopyFile(h) \/ MetaFails(h) \/ MakeDir(h) \/ Describe(h)
           \/ OpenPart(h) \/ WritePart(h) \/ NotePart(h) \/ ReadPart(h) \/ Assembled(h)
           \/ RemoveUpload(h)
  BY <1>5 DEF PutBody, CopyFile, MetaFails, MakeDir, Describe, OpenPart, WritePart, NotePart,
     ReadPart, Assembled, RemoveUpload
<1>6. CASE ReplaceData(h)
  <2>1. x # op[h].object
    BY <1>3, <1>6, ReplaceDataNow
  <2> QED
    BY <1>2, <1>6, <2>1 DEF ReplaceData
<1>7. CASE ReplaceMeta(h)
  <2>1. x # op[h].object
    BY <1>1, <1>3, <1>7 DEF ReplaceMeta, At, KindStep
  <2> QED
    BY <1>2, <1>4, <1>7, <2>1 DEF ReplaceMeta
<1>8. CASE Undo(h)
  <2>1. x # op[h].object
    BY <1>1, <1>3, <1>8 DEF Undo, At, KindStep
  <2> QED
    BY <1>2, <1>8, <2>1 DEF Undo, Doubt
<1>9. ASSUME NEW f \in {"data", "meta"}, RemoveFile(h, f)
      PROVE  data'[x] = data[x] /\ meta'[x] = meta[x] /\ promised'[x] = promised[x]
  <2>1. x # op[h].object
    BY <1>3, <1>9 DEF RemoveFile
  <2>2. promised'[x] = promised[x]
    BY <1>4, <1>9, <2>1 DEF RemoveFile
  <2> QED
    BY <1>2, <1>9, <2>1, <2>2 DEF RemoveFile
<1>10. CASE RemoveBucket(h)
  <2>1. op[h].kind = "deleteBucket"
    BY <1>10 DEF RemoveBucket
  <2>2. x \notin InBucket(op[h].object[1])
    BY <2>1 DEF Writes
  <2> QED
    BY <1>10, <2>2 DEF RemoveBucket
<1> QED
  BY <1>5, <1>6, <1>7, <1>8, <1>9, <1>10 DEF Proceed

(* The step of h leaves every part that its request does not work on.      *)
LEMMA PartFrame ==
  ASSUME Shape, NEW h \in Handler, Proceed(h), NEW u \in Upload, NEW p \in Part,
         <<u, p>> \notin PartsOf(op[h])
  PROVE  /\ uploads'[u] # None => /\ uploads[u] # None
                                  /\ uploads'[u].part[p] = uploads[u].part[p]
                                  /\ uploads'[u].note[p] = uploads[u].note[p]
         /\ <<u, p>> \in doubtful => <<u, p>> \in doubtful'
<1> USE DEF bucketFiles, objectFiles, history
<1>1. /\ Busy(h) /\ KindStep(op[h]) /\ op[h].part \in Part
      /\ op[h].kind \in {"part", "complete", "abort"} => op[h].upload \in Upload
  BY ProceedAdvances, ErrandType DEF Advance, KindStep
<1>2. uploads \in [Upload -> UploadDir \cup {None}]
  BY DEF Shape, StoreType
<1>3. CASE \/ PutBody(h) \/ CopyFile(h) \/ ReplaceData(h) \/ ReplaceMeta(h) \/ MetaFails(h)
           \/ Undo(h) \/ (\E f \in {"data", "meta"} : RemoveFile(h, f))
           \/ MakeDir(h) \/ Describe(h) \/ RemoveBucket(h) \/ ReadPart(h) \/ Assembled(h)
  BY <1>3 DEF PutBody, CopyFile, ReplaceData, ReplaceMeta, MetaFails, Undo, RemoveFile, MakeDir,
     Describe, RemoveBucket, ReadPart, Assembled
<1>4. CASE OpenPart(h) \/ WritePart(h) \/ NotePart(h)
  <2>1. op[h].kind = "part"
    BY <1>1, <1>4 DEF OpenPart, WritePart, NotePart, At, KindStep
  <2>2. PartsOf(op[h]) = {<<op[h].upload, op[h].part>>}
    BY <2>1 DEF PartsOf
  <2>3. u # op[h].upload \/ p # op[h].part
    BY <2>2
  <2>4. \/ doubtful' = doubtful \/ doubtful' = doubtful \cup PartsOf(op[h])
        \/ doubtful' = doubtful \ PartsOf(op[h])
    BY <1>4 DEF OpenPart, WritePart, NotePart
  <2>5. <<u, p>> \in doubtful => <<u, p>> \in doubtful'
    BY <2>4
  <2>6. \/ uploads' = uploads
        \/ uploads[op[h].upload] # None /\
           \/ \E b : uploads' = [uploads EXCEPT ![op[h].upload].part[op[h].part] = b]
           \/ \E b : uploads' = [uploads EXCEPT ![op[h].upload].note[op[h].part] = b]
    <3>1. CASE OpenPart(h)
      BY <3>1 DEF OpenPart
    <3>2. CASE WritePart(h)
      BY <3>2 DEF WritePart
    <3>3. CASE NotePart(h)
      BY <3>3 DEF NotePart
    <3> QED
      BY <1>4, <3>1, <3>2, <3>3
  <2>7. CASE uploads' = uploads
    BY <2>5, <2>7
  <2> DEFINE v == op[h].upload
             q == op[h].part
  <2>8. ASSUME uploads[v] # None,
               \/ \E b : uploads' = [uploads EXCEPT ![v].part[q] = b]
               \/ \E b : uploads' = [uploads EXCEPT ![v].note[q] = b]
        PROVE  uploads'[u] # None =>
                 /\ uploads[u] # None
                 /\ uploads'[u].part[p] = uploads[u].part[p]
                 /\ uploads'[u].note[p] = uploads[u].note[p]
    <3>1. uploads[v] \in UploadDir
      BY <1>1, <1>2, <2>1, <2>8
    <3>2. CASE u # v
      BY <1>2, <2>8, <3>2
    <3>3. CASE u = v /\ p # q
      <4>1. ASSUME NEW b, uploads' = [uploads EXCEPT ![v].part[q] = b]
            PROVE  uploads'[u].part[p] = uploads[u].part[p] /\ uploads'[u].note[p] = uploads[u].note[p]
        BY <1>2, <3>1, <3>3, <4>1 DEF UploadDir
      <4>2. ASSUME NEW b, uploads' = [uploads EXCEPT ![v].note[q] = b]
            PROVE  uploads'[u].part[p] = uploads[u].part[p] /\ uploads'[u].note[p] = uploads[u].note[p]
        BY <1>2, <3>1, <3>3, <4>2 DEF UploadDir
      <4> QED
        BY <2>8, <3>3, <4>1, <4>2
    <3> QED
      BY <2>3, <3>2, <3>3
  <2> QED
    BY <2>5, <2>6, <2>7, <2>8
<1>5. CASE RemoveUpload(h)
  <2>1. op[h].kind \in {"complete", "abort"}
    BY <1>1, <1>5 DEF RemoveUpload, At, KindStep
  <2>2. u # op[h].upload
    BY <2>1 DEF PartsOf
  <2> QED
    BY <1>2, <1>5, <2>2 DEF RemoveUpload
<1> QED
  BY <1>3, <1>4, <1>5 DEF Proceed

(* What a request holds rests on the objects and parts it works on only.   *)
LEMMA HoldKept ==
  ASSUME NEW o \in Op, KindStep(o),
         NEW d, NEW m, NEW r, NEW w, HoldsIn(o, d, m, r, w),
         NEW d2, NEW m2, NEW r2, NEW w2,
         \A x \in Object : x \in Writes(o) \cup Reads(o) =>
           d2[x] = d[x] /\ m2[x] = m[x] /\ r2[x] = r[x],
         \A u \in Upload, p \in Part : <<u, p>> \in PartsOf(o) /\ w2[u] # None =>
           w[u] # None /\ w2[u].part[p] = w[u].part[p]
  PROVE  HoldsIn(o, d2, m2, r2, w2)
<1>1. o.object \in Object /\ o.source \in Object /\ o.part \in Part
  BY DEF Op
<1>2. o.kind \in {"put", "copy", "delete", "complete"} => o.object \in Writes(o)
  BY DEF Writes
<1>3. o.kind = "copy" => o.source \in Reads(o)
  BY DEF Reads
<1>4. o.kind = "deleteBucket" => Writes(o) = InBucket(o.object[1])
  BY DEF Writes
<1>5. o.kind = "part" => o.upload \in Upload /\ <<o.upload, o.part>> \in PartsOf(o)
  BY DEF PartsOf, KindStep
<1>6. o.step = "copy" => o.etag = m2[o.source]
  BY <1>1, <1>3 DEF HoldsIn, KindStep
<1>7. o.step \in {"meta", "undo"} => r2[o.object] \in {Nothing, m2[o.object]}
  BY <1>1, <1>2 DEF HoldsIn, KindStep
<1>8. o.step = "meta" /\ o.sound => d2[o.object] = o.etag
  BY <1>1, <1>2 DEF HoldsIn, KindStep
<1>9. o.kind = "delete" => /\ "data" \notin o.left => d2[o.object] = None
                           /\ "meta" \notin o.left => m2[o.object] = None
  BY <1>1, <1>2 DEF HoldsIn
<1>10. o.kind = "deleteBucket" => \A x \in InBucket(o.object[1]) : r2[x] \in {None, Nothing}
  BY <1>4 DEF HoldsIn, InBucket
<1>11. o.step = "note" /\ w2[o.upload] # None => w2[o.upload].part[o.part] = o.etag[1]
  BY <1>1, <1>5 DEF HoldsIn, KindStep
<1> QED
  BY <1>6, <1>7, <1>8, <1>9, <1>10, <1>11 DEF HoldsIn

(* A step of h leaves what the others hold.                                *)
LEMMA OthersHold ==
  ASSUME IInv, NEW h \in Handler, Proceed(h), NEW g \in Handler, g # h, Busy(g)', op'[g].alone
  PROVE  Holds(g)'
<1>1. Advance(h) /\ Busy(h)
  BY ProceedAdvances DEF Advance, IInv
<1>2. op'[g] = op[g] /\ Busy(g) /\ op[g].alone
  BY <1>1 DEF Advance, Busy
<1>3. op[g] \in Op /\ KindStep(op[g]) /\ HoldsIn(op[g], data, meta, promised, uploads)
  BY <1>2, InProgress DEF IInv, Shape, KindInv, HoldInv, Holds
<1>4. /\ (Writes(op[g]) \cup Reads(op[g])) \cap Writes(op[h]) = {}
      /\ PartsOf(op[g]) \cap PartsOf(op[h]) = {}
  BY <1>1, <1>2, Undisturbed DEF IInv
<1>5. \A x \in Object : x \in Writes(op[g]) \cup Reads(op[g]) =>
        data'[x] = data[x] /\ meta'[x] = meta[x] /\ promised'[x] = promised[x]
  BY <1>4, ObjectFrame DEF IInv
<1>6. \A u \in Upload, p \in Part : <<u, p>> \in PartsOf(op[g]) /\ uploads'[u] # None =>
        uploads[u] # None /\ uploads'[u].part[p] = uploads[u].part[p]
  BY <1>4, PartFrame DEF IInv
<1>7. HoldsIn(op[g], data', meta', promised', uploads')
  BY <1>3, <1>5, <1>6, HoldKept
<1> QED
  BY <1>2, <1>7 DEF Holds

-----------------------------------------------------------------------------
(* What a step leaves its own request with                                 *)

(* At these steps only some of it says anything.                           *)
LEMMA HoldsAt ==
  ASSUME NEW o, KindStep(o), NEW d, NEW m, NEW r, NEW w,
         \/ o.step \in {"mkdir", "describe", "open", "write", "clean"}
         \/ o.step \in {"body", "read", "data"} /\ (o.sound => o.bytes = o.etag)
         \/ /\ o.step = "meta" /\ r[o.object] \in {Nothing, m[o.object]}
            /\ o.sound => d[o.object] = o.etag
         \/ o.step = "undo" /\ r[o.object] \in {Nothing, m[o.object]}
         \/ o.step = "note" /\ (w[o.upload] # None => w[o.upload].part[o.part] = o.etag[1])
  PROVE  HoldsIn(o, d, m, r, w)
BY DEF HoldsIn, KindStep

LEMMA OwnWriter ==
  ASSUME IInv, NEW h \in Handler, Busy(h)', op'[h].alone, KindStep(op'[h]), Advance(h),
         PutBody(h) \/ CopyFile(h) \/ ReplaceData(h) \/ ReplaceMeta(h) \/ MetaFails(h) \/ Assembled(h)
  PROVE  Holds(h)'
<1> USE DEF bucketFiles, objectFiles, history
<1>1. /\ Shape /\ Typed /\ Busy(h) /\ KindStep(op[h]) /\ op[h].alone
      /\ op[h].object \in Object /\ op[h].source \in Object
  BY ErrandType, AdvanceErrand DEF IInv, Shape, Advance
<1>2. HoldsIn(op[h], data, meta, promised, uploads)
  BY <1>1 DEF IInv, HoldInv, Holds
<1>3. ~Over(h)
  BY DEF Over
<1>4. data \in [Object -> Bytes \cup {None}]
  BY <1>1 DEF Shape, StoreType
<1> SUFFICES HoldsIn(op'[h], data', meta', promised', uploads')
  BY DEF Holds
<1>5. CASE PutBody(h) \/ Assembled(h)
  <2>1. MovesOn(h, "data") /\ op[h].step \in {"body", "read"}
    <3>1. End(h) \/ Goto(h, "data")
      BY <1>5 DEF PutBody, Assembled
    <3>2. Goto(h, "data")
      BY <1>1, <1>3, <3>1, Ending
    <3> QED
      BY <1>1, <1>5, <3>2, Going DEF PutBody, Assembled, At, Step
  <2>2. op[h].sound => op[h].bytes = op[h].etag
    BY <1>2, <2>1 DEF HoldsIn
  <2> QED
    BY <2>1, <2>2, HoldsAt DEF MovesOn, Now
<1>6. CASE CopyFile(h)
  <2> DEFINE s == op[h].source
  <2>1. /\ op[h].kind = "copy" /\ op[h].step = "copy"
        /\ Now(h, "data", op[h].object, data[s], op[h].etag, op[h].left, promised[s] # Nothing)
    BY <1>1, <1>3, <1>6, CopyFileNow DEF CopyFile, At
  <2>2. op[h].etag = meta[s]
    BY <1>2, <2>1 DEF HoldsIn
  <2>3. Settled(s) \/ s \in Half(op[h])
    BY <1>1, <2>1, MyObject DEF Reads
  <2>4. s \notin Half(op[h])
    BY <2>1 DEF Half
  <2>5. promised[s] # Nothing => data[s] = op[h].etag
    BY <2>2, <2>3, <2>4 DEF Settled
  <2> QED
    BY <2>1, <2>5, HoldsAt DEF Now
<1>7. CASE ReplaceData(h)
  <2> DEFINE x == op[h].object
  <2>1. /\ op[h].kind \in {"put", "copy", "complete"} /\ op[h].step = "data"
        /\ data' = [data EXCEPT ![x] = op[h].bytes]
        /\ Now(h, "meta", op[h].source, <<>>, op[h].etag, op[h].left, op[h].sound)
    BY <1>1, <1>3, <1>7, ReplaceDataNow DEF ReplaceData, At
  <2>2. op[h].sound => op[h].bytes = op[h].etag
    BY <1>2, <2>1 DEF HoldsIn
  <2>3. Settled(x) \/ x \in Half(op[h])
    BY <1>1, <2>1, MyObject DEF Writes
  <2>4. x \notin Half(op[h])
    BY <2>1 DEF Half
  <2>5. promised[x] \in {Nothing, meta[x]}
    BY <2>3, <2>4 DEF Settled
  <2>6. meta' = meta /\ promised' = promised /\ data'[x] = op[h].bytes
    BY <1>1, <1>4, <1>7, <2>1 DEF ReplaceData
  <2>7. /\ op'[h].step = "meta" /\ op'[h].object = x /\ op'[h].etag = op[h].etag
        /\ op'[h].sound = op[h].sound
    BY <2>1 DEF Now
  <2> HIDE DEF x
  <2>8. /\ promised'[op'[h].object] \in {Nothing, meta'[op'[h].object]}
        /\ op'[h].sound => data'[op'[h].object] = op'[h].etag
    BY <2>2, <2>5, <2>6, <2>7
  <2> QED
    BY <2>7, <2>8, HoldsAt
<1>8. CASE ReplaceMeta(h)
  <2>1. End(h) \/ Goto(h, "clean")
    BY <1>8 DEF ReplaceMeta
  <2>2. MovesOn(h, "clean")
    BY <1>1, <1>3, <2>1, Ending, Going DEF Step
  <2> QED
    BY <2>2, HoldsAt DEF MovesOn, Now
<1>9. CASE MetaFails(h)
  <2>1. MovesOn(h, "undo") /\ op[h].step = "meta"
    BY <1>1, <1>9, Going DEF MetaFails, At, Step
  <2>2. promised[op[h].object] \in {Nothing, meta[op[h].object]}
    BY <1>2, <2>1 DEF HoldsIn
  <2>3. promised' = promised /\ meta' = meta
    BY <1>9 DEF MetaFails
  <2> QED
    BY <2>1, <2>2, <2>3, HoldsAt DEF MovesOn, Now
<1> QED
  BY <1>5, <1>6, <1>7, <1>8, <1>9

LEMMA OwnReader ==
  ASSUME IInv, NEW h \in Handler, Busy(h)', op'[h].alone, KindStep(op'[h]), Advance(h),
         ReadPart(h)
  PROVE  Holds(h)'
<1>1. /\ Shape /\ Busy(h) /\ KindStep(op[h]) /\ op[h].alone /\ ~Over(h)
  BY ErrandType, AdvanceErrand DEF IInv, Advance, Over
<1>2. HoldsIn(op[h], data, meta, promised, uploads)
  BY <1>1 DEF IInv, HoldInv, Holds
<1> DEFINE dir == uploads[op[h].upload]
<1>3. PICK p \in Part :
        /\ dir # None /\ dir.part[p] # None
        /\ Now(h, "read", op[h].source, Append(op[h].bytes, dir.part[p]),
               Append(op[h].etag, dir.note[p]), op[h].left,
               op[h].sound /\ <<op[h].upload, p>> \notin doubtful)
  BY <1>1, ReadPartNow
<1>4. op[h].kind = "complete" /\ op[h].step = "read" /\ op[h].upload \in Upload
  BY <1>1, ReadPartNow DEF KindStep
<1>5. op[h].sound => op[h].bytes = op[h].etag
  BY <1>2, <1>4 DEF HoldsIn
<1>6. <<op[h].upload, p>> \notin doubtful => dir.part[p] = dir.note[p]
  <2>1. <<op[h].upload, p>> \in PartsOf(op[h])
    BY <1>4 DEF PartsOf
  <2>2. Noted(op[h].upload, p) \/ <<op[h].upload, p>> \in doubtful
    BY <1>1, <1>3, <1>4, <2>1, MyPart DEF Spoils
  <2> QED
    BY <1>3, <2>2 DEF Noted
<1>7. op'[h].step = "read" /\ (op'[h].sound => op'[h].bytes = op'[h].etag)
  BY <1>3, <1>5, <1>6 DEF Now
<1>8. HoldsIn(op'[h], data', meta', promised', uploads')
  BY <1>7, HoldsAt
<1> QED
  BY <1>8 DEF Holds

LEMMA OwnRemover ==
  ASSUME IInv, NEW h \in Handler, Busy(h)', op'[h].alone, Advance(h),
         NEW f \in {"data", "meta"}, RemoveFile(h, f)
  PROVE  Holds(h)'
<1>1. /\ Shape /\ Busy(h) /\ op[h].alone /\ ~Over(h) /\ op[h].object \in Object
      /\ op[h].left \subseteq {"data", "meta"}
  BY ErrandType, AdvanceErrand DEF IInv, Advance, Over
<1>2. HoldsIn(op[h], data, meta, promised, uploads)
  BY <1>1 DEF IInv, HoldInv, Holds
<1>3. /\ op[h].kind = "delete"
      /\ Now(h, "remove", op[h].source, op[h].bytes, op[h].etag, op[h].left \ {f}, op[h].sound)
  BY <1>1, RemoveFileNow
<1> DEFINE x == op[h].object
<1>4. /\ "data" \notin op[h].left => data[x] = None
      /\ "meta" \notin op[h].left => meta[x] = None
  BY <1>2, <1>3 DEF HoldsIn
<1>5. /\ data' = IF f = "data" THEN [data EXCEPT ![x] = None] ELSE data
      /\ meta' = IF f = "meta" THEN [meta EXCEPT ![x] = None] ELSE meta
  BY DEF RemoveFile
<1>6. x \in DOMAIN data /\ x \in DOMAIN meta
  BY <1>1 DEF Shape, StoreType
<1>7. /\ "data" \notin op[h].left \ {f} => data'[x] = None
      /\ "meta" \notin op[h].left \ {f} => meta'[x] = None
  BY <1>4, <1>5, <1>6
<1>8. /\ op'[h].kind = "delete" /\ op'[h].step = "remove" /\ op'[h].object = x
      /\ op'[h].left = op[h].left \ {f}
  BY <1>3 DEF Now
<1>9. HoldsIn(op'[h], data', meta', promised', uploads')
  BY <1>7, <1>8 DEF HoldsIn
<1> QED
  BY <1>9 DEF Holds

LEMMA OwnUpload ==
  ASSUME IInv, NEW h \in Handler, Busy(h)', op'[h].alone, KindStep(op'[h]), Advance(h),
         \/ MakeDir(h) \/ Describe(h) \/ OpenPart(h) \/ WritePart(h)
         \/ Undo(h) \/ RemoveBucket(h) \/ NotePart(h) \/ RemoveUpload(h)
  PROVE  Holds(h)'
<1>1. Shape /\ Typed /\ Busy(h) /\ KindStep(op[h]) /\ op[h].alone /\ ~Over(h) /\ op[h].part \in Part
  BY ErrandType, AdvanceErrand DEF IInv, Shape, Advance, Over
<1>2. ~End(h)
  BY <1>1, Ending
<1> SUFFICES HoldsIn(op'[h], data', meta', promised', uploads')
  BY DEF Holds
<1>3. CASE MakeDir(h)
  <2>1. MovesOn(h, "describe") \/ Now(h, "mkdir", op[h].source, op[h].bytes, op[h].etag, {"data"}, op[h].sound)
    BY <1>1, <1>3, MakeDirNow
  <2>2. op'[h].step \in {"mkdir", "describe"}
    BY <2>1 DEF MovesOn, Now
  <2> QED
    BY <2>2, HoldsAt
<1>4. CASE OpenPart(h)
  <2>1. MovesOn(h, "write")
    BY <1>1, <1>2, <1>4, Going DEF OpenPart, Step
  <2> QED
    BY <2>1, HoldsAt DEF MovesOn, Now
<1>5. CASE WritePart(h)
  <2> DEFINE u == op[h].upload
             p == op[h].part
  <2>1. /\ uploads[u] # None /\ Goto(h, "note") /\ op[h].step = "write"
        /\ uploads' = [uploads EXCEPT ![u].part[p] = op[h].bytes[1]]
    BY <1>1, <1>2, <1>5 DEF WritePart, At
  <2>2. op[h].kind = "part"
    BY <1>1, <2>1 DEF KindStep
  <2>3. u \in Upload /\ op[h].bytes = op[h].etag
    BY <1>1, <2>2, PartSent
  <2>4. uploads[u] \in UploadDir /\ uploads \in [Upload -> UploadDir \cup {None}]
    BY <1>1, <2>1, <2>3 DEF Shape, StoreType
  <2>5. uploads'[u].part[p] = op[h].etag[1]
    BY <1>1, <2>1, <2>3, <2>4 DEF UploadDir
  <2>6. MovesOn(h, "note")
    BY <1>1, <2>1, Going DEF Step
  <2>7. op'[h].step = "note" /\ op'[h].upload = u /\ op'[h].part = p /\ op'[h].etag = op[h].etag
    BY <2>6 DEF MovesOn, Now
  <2> QED
    BY <2>5, <2>7, HoldsAt
<1>6. CASE Describe(h) \/ Undo(h) \/ RemoveBucket(h) \/ NotePart(h) \/ RemoveUpload(h)
  BY <1>2, <1>6 DEF Describe, Undo, RemoveBucket, NotePart, RemoveUpload
<1> QED
  BY <1>3, <1>4, <1>5, <1>6

LEMMA ProceedHold == ASSUME IInv, NEW h \in Handler, Proceed(h) PROVE HoldInv'
<1>1. Advance(h)
  BY ProceedAdvances DEF IInv
<1> SUFFICES ASSUME NEW g \in Handler, Busy(g)', op'[g].alone PROVE Holds(g)'
  BY DEF HoldInv
<1>2. CASE g # h
  BY <1>2, OthersHold
<1>3. CASE g = h
  <2>1. KindStep(op'[h])
    BY <1>1, <1>3 DEF Advance
  <2> QED
    BY <1>1, <1>3, <2>1, OwnWriter, OwnReader, OwnRemover, OwnUpload DEF Proceed
<1> QED
  BY <1>2, <1>3

-----------------------------------------------------------------------------
(* Objects                                                                 *)

(* The step of h settles what it writes, or leaves it half done.           *)
LEMMA OwnObject ==
  ASSUME IInv, NEW h \in Handler, Proceed(h), NEW x \in Object, x \in Writes(op[h]),
         Settled(x) \/ x \in Half(op[h])
  PROVE  Settled(x)' \/ Halves(h, x)'
<1> USE DEF bucketFiles, objectFiles, history
<1>1. /\ Shape /\ Typed /\ Busy(h) /\ KindStep(op[h]) /\ op[h].object \in Object
  BY ProceedAdvances, ErrandType DEF IInv, Shape, Advance
<1>2. op[h].alone => HoldsIn(op[h], data, meta, promised, uploads)
  BY <1>1 DEF IInv, HoldInv, Holds
<1>3. /\ data \in [Object -> Bytes \cup {None}] /\ meta \in [Object -> ETag \cup {None}]
      /\ promised \in [Object -> ETag \cup {None, Nothing}]
  BY <1>1 DEF Shape, StoreType, HistoryType
<1>4. op[h].kind \in {"put", "copy", "delete", "complete"} => x = op[h].object
  BY DEF Writes
<1>5. CASE \/ PutBody(h) \/ CopyFile(h) \/ MakeDir(h) \/ Describe(h) \/ OpenPart(h) \/ WritePart(h)
           \/ NotePart(h) \/ ReadPart(h) \/ Assembled(h) \/ RemoveUpload(h)
  <2>1. data' = data /\ meta' = meta /\ promised' = promised
    BY <1>5 DEF PutBody, CopyFile, MakeDir, Describe, OpenPart, WritePart, NotePart, ReadPart,
       Assembled, RemoveUpload
  <2>2. op[h].step \notin {"meta", "undo"} /\ op[h].kind # "delete"
    BY <1>1, <1>5 DEF PutBody, CopyFile, MakeDir, Describe, OpenPart, WritePart, NotePart, ReadPart,
       Assembled, RemoveUpload, At, KindStep
  <2>3. Settled(x)
    BY <2>2 DEF Half
  <2> QED
    BY <2>1, <2>3 DEF Settled
<1>6. CASE ReplaceData(h)
  <2>1. op[h].kind \in {"put", "copy", "complete"} /\ op[h].step = "data"
    BY <1>6, <1>1, ReplaceDataNow DEF ReplaceData, At
  <2>2. CASE data' = data
    <3>1. Settled(x)
      BY <2>1 DEF Half
    <3> QED
      BY <1>6, <2>2, <3>1 DEF ReplaceData, Settled
  <2>3. CASE data' # data
    <3>1. Now(h, "meta", op[h].source, <<>>, op[h].etag, op[h].left, op[h].sound)
      BY <1>1, <1>6, <2>3, ReplaceDataNow
    <3>2. op'[h].step = "meta" /\ op'[h].object = x /\ Busy(h)'
      BY <1>4, <2>1, <3>1, NowBusy DEF Now
    <3> QED
      BY <3>2 DEF Halves, Half
  <2> QED
    BY <2>2, <2>3
<1>7. CASE ReplaceMeta(h)
  <2>1. op[h].step = "meta" /\ x = op[h].object
    BY <1>1, <1>4, <1>7 DEF ReplaceMeta, At, KindStep
  <2>2. /\ data' = data /\ meta'[x] = op[h].etag
        /\ promised'[x] = IF op[h].alone /\ op[h].sound THEN op[h].etag ELSE Nothing
    BY <1>3, <1>7, <2>1 DEF ReplaceMeta, Promise
  <2>3. op[h].alone /\ op[h].sound => data[x] = op[h].etag
    BY <1>2, <2>1 DEF HoldsIn
  <2> QED
    BY <2>2, <2>3 DEF Settled
<1>8. CASE MetaFails(h)
  <2>1. x = op[h].object /\ MovesOn(h, "undo")
    BY <1>1, <1>4, <1>8, Going DEF MetaFails, At, KindStep, Step
  <2>2. Busy(h)' /\ op'[h].step = "undo" /\ op'[h].object = x
    BY <2>1, NowBusy DEF MovesOn, Now
  <2> QED
    BY <2>2 DEF Halves, Half
<1>9. CASE Undo(h)
  <2>1. op[h].step = "undo" /\ x = op[h].object
    BY <1>1, <1>4, <1>9 DEF Undo, At, KindStep
  <2>2. CASE op[h].alone /\ meta[x] = None
    <3>1. promised[x] \in {Nothing, None}
      BY <1>2, <2>1, <2>2 DEF HoldsIn
    <3>2. data'[x] = None /\ meta' = meta /\ promised'[x] = promised[x]
      BY <1>3, <1>9, <2>1, <2>2 DEF Undo, Doubt
    <3> QED
      BY <2>2, <3>1, <3>2 DEF Settled
  <2>3. CASE ~(op[h].alone /\ meta[x] = None)
    <3>1. promised'[x] = Nothing
      BY <1>9, <2>1, <2>3 DEF Undo, Doubt
    <3> QED
      BY <3>1 DEF Settled
  <2> QED
    BY <2>2, <2>3
<1>10. ASSUME NEW f \in {"data", "meta"}, RemoveFile(h, f)
       PROVE  Settled(x)' \/ Halves(h, x)'
  <2>1. op[h].kind = "delete" /\ op[h].step = "remove" /\ x = op[h].object
    BY <1>1, <1>4, <1>10, RemoveFileNow
  <2>2. CASE op[h].left \ {f} = {}
    <3>1. Promise(op[h], None)
      BY <1>10, <2>2 DEF RemoveFile
    <3>2. promised'[x] = IF op[h].alone /\ op[h].sound THEN None ELSE Nothing
      BY <1>3, <2>1, <3>1 DEF Promise
    <3>3. op[h].alone => /\ "data" \notin op[h].left => data[x] = None
                         /\ "meta" \notin op[h].left => meta[x] = None
      BY <1>2, <2>1 DEF HoldsIn
    <3>4. op[h].alone => data'[x] = None /\ meta'[x] = None
      BY <1>3, <1>10, <2>1, <2>2, <3>3 DEF RemoveFile
    <3> QED
      BY <3>2, <3>4 DEF Settled
  <2>3. CASE op[h].left \ {f} # {}
    <3>1. Now(h, "remove", op[h].source, op[h].bytes, op[h].etag, op[h].left \ {f}, op[h].sound)
      BY <1>1, <1>10, <2>3, RemoveFileNow
    <3>2. /\ Busy(h)' /\ op'[h].step = "remove" /\ op'[h].object = x /\ op'[h].kind = "delete"
          /\ op'[h].left = op[h].left \ {f}
      BY <2>1, <3>1, NowBusy DEF Now
    <3>3. op'[h].left # {"data", "meta"}
      BY <3>2
    <3> QED
      BY <3>2, <3>3 DEF Halves, Half
  <2> QED
    BY <2>2, <2>3
<1>11. CASE RemoveBucket(h)
  <2>1. op[h].kind = "deleteBucket" /\ op[h].step = "remove"
    BY <1>11 DEF RemoveBucket, At
  <2>2. x \in InBucket(op[h].object[1])
    BY <2>1 DEF Writes
  <2>3. /\ data'[x] = None /\ meta'[x] = None
        /\ promised'[x] = IF ~op[h].alone THEN Nothing
                          ELSE IF promised[x] = Nothing THEN None ELSE promised[x]
    BY <1>11, <2>2 DEF RemoveBucket
  <2>4. op[h].alone => promised[x] \in {None, Nothing}
    BY <1>2, <2>1, <2>2 DEF HoldsIn
  <2> QED
    BY <2>3, <2>4 DEF Settled
<1> QED
  BY <1>5, <1>6, <1>7, <1>8, <1>9, <1>10, <1>11 DEF Proceed

LEMMA ProceedObjects == ASSUME IInv, NEW h \in Handler, Proceed(h) PROVE ObjectInv'
<1>1. Advance(h) /\ Busy(h) /\ KindStep(op[h])
  BY ProceedAdvances DEF IInv, Shape, KindInv, Advance
<1> SUFFICES ASSUME NEW x \in Object PROVE Settled(x)' \/ \E g \in Handler : Halves(g, x)'
  BY DEF ObjectInv
<1>2. Settled(x) \/ \E g \in Handler : Halves(g, x)
  BY DEF IInv, ObjectInv
<1>3. ASSUME NEW g \in Handler, g # h, Halves(g, x)
      PROVE  Halves(g, x)'
  BY <1>1, <1>3 DEF Halves, Advance, Busy
<1>4. CASE x \in Writes(op[h])
  BY <1>2, <1>3, <1>4, OwnObject DEF Halves
<1>5. CASE x \notin Writes(op[h])
  <2>1. ~Halves(h, x)
    BY <1>1, <1>5, HalfWrites DEF Halves
  <2>2. Settled(x) => Settled(x)'
    BY <1>5, ObjectFrame DEF IInv, Settled
  <2> QED
    BY <1>2, <1>3, <2>1, <2>2
<1> QED
  BY <1>4, <1>5

-----------------------------------------------------------------------------
(* Parts                                                                   *)

(* The step of h notes the part it works on, or leaves it in doubt.        *)
LEMMA OwnPart ==
  ASSUME IInv, NEW h \in Handler, Proceed(h), NEW u \in Upload, NEW p \in Part,
         <<u, p>> \in PartsOf(op[h]), uploads'[u] # None,
         uploads[u] # None => Noted(u, p) \/ <<u, p>> \in doubtful \/ Spoils(h, u, p)
  PROVE  Noted(u, p)' \/ <<u, p>> \in doubtful' \/ Spoils(h, u, p)'
<1> USE DEF bucketFiles, objectFiles, history
<1>1. /\ Shape /\ Typed /\ Busy(h) /\ KindStep(op[h])
  BY ProceedAdvances, ErrandType DEF IInv, Shape, Advance
<1>2. uploads \in [Upload -> UploadDir \cup {None}]
  BY <1>1 DEF Shape, StoreType
<1>3. op[h].kind \in {"part", "complete", "abort"} /\ op[h].upload = u
  BY DEF PartsOf
<1>4. CASE \/ PutBody(h) \/ CopyFile(h) \/ ReplaceData(h) \/ ReplaceMeta(h) \/ MetaFails(h)
           \/ Undo(h) \/ (\E f \in {"data", "meta"} : RemoveFile(h, f))
           \/ MakeDir(h) \/ Describe(h) \/ RemoveBucket(h) \/ ReadPart(h) \/ Assembled(h)
  <2>1. op[h].kind # "part"
    BY <1>1, <1>4 DEF PutBody, CopyFile, ReplaceData, ReplaceMeta, MetaFails, Undo, RemoveFile,
       MakeDir, Describe, RemoveBucket, ReadPart, Assembled, At, KindStep
  <2>2. uploads' = uploads /\ doubtful' = doubtful
    BY <1>4 DEF PutBody, CopyFile, ReplaceData, ReplaceMeta, MetaFails, Undo, RemoveFile, MakeDir,
       Describe, RemoveBucket, ReadPart, Assembled
  <2> QED
    BY <2>1, <2>2 DEF Noted, Spoils
<1>5. CASE RemoveUpload(h)
  <2>1. uploads'[u] = None
    BY <1>2, <1>3, <1>5 DEF RemoveUpload
  <2> QED
    BY <2>1
<1>6. CASE OpenPart(h) \/ WritePart(h) \/ NotePart(h)
  <2>1. op[h].kind = "part" /\ op[h].part = p /\ PartsOf(op[h]) = {<<u, p>>}
    BY <1>1, <1>3, <1>6 DEF OpenPart, WritePart, NotePart, At, KindStep, PartsOf
  <2>2. uploads[u] # None
    BY <1>3, <1>6 DEF OpenPart, WritePart, NotePart
  <2>3. uploads[u] \in UploadDir
    BY <1>2, <2>2
  <2>4. ASSUME NEW s \in {"write", "note"}, Goto(h, s)
        PROVE  Spoils(h, u, p)'
    <3>1. MovesOn(h, s)
      BY <1>1, <2>4, Going DEF Step
    <3>2. /\ Busy(h)' /\ op'[h].kind = "part" /\ op'[h].upload = u /\ op'[h].part = p
          /\ op'[h].step = s
      BY <1>3, <2>1, <3>1, NowBusy DEF MovesOn, Now
    <3> QED
      BY <3>2 DEF Spoils
  <2>5. CASE OpenPart(h)
    BY <1>3, <2>2, <2>4, <2>5 DEF OpenPart
  <2>6. CASE WritePart(h)
    <3>1. CASE Goto(h, "note")
      BY <2>4, <3>1
    <3>2. CASE ~Goto(h, "note")
      <4>1. /\ uploads' = [uploads EXCEPT ![u].part[p] = None]
            /\ doubtful' = IF op[h].alone THEN doubtful ELSE doubtful \cup PartsOf(op[h])
        BY <1>3, <2>1, <2>2, <2>6, <3>2 DEF WritePart
      <4>2. uploads'[u].part[p] = None
        BY <1>2, <2>3, <4>1 DEF UploadDir
      <4> QED
        BY <4>2 DEF Noted
    <3> QED
      BY <3>1, <3>2
  <2>7. CASE NotePart(h)
    <3>1. /\ uploads' = [uploads EXCEPT ![u].note[p] = op[h].etag[1]]
          /\ doubtful' = IF op[h].alone THEN doubtful \ PartsOf(op[h]) ELSE doubtful \cup PartsOf(op[h])
          /\ op[h].step = "note"
      BY <1>3, <2>1, <2>2, <2>7 DEF NotePart, At
    <3>2. CASE op[h].alone
      <4>1. uploads[u].part[p] = op[h].etag[1]
        BY <1>1, <1>3, <2>1, <2>2, <3>1, <3>2 DEF IInv, HoldInv, Holds, HoldsIn
      <4>2. uploads'[u].part[p] = op[h].etag[1] /\ uploads'[u].note[p] = op[h].etag[1]
        BY <1>2, <2>3, <3>1, <4>1 DEF UploadDir
      <4> QED
        BY <4>2 DEF Noted
    <3>3. CASE ~op[h].alone
      BY <2>1, <3>1, <3>3
    <3> QED
      BY <3>2, <3>3
  <2> QED
    BY <1>6, <2>5, <2>6, <2>7
<1> QED
  BY <1>4, <1>5, <1>6 DEF Proceed

LEMMA ProceedParts == ASSUME IInv, NEW h \in Handler, Proceed(h) PROVE PartInv'
<1>1. Advance(h) /\ Busy(h)
  BY ProceedAdvances DEF IInv, Advance
<1> SUFFICES ASSUME NEW u \in Upload, NEW p \in Part, uploads'[u] # None
             PROVE  \/ Noted(u, p)' \/ <<u, p>> \in doubtful'
                    \/ \E g \in Handler : Spoils(g, u, p)'
  BY DEF PartInv
<1>2. uploads[u] # None =>
        Noted(u, p) \/ <<u, p>> \in doubtful \/ \E g \in Handler : Spoils(g, u, p)
  BY DEF IInv, PartInv
<1>3. ASSUME NEW g \in Handler, g # h, Spoils(g, u, p)
      PROVE  Spoils(g, u, p)'
  BY <1>1, <1>3 DEF Spoils, Advance, Busy
<1>4. CASE <<u, p>> \in PartsOf(op[h])
  BY <1>2, <1>3, <1>4, OwnPart
<1>5. CASE <<u, p>> \notin PartsOf(op[h])
  <2>1. ~Spoils(h, u, p)
    BY <1>5 DEF Spoils, PartsOf
  <2>2. /\ uploads[u] # None /\ uploads'[u].part[p] = uploads[u].part[p]
        /\ uploads'[u].note[p] = uploads[u].note[p]
        /\ <<u, p>> \in doubtful => <<u, p>> \in doubtful'
    BY <1>5, PartFrame DEF IInv
  <2> QED
    BY <1>2, <1>3, <2>1, <2>2 DEF Noted
<1> QED
  BY <1>4, <1>5

-----------------------------------------------------------------------------
(* The other steps                                                         *)

LEMMA LikeHolds ==
  ASSUME NEW m, NEW o, Like(m, o), NEW d, NEW e, NEW r, NEW w
  PROVE  HoldsIn(m, d, e, r, w) <=> HoldsIn(o, d, e, r, w)
BY DEF Like, HoldsIn

(* A bucket that a request alone is about to remove has no promised object. *)
LEMMA EmptyBucket ==
  ASSUME IInv, NEW h \in Handler, NEW r, Fresh(r), BeginsAs(h, r), op'[h].alone,
         r.kind = "deleteBucket", NEW x \in InBucket(r.object[1])
  PROVE  promised[x] \in {None, Nothing}
<1>1. x \in Object /\ meta[x] = None /\ x \in Writes(r)
  BY DEF Fresh, InBucket, Writes
<1>2. ASSUME NEW g \in Handler, Halves(g, x)
      PROVE  FALSE
  <2>1. Busy(g) /\ x \in Half(op[g]) /\ KindStep(op[g])
    BY <1>2 DEF Halves, IInv, Shape, KindInv
  <2>2. x \in Writes(op[g])
    BY <2>1, HalfWrites
  <2>3. Conflict(r, op[g])
    BY <1>1, <2>2 DEF Conflict
  <2>4. g # h
    BY <2>1 DEF BeginsAs
  <2> QED
    BY <2>1, <2>3, <2>4 DEF BeginsAs
<1>3. Settled(x)
  BY <1>1, <1>2 DEF IInv, ObjectInv
<1> QED
  BY <1>1, <1>3 DEF Settled

LEMMA FreshHolds ==
  ASSUME IInv, NEW h \in Handler, NEW r, Fresh(r), BeginsAs(h, r), op'[h].alone
  PROVE  HoldsIn(r, data, meta, promised, uploads)
<1>1. r.kind = "deleteBucket" => \A x \in InBucket(r.object[1]) : promised[x] \in {None, Nothing}
  BY EmptyBucket
<1> QED
  BY <1>1 DEF Fresh, HoldsIn

LEMMA RequestKeeps == ASSUME IInv, NEW h \in Handler, Dispatch(h) PROVE IInv'
<1>1. PICK r : Fresh(r) /\ Start(h, r) /\ BeginsAs(h, r)
  BY RequestStarts DEF IInv
<1>2. /\ data' = data /\ meta' = meta /\ promised' = promised /\ uploads' = uploads
      /\ doubtful' = doubtful
  BY <1>1, StartsLeaves
<1>3. Shape' /\ AloneInv'
  BY <1>1, RequestShape, StartsAlone DEF IInv
<1>4. ASSUME NEW g \in Handler, g # h, Busy(g)
      PROVE  Busy(g)' /\ Like(op'[g], op[g]) /\ (op'[g].alone => op[g].alone)
  BY <1>1, <1>4 DEF BeginsAs
<1>5. ASSUME NEW g \in Handler, Busy(g)', op'[g].alone
      PROVE  Holds(g)'
  <2>1. CASE g = h
    <3>1. HoldsIn(r, data, meta, promised, uploads) /\ Like(op'[h], r)
      BY <1>1, <1>5, <2>1, FreshHolds DEF BeginsAs
    <3>2. HoldsIn(op'[h], data, meta, promised, uploads)
      BY <3>1, LikeHolds
    <3> QED
      BY <1>2, <2>1, <3>2 DEF Holds
  <2>2. CASE g # h
    <3>1. Busy(g)
      BY <1>1, <1>5, <2>2 DEF BeginsAs
    <3>2. Like(op'[g], op[g]) /\ HoldsIn(op[g], data, meta, promised, uploads)
      BY <1>4, <1>5, <2>2, <3>1 DEF IInv, HoldInv, Holds
    <3>3. HoldsIn(op'[g], data, meta, promised, uploads)
      BY <3>2, LikeHolds
    <3> QED
      BY <1>2, <3>3 DEF Holds
  <2> QED
    BY <2>1, <2>2
<1>6. HoldInv'
  BY <1>5 DEF HoldInv
<1>7. ASSUME NEW g \in Handler, NEW x, Halves(g, x)
      PROVE  Halves(g, x)'
  <2>1. Busy(g) /\ g # h
    BY <1>1, <1>7 DEF Halves, BeginsAs
  <2> QED
    BY <1>4, <1>7, <2>1, LikeSame DEF Halves
<1>8. ObjectInv'
  BY <1>2, <1>7 DEF IInv, ObjectInv, Settled
<1>9. ASSUME NEW g \in Handler, NEW u, NEW p, Spoils(g, u, p)
      PROVE  Spoils(g, u, p)'
  <2>1. Busy(g) /\ g # h
    BY <1>1, <1>9 DEF Spoils, BeginsAs
  <2>2. Busy(g)' /\ Like(op'[g], op[g]) /\ (op'[g].alone => op[g].alone)
    BY <1>4, <2>1
  <2> QED
    BY <1>9, <2>2 DEF Spoils, Like
<1>10. PartInv'
  BY <1>2, <1>9 DEF IInv, PartInv, Noted
<1> QED
  BY <1>3, <1>6, <1>8, <1>10 DEF IInv

LEMMA ProceedKeeps == ASSUME IInv, NEW h \in Handler, Proceed(h) PROVE IInv'
<1>1. Shape' /\ Advance(h)
  BY ProceedShape, ProceedAdvances DEF IInv
<1> QED
  BY <1>1, ProceedAlone, ProceedHold, ProceedObjects, ProceedParts DEF IInv

(* A new upload has the id of none that a request is at work on.           *)
LEMMA CreateKeeps ==
  ASSUME IInv, NEW u \in Upload, NEW o \in Object, CreateUpload(u, o)
  PROVE  IInv'
<1> USE DEF bucketFiles, objectFiles, history
<1>1. /\ op' = op /\ data' = data /\ meta' = meta /\ promised' = promised
      /\ doubtful' = doubtful \ ({u} \X Part)
      /\ uploads' = [uploads EXCEPT ![u] =
           [object |-> o, part |-> [p \in Part |-> None], note |-> [p \in Part |-> None]]]
      /\ \A h \in Handler : Busy(h) => op[h].upload # u
  BY DEF CreateUpload, Busy
<1>2. Shape'
  BY CreateShape DEF IInv
<1>3. AloneInv'
  BY <1>1 DEF IInv, AloneInv, Busy
<1>4. uploads \in [Upload -> UploadDir \cup {None}]
  BY DEF IInv, Shape, StoreType
<1>5. \A v \in Upload : v # u => uploads'[v] = uploads[v]
  BY <1>1, <1>4
<1>6. ASSUME NEW h \in Handler, Busy(h), op[h].alone
      PROVE  Holds(h)'
  <2>1. HoldsIn(op[h], data, meta, promised, uploads) /\ KindStep(op[h])
    BY <1>6 DEF IInv, HoldInv, Holds, Shape, KindInv
  <2>2. op[h].step = "note" => op[h].upload \in Upload
    BY <2>1 DEF KindStep
  <2>3. op[h].step = "note" => uploads'[op[h].upload] = uploads[op[h].upload]
    BY <1>1, <1>5, <1>6, <2>2
  <2>4. HoldsIn(op[h], data, meta, promised, uploads')
    BY <2>1, <2>3 DEF HoldsIn
  <2> QED
    BY <1>1, <2>4 DEF Holds
<1>7. HoldInv'
  BY <1>1, <1>6 DEF HoldInv, Busy
<1>8. ObjectInv'
  BY <1>1 DEF IInv, ObjectInv, Settled, Halves, Busy
<1>9. PartInv'
  <2> SUFFICES ASSUME NEW v \in Upload, NEW p \in Part, uploads'[v] # None
               PROVE  \/ Noted(v, p)' \/ <<v, p>> \in doubtful'
                      \/ \E g \in Handler : Spoils(g, v, p)'
    BY DEF PartInv
  <2>1. CASE v = u
    <3>1. uploads'[u].part[p] = None
      BY <1>1, <1>4
    <3> QED
      BY <2>1, <3>1 DEF Noted
  <2>2. CASE v # u
    <3>1. uploads'[v] = uploads[v] /\ (<<v, p>> \in doubtful => <<v, p>> \in doubtful')
      BY <1>1, <1>5, <2>2
    <3>2. Noted(v, p) \/ <<v, p>> \in doubtful \/ \E g \in Handler : Spoils(g, v, p)
      BY <3>1 DEF IInv, PartInv
    <3>3. \A g \in Handler : Spoils(g, v, p)' <=> Spoils(g, v, p)
      BY <1>1 DEF Spoils, Busy
    <3> QED
      BY <3>1, <3>2, <3>3 DEF Noted
  <2> QED
    BY <2>1, <2>2
<1> QED
  BY <1>2, <1>3, <1>7, <1>8, <1>9 DEF IInv

(* A restart leaves no promise of what it interrupts.                      *)
LEMMA CrashKeeps == ASSUME IInv, Crash PROVE IInv'
<1> USE DEF bucketFiles, objectFiles
<1> DEFINE running == {op[h] : h \in {h \in Handler : op[h] # NoOp}}
           lost == UNION {Half(o) \cup (IF o.alone THEN {} ELSE Writes(o)) : o \in running}
           torn == UNION {PartsOf(o) : o \in {o \in running : o.step \in {"write", "note"} \/ ~o.alone}}
<1>1. /\ Doubt(lost) /\ doubtful' = doubtful \cup torn
      /\ data' = data /\ meta' = meta /\ uploads' = uploads
      /\ op' = [h \in Handler |-> NoOp]
  BY DEF Crash
<1>2. Shape'
  BY CrashShape DEF IInv
<1>3. \A h \in Handler : ~Busy(h)'
  BY <1>1 DEF Busy
<1>4. AloneInv' /\ HoldInv'
  BY <1>3 DEF AloneInv, HoldInv
<1>5. ObjectInv'
  <2> SUFFICES ASSUME NEW x \in Object PROVE Settled(x)'
    BY DEF ObjectInv
  <2>1. \A h \in Handler : Halves(h, x) => x \in lost
    BY DEF Halves, Busy
  <2>2. promised'[x] = IF x \in lost THEN Nothing ELSE promised[x]
    BY <1>1 DEF Doubt
  <2> HIDE DEF lost
  <2>3. x \notin lost => Settled(x)
    BY <2>1 DEF IInv, ObjectInv
  <2> QED
    BY <1>1, <2>2, <2>3 DEF Settled
<1>6. PartInv'
  <2> SUFFICES ASSUME NEW u \in Upload, NEW p \in Part, uploads[u] # None
               PROVE  Noted(u, p) \/ <<u, p>> \in doubtful \/ <<u, p>> \in torn
    BY <1>1 DEF PartInv, Noted
  <2>1. ASSUME NEW h \in Handler, Spoils(h, u, p)
        PROVE  <<u, p>> \in torn
    <3>1. op[h] \in running /\ op[h] \in Op /\ KindStep(op[h])
      BY <2>1, InProgress DEF Spoils, Busy, IInv, Shape, KindInv
    <3>2. op[h].step \in {"open", "write", "note"}
      BY <2>1, <3>1 DEF Spoils, KindStep, Op
    <3>3. <<u, p>> \in PartsOf(op[h])
      BY <2>1 DEF Spoils, PartsOf
    <3>4. op[h].step \in {"write", "note"} \/ ~op[h].alone
      BY <2>1, <3>2 DEF Spoils
    <3> QED
      BY <3>1, <3>3, <3>4
  <2> QED
    BY <2>1 DEF IInv, PartInv
<1> QED
  BY <1>2, <1>4, <1>5, <1>6 DEF IInv

LEMMA InitKeeps == StoreInit => IInv
<1> SUFFICES ASSUME StoreInit PROVE IInv
  OBVIOUS
<1>1. Shape
  BY InitShape
<1>2. \A h \in Handler : ~Busy(h)
  BY DEF StoreInit, Busy
<1>3. AloneInv /\ HoldInv
  BY <1>2 DEF AloneInv, HoldInv
<1>4. ObjectInv
  BY DEF StoreInit, ObjectInv, Settled
<1>5. PartInv
  BY DEF StoreInit, PartInv
<1> QED
  BY <1>1, <1>3, <1>4, <1>5 DEF IInv

LEMMA NextKeeps == IInv /\ [StoreNext]_storeVars => IInv'
<1> SUFFICES ASSUME IInv, [StoreNext]_storeVars PROVE IInv'
  OBVIOUS
<1>1. CASE UNCHANGED storeVars
  <2>1. Shape'
    BY <1>1, NextShape DEF IInv
  <2>2. AloneInv' /\ HoldInv'
    BY <1>1 DEF storeVars, IInv, AloneInv, HoldInv, Holds, Busy
  <2>3. ObjectInv' /\ PartInv'
    BY <1>1 DEF storeVars, IInv, ObjectInv, Settled, Halves, PartInv, Noted, Spoils, Busy
  <2> QED
    BY <2>1, <2>2, <2>3 DEF IInv
<1>2. CASE StoreNext
  BY <1>2, ProceedKeeps, RequestKeeps, CreateKeeps, CrashKeeps DEF StoreNext
<1> QED
  BY <1>1, <1>2

-----------------------------------------------------------------------------
(* The properties                                                          *)

LEMMA KeptObjects == IInv => AcknowledgedKept
<1> SUFFICES ASSUME IInv, NEW x \in Object, x \notin Written, promised[x] # Nothing
             PROVE  data[x] = promised[x] /\ meta[x] = promised[x]
  BY DEF AcknowledgedKept
<1>1. ASSUME NEW h \in Handler, Halves(h, x)
      PROVE  FALSE
  <2>1. KindStep(op[h]) /\ x \in Half(op[h]) /\ op[h] # NoOp
    BY <1>1 DEF Halves, Busy, IInv, Shape, KindInv
  <2>2. x \in Writes(op[h])
    BY <2>1, HalfWrites
  <2> QED
    BY <2>1, <2>2 DEF Written, Running
<1>2. Settled(x)
  BY <1>1 DEF IInv, ObjectInv
<1> QED
  BY <1>2 DEF Settled

LEMMA NotedParts == IInv => PartsAsNoted
<1> SUFFICES ASSUME IInv, NEW u \in Upload, uploads[u] # None, NEW p \in Part,
                    <<u, p>> \notin WrittenParts, <<u, p>> \notin doubtful
             PROVE  Noted(u, p)
  BY DEF PartsAsNoted, Noted
<1>1. ASSUME NEW h \in Handler, Spoils(h, u, p)
      PROVE  FALSE
  <2>1. op[h] \in Running /\ op[h].kind = "part" /\ <<u, p>> \in PartsOf(op[h])
    BY <1>1 DEF Spoils, Busy, Running, PartsOf
  <2> QED
    BY <2>1 DEF WrittenParts
<1> QED
  BY <1>1 DEF IInv, PartInv

(* An object that no request is writing has the bytes and the metadata of  *)
(* the last answer about it, unless a race or a failure has touched it     *)
(* since (putObject, copyObject, deleteObject, deleteBucket and            *)
(* completeMultipartUpload, call by call).                                 *)
THEOREM AnswersKept == StoreSpec => []AcknowledgedKept
<1>1. StoreSpec => []IInv
  BY InitKeeps, NextKeeps, PTL DEF StoreSpec
<1> QED
  BY <1>1, KeptObjects, PTL

(* A part whose ETag is noted has the bytes of this ETag or none, unless   *)
(* requests raced on it or a restart cut one short (uploadPart).           *)
THEOREM NotesTellParts == StoreSpec => []PartsAsNoted
<1>1. StoreSpec => []IInv
  BY InitKeeps, NextKeeps, PTL DEF StoreSpec
<1> QED
  BY <1>1, NotedParts, PTL

-----------------------------------------------------------------------------
(***************************************************************************)
(* Proofs about TaskScheduler: types, mutual exclusion of the executions   *)
(* of a task, truthful and final run rows, Cron objects that mirror the    *)
(* rows, dates that start a task once.                                     *)
(***************************************************************************)

RunnerSteps == {"get", "create", "exec", "complete", "meta", "fail"}

RunnerOK == runner \in [Runner -> RunnerState] /\ activeRuns \in SUBSET Task
PollerOK == /\ poller \in [Poller -> PollerState]
            /\ timer \in BOOLEAN
            /\ boot \in {"mark", "select", "arm", "poll", "done", "failed", "stopped"}
RestOK == /\ row \in [Task -> TaskRow] /\ runs \in [Run -> RunRow]
          /\ crons \in [Task -> Cron]
          /\ selected \in SUBSET (Task \X Expr) /\ requests \in SUBSET Request
          /\ restarts \in 0 .. MaxRestarts
          /\ past \in [Task -> {"waiting", "started", "again", "edited"}]

LEMMA TypeParts == TypeOK <=> RunnerOK /\ PollerOK /\ RestOK
BY DEF TypeOK, RunnerOK, PollerOK, RestOK

-----------------------------------------------------------------------------
(* The update operators                                                    *)

LEMMA RunnerFields ==
  ASSUME RunnerOK, NEW r \in Runner
  PROVE  /\ runner[r].pc \in RunnerSteps \cup {"idle"}
         /\ runner[r].pc = "idle" => runner[r] = IdleRunner
         /\ runner[r].pc # "idle" =>
              /\ runner[r].task \in Task /\ runner[r].run \in Run \cup {NoRun}
              /\ runner[r] \in [pc : RunnerSteps, task : Task, run : Run \cup {NoRun},
                                recurring : BOOLEAN]
<1>1. runner[r] \in RunnerState
  BY DEF RunnerOK
<1>2. CASE runner[r] = IdleRunner
  BY <1>2 DEF IdleRunner
<1>3. CASE runner[r] \in [pc : RunnerSteps, task : Task, run : Run \cup {NoRun},
                          recurring : BOOLEAN]
  <2>1. runner[r].pc \in RunnerSteps
    BY <1>3
  <2>2. runner[r].task \in Task /\ runner[r].run \in Run \cup {NoRun}
    BY <1>3
  <2>3. runner[r].pc # "idle"
    BY <2>1 DEF RunnerSteps
  <2> QED BY <1>3, <2>1, <2>2, <2>3
<1> QED BY <1>1, <1>2, <1>3 DEF RunnerState, RunnerSteps

(* runTask starts on an idle slot, on a task that is not being run.        *)
LEMMA BeginRunValue ==
  ASSUME RunnerOK, NEW t \in Task, BeginRun(t)
  PROVE  \/ UNCHANGED <<activeRuns, runner>>
         \/ /\ t \notin activeRuns /\ activeRuns' = activeRuns \cup {t}
            /\ \E r \in Runner :
                 /\ runner[r].pc = "idle"
                 /\ runner'[r].pc = "get" /\ runner'[r].task = t
                 /\ \A s \in Runner \ {r} : runner'[s] = runner[s]
<1>1. CASE t \in activeRuns
  BY <1>1 DEF BeginRun
<1>2. CASE t \notin activeRuns
  <2>1. PICK r \in Runner :
          /\ runner[r].pc = "idle"
          /\ runner' = [runner EXCEPT ![r] = [IdleRunner EXCEPT !.pc = "get", !.task = t]]
    BY <1>2 DEF BeginRun
  <2>2. runner'[r].pc = "get" /\ runner'[r].task = t
    BY <2>1 DEF RunnerOK, IdleRunner
  <2>3. \A s \in Runner \ {r} : runner'[s] = runner[s]
    BY <2>1 DEF RunnerOK
  <2> QED BY <1>2, <2>1, <2>2, <2>3 DEF BeginRun
<1> QED BY <1>1, <1>2

LEMMA BeginRunType ==
  ASSUME RunnerOK, NEW t \in Task, BeginRun(t)
  PROVE  RunnerOK'
<1>1. CASE t \in activeRuns
  BY <1>1 DEF BeginRun, RunnerOK
<1>2. CASE t \notin activeRuns
  <2>1. PICK r \in Runner :
          runner' = [runner EXCEPT ![r] = [IdleRunner EXCEPT !.pc = "get", !.task = t]]
    BY <1>2 DEF BeginRun
  <2>2. [IdleRunner EXCEPT !.pc = "get", !.task = t] \in RunnerState
    BY DEF IdleRunner, RunnerState
  <2> QED BY <1>2, <2>1, <2>2 DEF RunnerOK, BeginRun
<1> QED BY <1>1, <1>2

LEMMA EndRunType ==
  ASSUME RunnerOK, NEW r \in Runner, EndRun(r)
  PROVE  /\ RunnerOK'
         /\ runner'[r] = IdleRunner /\ \A s \in Runner \ {r} : runner'[s] = runner[s]
         /\ activeRuns' = activeRuns \ {runner[r].task}
BY DEF EndRun, RunnerOK, RunnerState

LEMMA GoOnType ==
  ASSUME RunnerOK, NEW r \in Runner, runner[r].pc # "idle", NEW s \in RunnerSteps, GoOn(r, s)
  PROVE  /\ RunnerOK'
         /\ runner'[r].pc = s /\ runner'[r].task = runner[r].task
         /\ runner'[r].run = runner[r].run
         /\ \A q \in Runner \ {r} : runner'[q] = runner[q]
         /\ activeRuns' = activeRuns
<1>1. runner[r] \in [pc : RunnerSteps, task : Task, run : Run \cup {NoRun},
                     recurring : BOOLEAN]
  BY RunnerFields
<1>2. runner' = [runner EXCEPT ![r] = [runner[r] EXCEPT !.pc = s]] /\ activeRuns' = activeRuns
  BY DEF GoOn
<1>3. [runner[r] EXCEPT !.pc = s] \in [pc : RunnerSteps, task : Task, run : Run \cup {NoRun},
                                       recurring : BOOLEAN]
  BY <1>1
<1>4. [runner[r] EXCEPT !.pc = s] \in RunnerState
  BY <1>3 DEF RunnerState, RunnerSteps
<1>5. runner'[r] = [runner[r] EXCEPT !.pc = s]
  BY <1>2 DEF RunnerOK
<1> QED BY <1>1, <1>2, <1>4, <1>5 DEF RunnerOK

LEMMA PollerFields ==
  ASSUME PollerOK, NEW p \in Poller, poller[p].pc # "idle"
  PROVE  /\ poller[p] \in [pc : {"select", "loop", "run"}, due : SUBSET Task,
                           task : Task \cup {NoTask}, boot : BOOLEAN]
         /\ poller[p].pc = "run" => poller[p].task \in Task
<1>1. poller[p] \in PollerState
  BY DEF PollerOK
<1> QED BY <1>1 DEF PollerState, IdlePoller

LEMMA EndPollType ==
  ASSUME PollerOK, NEW p \in Poller, NEW threw \in BOOLEAN, EndPoll(p, threw)
  PROVE  PollerOK' /\ UNCHANGED <<selected, restarts>>
<1>1. poller' \in [Poller -> PollerState] /\ UNCHANGED <<selected, restarts>>
  BY DEF EndPoll, PollerOK, PollerState
<1>2. CASE poller[p].boot
  <2>1. timer' = ~threw /\ boot' = IF threw THEN "failed" ELSE "done"
    BY <1>2, Zenon DEF EndPoll
  <2> QED BY <1>1, <2>1 DEF PollerOK
<1>3. CASE ~poller[p].boot
  <2>1. UNCHANGED <<timer, boot>>
    BY <1>3, Zenon DEF EndPoll
  <2> QED BY <1>1, <2>1 DEF PollerOK
<1> QED BY <1>2, <1>3

LEMMA RowType ==
  ASSUME RestOK, NEW t \in Task
  PROVE  /\ [row EXCEPT ![t].enabled = FALSE] \in [Task -> TaskRow]
         /\ [row EXCEPT ![t].at = "due"] \in [Task -> TaskRow]
         /\ [row EXCEPT ![t].state = "gone"] \in [Task -> TaskRow]
<1>1. row \in [Task -> TaskRow] /\ row[t] \in TaskRow
  BY DEF RestOK
<1>2. [row[t] EXCEPT !.enabled = FALSE] \in TaskRow
  BY <1>1 DEF TaskRow
<1>3. [row[t] EXCEPT !.at = "due"] \in TaskRow
  BY <1>1 DEF TaskRow
<1>4. [row[t] EXCEPT !.state = "gone"] \in TaskRow
  BY <1>1 DEF TaskRow
<1>5. [row EXCEPT ![t].enabled = FALSE] \in [Task -> TaskRow]
  BY <1>1, <1>2
<1>6. [row EXCEPT ![t].at = "due"] \in [Task -> TaskRow]
  BY <1>1, <1>3
<1>7. [row EXCEPT ![t].state = "gone"] \in [Task -> TaskRow]
  BY <1>1, <1>4
<1> QED BY <1>5, <1>6, <1>7

LEMMA EditedRowType ==
  ASSUME RestOK, NEW t \in Task, NEW k \in Cron, NEW a \in {"none", "future", "due"},
         NEW b \in BOOLEAN
  PROVE  [row EXCEPT ![t].cron = k, ![t].at = a, ![t].enabled = b] \in [Task -> TaskRow]
<1>1. row \in [Task -> TaskRow] /\ row[t] \in TaskRow
  BY DEF RestOK
<1>2. [row[t] EXCEPT !.cron = k, !.at = a, !.enabled = b] \in TaskRow
  BY <1>1 DEF TaskRow
<1>3. [row EXCEPT ![t].cron = k, ![t].at = a, ![t].enabled = b]
        = [row EXCEPT ![t] = [row[t] EXCEPT !.cron = k, !.at = a, !.enabled = b]]
  BY <1>1
<1>4. [row EXCEPT ![t] = [row[t] EXCEPT !.cron = k, !.at = a, !.enabled = b]]
        \in [Task -> TaskRow]
  BY <1>1, <1>2
<1> QED BY <1>3, <1>4

LEMMA RunRowType ==
  ASSUME RestOK, NEW i \in Run,
         NEW s \in {"unused", "running", "completed", "failed", "deleted"}
  PROVE  /\ [runs EXCEPT ![i].status = s] \in [Run -> RunRow]
         /\ \A t \in Task : [runs EXCEPT ![i].status = s, ![i].task = t] \in [Run -> RunRow]
         /\ [runs[i] EXCEPT !.status = s] \in RunRow
         /\ [runs[i] EXCEPT !.status = s, !.interrupted = TRUE] \in RunRow
<1>1. runs \in [Run -> RunRow] /\ runs[i] \in RunRow
  BY DEF RestOK
<1>2. [runs[i] EXCEPT !.status = s] \in RunRow
  BY <1>1 DEF RunRow
<1>3. [runs[i] EXCEPT !.status = s, !.interrupted = TRUE] \in RunRow
  BY <1>1 DEF RunRow
<1>4. [runs EXCEPT ![i].status = s] \in [Run -> RunRow]
  BY <1>1, <1>2
<1>5. ASSUME NEW t \in Task
      PROVE  [runs EXCEPT ![i].status = s, ![i].task = t] \in [Run -> RunRow]
  <2>1. [runs[i] EXCEPT !.status = s, !.task = t] \in RunRow
    BY <1>1 DEF RunRow
  <2>2. [runs EXCEPT ![i].status = s, ![i].task = t]
          = [runs EXCEPT ![i] = [runs[i] EXCEPT !.status = s, !.task = t]]
    BY <1>1
  <2> QED BY <1>1, <2>1, <2>2
<1> QED BY <1>2, <1>3, <1>4, <1>5

-----------------------------------------------------------------------------
(* Types, action by action                                                 *)

LEMMA RunTaskType ==
  ASSUME TypeOK, NEW r \in Runner, RunTask(r)
  PROVE  TypeOK'
<1> USE DEF store, starting
<1>1. RunnerOK /\ PollerOK /\ RestOK
  BY TypeParts
<1>2. runner[r].pc # "idle" =>
        /\ runner[r].task \in Task /\ runner[r].run \in Run \cup {NoRun}
        /\ runner[r] \in [pc : RunnerSteps, task : Task, run : Run \cup {NoRun},
                          recurring : BOOLEAN]
  BY <1>1, RunnerFields
<1>3. SUFFICES RunnerOK' /\ PollerOK' /\ RestOK'
  BY DEF TypeOK, RunnerOK, PollerOK, RestOK
<1>4. CASE RunGetTask(r)
  <2>1. PollerOK' /\ RestOK'
    BY <1>1, <1>4 DEF RunGetTask, PollerOK, RestOK
  <2>2. CASE ~Live(runner[r].task)
    BY <1>1, <1>4, <2>1, <2>2, EndRunType DEF RunGetTask
  <2>3. CASE Live(runner[r].task)
    <3> DEFINE b == row[runner[r].task].cron # NoCron
    <3>1. runner' = [runner EXCEPT ![r] = [runner[r] EXCEPT !.pc = "create", !.recurring = b]]
          /\ activeRuns' = activeRuns
      BY <1>1, <1>4, <2>3 DEF RunGetTask, RunnerOK
    <3>2. [runner[r] EXCEPT !.pc = "create", !.recurring = b] \in RunnerState
      BY <1>2, <1>4 DEF RunGetTask, RunnerState, RunnerSteps
    <3> QED BY <1>1, <2>1, <3>1, <3>2 DEF RunnerOK
  <2> QED BY <2>2, <2>3
<1>5. CASE RunCreate(r)
  <2>1. PollerOK'
    BY <1>1, <1>5 DEF RunCreate, PollerOK
  <2>2. CASE ~Live(runner[r].task)
    BY <1>1, <1>5, <2>1, <2>2, EndRunType DEF RunCreate, RestOK
  <2>3. CASE Live(runner[r].task)
    <3>1. PICK i \in Run :
            /\ runs' = [runs EXCEPT ![i].status = "running", ![i].task = runner[r].task]
            /\ runner' = [runner EXCEPT ![r].pc = "exec", ![r].run = i]
            /\ UNCHANGED activeRuns
      BY <1>5, <2>3 DEF RunCreate
    <3>2. [runner[r] EXCEPT !.pc = "exec", !.run = i] \in RunnerState
      BY <1>2, <1>5 DEF RunCreate, RunnerState, RunnerSteps
    <3>3. runner' = [runner EXCEPT ![r] = [runner[r] EXCEPT !.pc = "exec", !.run = i]]
      BY <1>1, <3>1 DEF RunnerOK
    <3>4. RunnerOK'
      BY <1>1, <3>1, <3>2, <3>3 DEF RunnerOK
    <3>5. runs' \in [Run -> RunRow]
      BY <1>1, <1>2, <1>5, <3>1, RunRowType DEF RunCreate
    <3> QED BY <1>1, <1>5, <2>1, <3>4, <3>5 DEF RunCreate, RestOK
  <2> QED BY <2>2, <2>3
<1>6. CASE RunExecute(r)
  BY <1>1, <1>6, GoOnType DEF RunExecute, PollerOK, RestOK, RunnerSteps
<1>7. ASSUME runner[r].pc \in {"complete", "fail"}
      PROVE  \A st \in {"completed", "failed"} :
               SetRun(runner[r].run, st) => runs' \in [Run -> RunRow]
  <2>1. SUFFICES ASSUME NEW st \in {"completed", "failed"}, SetRun(runner[r].run, st)
                 PROVE  runs' \in [Run -> RunRow]
    OBVIOUS
  <2>2. CASE runner[r].run \in Run
    BY <1>1, <2>1, <2>2, RunRowType DEF SetRun
  <2>3. CASE runner[r].run \notin Run
    <3>1. runs' = runs
      BY <1>1, <2>1, <2>3 DEF SetRun, RestOK
    <3> QED BY <1>1, <3>1 DEF RestOK
  <2> QED BY <2>2, <2>3
<1>8. CASE RunComplete(r)
  <2>1. PollerOK' /\ RunnerOK'
    BY <1>1, <1>8, GoOnType DEF RunComplete, PollerOK, RunnerSteps
  <2>2. runs' \in [Run -> RunRow]
    BY <1>1, <1>7, <1>8 DEF RunComplete, RestOK
  <2> QED BY <1>1, <1>8, <2>1, <2>2 DEF RunComplete, RestOK
<1>9. CASE RunFinish(r)
  <2>1. PollerOK' /\ RunnerOK'
    BY <1>1, <1>9, EndRunType DEF RunFinish, PollerOK
  <2>2. row' \in [Task -> TaskRow]
    <3>1. row' = row \/ row' = [row EXCEPT ![runner[r].task].enabled = FALSE]
      BY <1>9, Zenon DEF RunFinish
    <3>2. runner[r].task \in Task /\ row \in [Task -> TaskRow]
      BY <1>1, <1>2, <1>9 DEF RunFinish, RestOK
    <3>3. [row EXCEPT ![runner[r].task].enabled = FALSE] \in [Task -> TaskRow]
      BY <1>1, <3>2, RowType
    <3> QED BY <3>1, <3>2, <3>3
  <2> QED BY <1>1, <1>9, <2>1, <2>2 DEF RunFinish, RestOK
<1>10. CASE RunFail(r)
  <2>1. PollerOK' /\ RunnerOK'
    BY <1>1, <1>10, EndRunType DEF RunFail, PollerOK
  <2>2. runs' \in [Run -> RunRow]
    BY <1>1, <1>7, <1>10 DEF RunFail, RestOK
  <2> QED BY <1>1, <1>10, <2>1, <2>2 DEF RunFail, RestOK
<1>11. CASE RunDbFails(r)
  <2>1. PollerOK' /\ RestOK'
    BY <1>1, <1>11 DEF RunDbFails, PollerOK, RestOK
  <2>2. RunnerOK'
    BY <1>1, <1>11, EndRunType, GoOnType DEF RunDbFails, RunnerSteps
  <2> QED BY <2>1, <2>2
<1> QED BY <1>4, <1>5, <1>6, <1>8, <1>9, <1>10, <1>11 DEF RunTask

LEMMA PollType ==
  ASSUME TypeOK, NEW p \in Poller, PollBegin(p) \/ Poll(p)
  PROVE  TypeOK'
<1> USE DEF store, starting
<1>1. RunnerOK /\ PollerOK /\ RestOK
  BY TypeParts
<1>2. SUFFICES RunnerOK' /\ PollerOK' /\ RestOK'
  BY DEF TypeOK, RunnerOK, PollerOK, RestOK
<1>3. poller[p].pc # "idle" =>
        /\ poller[p] \in [pc : {"select", "loop", "run"}, due : SUBSET Task,
                          task : Task \cup {NoTask}, boot : BOOLEAN]
        /\ poller[p].pc = "run" => poller[p].task \in Task
  BY <1>1, PollerFields
<1>4. \A x : x \in PollerState /\ poller' = [poller EXCEPT ![p] = x] =>
        poller' \in [Poller -> PollerState]
  BY <1>1 DEF PollerOK
<1>5. CASE PollBegin(p)
  <2>1. [IdlePoller EXCEPT !.pc = "select"] \in PollerState
    BY DEF IdlePoller, PollerState
  <2>2. poller' \in [Poller -> PollerState]
    BY <1>4, <1>5, <2>1 DEF PollBegin
  <2> QED BY <1>1, <1>5, <2>2 DEF PollBegin, RunnerOK, PollerOK, RestOK
<1>6. CASE PollSelect(p)
  <2> DEFINE due == {t \in Task : Due(t)}
  <2>1. RunnerOK'
    BY <1>1, <1>6 DEF PollSelect, RunnerOK
  <2>2. CASE due = {}
    BY <1>1, <1>6, <2>1, <2>2, EndPollType DEF PollSelect, RestOK
  <2>3. CASE due # {}
    <3>1. poller' = [poller EXCEPT ![p] = [poller[p] EXCEPT !.pc = "loop", !.due = due]]
          /\ UNCHANGED starting
      BY <1>1, <1>6, <2>3 DEF PollSelect, PollerOK
    <3>2. [poller[p] EXCEPT !.pc = "loop", !.due = due] \in PollerState
      <4>1. due \in SUBSET Task
        OBVIOUS
      <4> HIDE DEF due
      <4> QED BY <1>3, <1>6, <4>1 DEF PollSelect, PollerState
    <3> QED BY <1>1, <1>4, <1>6, <2>1, <3>1, <3>2 DEF PollSelect, PollerOK, RestOK
  <2> QED BY <2>2, <2>3
<1>7. CASE PollDisable(p)
  <2>1. RunnerOK'
    BY <1>1, <1>7 DEF PollDisable, RunnerOK
  <2>2. PICK t \in poller[p].due :
          IF Live(t)
          THEN /\ row' = [row EXCEPT ![t].enabled = FALSE]
               /\ poller' = [poller EXCEPT ![p].pc = "run", ![p].due = @ \ {t}, ![p].task = t]
               /\ UNCHANGED starting
          ELSE EndPoll(p, TRUE) /\ UNCHANGED row
    BY <1>7 DEF PollDisable
  <2>3. t \in Task
    BY <1>3, <1>7 DEF PollDisable
  <2>4. CASE Live(t)
    <3> DEFINE x == [poller[p] EXCEPT !.pc = "run", !.due = @ \ {t}, !.task = t]
    <3>1. poller' = [poller EXCEPT ![p] = x]
      BY <1>1, <2>2, <2>4 DEF PollerOK
    <3>2. x \in PollerState
      <4>1. x \in [pc : {"run"}, due : SUBSET Task, task : Task, boot : BOOLEAN]
        BY <1>3, <1>7, <2>3 DEF PollDisable
      <4> QED BY <4>1 DEF PollerState
    <3>3. row' \in [Task -> TaskRow]
      BY <1>1, <2>2, <2>3, <2>4, RowType
    <3> HIDE DEF x
    <3>4. poller' \in [Poller -> PollerState]
      BY <1>4, <3>1, <3>2
    <3> QED BY <1>1, <1>7, <2>1, <2>2, <2>4, <3>3, <3>4 DEF PollDisable, PollerOK, RestOK
  <2>5. CASE ~Live(t)
    BY <1>1, <1>7, <2>1, <2>2, <2>5, EndPollType DEF PollDisable, RestOK
  <2> QED BY <2>4, <2>5
<1>8. CASE PollRun(p)
  <2>1. RunnerOK /\ BeginRun(poller[p].task) /\ poller[p].task \in Task
    BY <1>1, <1>3, <1>8 DEF PollRun
  <2>2. past' \in [Task -> {"waiting", "started", "again", "edited"}]
    <3> DEFINE P == {"waiting", "started", "again", "edited"}
    <3>1. past \in [Task -> P]
      BY <1>1 DEF RestOK
    <3>2. Started(past[poller[p].task]) \in P
      BY <2>1, <3>1 DEF Started
    <3>3. past' \in {past, [past EXCEPT ![poller[p].task] = Started(past[poller[p].task])]}
      BY <1>8, <3>1 DEF PollRun
    <3> HIDE DEF P
    <3> QED BY <3>1, <3>2, <3>3 DEF P
  <2>3. PollerOK' /\ UNCHANGED <<selected, restarts>>
    <3>1. CASE poller[p].due = {}
      BY <1>1, <1>8, <3>1, EndPollType DEF PollRun
    <3>2. CASE poller[p].due # {}
      <4>1. poller' = [poller EXCEPT ![p] = [poller[p] EXCEPT !.pc = "loop"]]
            /\ UNCHANGED starting
        BY <1>1, <1>8, <3>2 DEF PollRun, PollerOK
      <4>2. [poller[p] EXCEPT !.pc = "loop"] \in PollerState
        BY <1>3, <1>8 DEF PollRun, PollerState
      <4> QED BY <1>1, <1>4, <4>1, <4>2 DEF PollerOK
    <3> QED BY <3>1, <3>2
  <2>4. RunnerOK'
    BY <2>1, BeginRunType
  <2> QED BY <1>1, <1>8, <2>2, <2>3, <2>4 DEF PollRun, RestOK
<1>9. CASE PollFails(p)
  BY <1>1, <1>9, EndPollType DEF PollFails, RunnerOK, RestOK
<1> QED BY <1>5, <1>6, <1>7, <1>8, <1>9 DEF Poll

LEMMA ErasedRunsType ==
  ASSUME RestOK, NEW t \in Task,
         runs' = [i \in Run |-> IF runs[i].task = t /\ runs[i].status # "unused"
                               THEN [runs[i] EXCEPT !.status = "deleted"] ELSE runs[i]]
  PROVE  runs' \in [Run -> RunRow]
<1>1. ASSUME NEW i \in Run
      PROVE  runs[i] \in RunRow /\ [runs[i] EXCEPT !.status = "deleted"] \in RunRow
  BY RunRowType DEF RestOK
<1> QED BY <1>1

LEMMA RouteType ==
  ASSUME TypeOK, NEW t \in Task, CronFires(t) \/ Elapse(t) \/ Route(t)
  PROVE  TypeOK'
<1> USE DEF store, starting
<1>1. RunnerOK /\ PollerOK /\ RestOK
  BY TypeParts
<1>2. SUFFICES RunnerOK' /\ PollerOK' /\ RestOK'
  BY DEF TypeOK, RunnerOK, PollerOK, RestOK
<1>3. ASSUME NEW k \in Cron, NEW b \in BOOLEAN
      PROVE  Apply(t, k, b) \in Request
  BY DEF Apply, Request
<1>4. CASE CronFires(t)
  BY <1>1, <1>4, BeginRunType DEF CronFires, PollerOK, RestOK
<1>5. CASE Elapse(t)
  <2>1. row' \in [Task -> TaskRow]
    BY <1>1, <1>5, RowType DEF Elapse
  <2> QED BY <1>1, <1>5, <2>1 DEF Elapse, RunnerOK, PollerOK, RestOK
<1>6. CASE \E cron \in Cron, at \in {"none", "future"} : CreateTask(t, cron, at)
  <2>1. PICK cron \in Cron, at \in {"none", "future"} : CreateTask(t, cron, at)
    BY <1>6
  <2>2. row' \in [Task -> TaskRow]
    BY <1>1, <2>1 DEF CreateTask, RestOK, TaskRow
  <2>3. requests' \in SUBSET Request
    BY <1>1, <1>3, <2>1 DEF CreateTask, RestOK
  <2> QED BY <1>1, <2>1, <2>2, <2>3 DEF CreateTask, RunnerOK, PollerOK, RestOK
<1>7. CASE \E cron \in Cron, at \in {"none", "future", row[t].at}, enabled \in BOOLEAN :
             EditTask(t, cron, at, enabled)
  <2>1. PICK cron \in Cron, at \in {"none", "future", row[t].at}, enabled \in BOOLEAN :
          EditTask(t, cron, at, enabled)
    BY <1>7
  <2>2. at \in {"none", "future", "due"}
    BY <1>1 DEF RestOK, TaskRow
  <2>3. row' = [row EXCEPT ![t].cron = cron, ![t].at = at, ![t].enabled = enabled]
    BY <2>1 DEF EditTask
  <2>4. row' \in [Task -> TaskRow]
    BY <1>1, <2>2, <2>3, EditedRowType
  <2>5. requests' \in SUBSET Request
    BY <1>1, <1>3, <2>1 DEF EditTask, RestOK
  <2>6. past' \in [Task -> {"waiting", "started", "again", "edited"}]
    BY <1>1, <2>1 DEF EditTask, RestOK
  <2> QED BY <1>1, <2>1, <2>4, <2>5, <2>6 DEF EditTask, RunnerOK, PollerOK, RestOK
<1>8. CASE DeleteTask(t)
  <2>1. [step |-> "erase", task |-> t] \in Request
    BY DEF Request
  <2>2. requests' \in SUBSET Request /\ crons' \in [Task -> Cron]
    BY <1>1, <1>8, <2>1 DEF DeleteTask, RestOK, Cron
  <2> QED BY <1>1, <1>8, <2>2 DEF DeleteTask, RunnerOK, PollerOK, RestOK
<1>9. CASE RunNow(t)
  BY <1>1, <1>9, BeginRunType DEF RunNow, PollerOK, RestOK
<1>10. CASE DeleteRuns(t)
  <2>1. runs' \in [Run -> RunRow]
    BY <1>1, <1>10, ErasedRunsType DEF DeleteRuns
  <2> QED BY <1>1, <1>10, <2>1 DEF DeleteRuns, RunnerOK, PollerOK, RestOK
<1> QED BY <1>4, <1>5, <1>6, <1>7, <1>8, <1>9, <1>10 DEF Route

LEMMA ContinueType ==
  ASSUME TypeOK, NEW q \in requests, Continue(q)
  PROVE  TypeOK'
<1> USE DEF store, starting
<1>1. RunnerOK /\ PollerOK /\ RestOK /\ q \in Request
  BY TypeParts DEF RestOK
<1>2. SUFFICES RunnerOK' /\ PollerOK' /\ RestOK'
  BY DEF TypeOK, RunnerOK, PollerOK, RestOK
<1>3. q.task \in Task /\ (q.step = "apply" => q.cron \in Cron /\ q.enabled \in BOOLEAN)
  BY <1>1 DEF Request
<1>4. CASE ApplyRequest(q)
  <2>1. crons' \in [Task -> Cron]
    <3>1. CASE q.enabled
      <4>1. crons' = [crons EXCEPT ![q.task] = q.cron]
        BY <1>4, <3>1, Zenon DEF ApplyRequest, Scheduled
      <4> QED BY <1>1, <1>3, <1>4, <4>1 DEF RestOK, ApplyRequest
    <3>2. CASE ~q.enabled
      <4>1. crons' = [crons EXCEPT ![q.task] = NoCron]
        BY <1>4, <3>2, Zenon DEF ApplyRequest, Scheduled
      <4> QED BY <1>1, <4>1 DEF RestOK, Cron
    <3> QED BY <3>1, <3>2
  <2> QED BY <1>1, <1>4, <2>1 DEF ApplyRequest, RunnerOK, PollerOK, RestOK
<1>5. CASE EraseTask(q)
  <2>1. row' \in [Task -> TaskRow]
    BY <1>1, <1>3, <1>5, RowType DEF EraseTask
  <2>2. runs' \in [Run -> RunRow]
    BY <1>1, <1>3, <1>5, ErasedRunsType DEF EraseTask
  <2> QED BY <1>1, <1>5, <2>1, <2>2 DEF EraseTask, RunnerOK, PollerOK, RestOK
<1> QED BY <1>4, <1>5 DEF Continue

LEMMA ProcessType ==
  ASSUME TypeOK, Boot \/ Stop \/ Restart \/ (\E i \in Run : DeleteRun(i))
  PROVE  TypeOK'
<1> USE DEF store, starting
<1>1. RunnerOK /\ PollerOK /\ RestOK
  BY TypeParts
<1>2. SUFFICES RunnerOK' /\ PollerOK' /\ RestOK'
  BY DEF TypeOK, RunnerOK, PollerOK, RestOK
<1>3. CASE BootMark
  <2>1. ASSUME NEW i \in Run
        PROVE  /\ runs[i] \in RunRow
               /\ [runs[i] EXCEPT !.status = "failed", !.interrupted = TRUE] \in RunRow
    BY <1>1, RunRowType DEF RestOK
  <2>2. runs' \in [Run -> RunRow]
    BY <1>3, <2>1 DEF BootMark
  <2> QED BY <1>1, <1>3, <2>2 DEF BootMark, RunnerOK, PollerOK, RestOK
<1>4. CASE BootSelect
  <2>1. selected' \in SUBSET (Task \X Expr)
    BY <1>4 DEF BootSelect
  <2> QED BY <1>1, <1>4, <2>1 DEF BootSelect, RunnerOK, PollerOK, RestOK
<1>5. CASE BootArm
  <2>1. crons' \in [Task -> Cron]
    <3>1. \A t \in Task : (\E e \in Expr : <<t, e>> \in selected) =>
            (CHOOSE e \in Expr : <<t, e>> \in selected) \in Expr
      OBVIOUS
    <3> QED BY <1>1, <1>5, <3>1 DEF BootArm, RestOK, Cron
  <2>2. poller' \in [Poller -> PollerState]
    <3>1. PICK p \in Poller :
            poller' = [poller EXCEPT ![p] = [IdlePoller EXCEPT !.pc = "select", !.boot = TRUE]]
      BY <1>5 DEF BootArm
    <3>2. [IdlePoller EXCEPT !.pc = "select", !.boot = TRUE] \in PollerState
      BY DEF IdlePoller, PollerState
    <3> QED BY <1>1, <3>1, <3>2 DEF PollerOK
  <2> QED BY <1>1, <1>5, <2>1, <2>2 DEF BootArm, RunnerOK, PollerOK, RestOK
<1>6. CASE BootFails
  BY <1>1, <1>6 DEF BootFails, RunnerOK, PollerOK, RestOK
<1>7. CASE Stop
  BY <1>1, <1>7 DEF Stop, RunnerOK, PollerOK, RestOK, Cron
<1>8. CASE Restart
  <2>1. restarts' \in 0 .. MaxRestarts
    BY <1>1, <1>8, SchedulerAssumption DEF Restart, RestOK
  <2>2. RunnerOK' /\ PollerOK'
    BY <1>8 DEF Restart, RunnerOK, PollerOK, RunnerState, PollerState
  <2>3. crons' \in [Task -> Cron] /\ selected' = {} /\ requests' = {}
    BY <1>8 DEF Restart, Cron
  <2>4. UNCHANGED <<row, runs, past>>
    BY <1>8 DEF Restart
  <2>5. selected' \in SUBSET (Task \X Expr) /\ requests' \in SUBSET Request
    BY <2>3
  <2> QED BY <1>1, <2>1, <2>2, <2>3, <2>4, <2>5 DEF RestOK
<1>9. CASE \E i \in Run : DeleteRun(i)
  <2>1. runs' \in [Run -> RunRow]
    <3>1. PICK i \in Run : runs' = [runs EXCEPT ![i].status = "deleted"]
      BY <1>9 DEF DeleteRun, SetRun
    <3>2. [runs EXCEPT ![i].status = "deleted"] \in [Run -> RunRow]
      BY <1>1, RunRowType
    <3> QED BY <3>1, <3>2
  <2>2. UNCHANGED <<row, crons, selected, requests, restarts, past>>
    BY <1>9 DEF DeleteRun
  <2>3. RunnerOK' /\ PollerOK'
    BY <1>1, <1>9 DEF DeleteRun, RunnerOK, PollerOK
  <2> QED BY <1>1, <2>1, <2>2, <2>3 DEF RestOK
<1> QED BY <1>3, <1>4, <1>5, <1>6, <1>7, <1>8, <1>9 DEF Boot

LEMMA TypeInit == Init => TypeOK
<1>1. SUFFICES ASSUME Init PROVE TypeOK
  OBVIOUS
<1>2. RunnerOK /\ PollerOK
  BY <1>1 DEF Init, RunnerOK, PollerOK, RunnerState, PollerState
<1>3. row \in [Task -> TaskRow] /\ runs \in [Run -> RunRow]
  BY <1>1 DEF Init, TaskRow, RunRow, Cron
<1>4. crons \in [Task -> Cron] /\ selected = {} /\ requests = {} /\ restarts \in 0 .. MaxRestarts
  BY <1>1, SchedulerAssumption DEF Init, Cron
<1>5. past \in [Task -> {"waiting", "started", "again", "edited"}]
  BY <1>1 DEF Init
<1> QED BY <1>2, <1>3, <1>4, <1>5, TypeParts DEF RestOK

LEMMA TypeStep == TypeOK /\ [Next]_vars => TypeOK'
<1>1. CASE UNCHANGED vars
  BY <1>1 DEF vars, store, starting, TypeOK
<1>2. ASSUME TypeOK, Next PROVE TypeOK'
  BY <1>2, RunTaskType, PollType, RouteType, ContinueType, ProcessType DEF Next
<1> QED BY <1>1, <1>2

(* Types: rows and run rows of the database, the Cron objects, the calls   *)
(* of runTask and of the poll, the startup and the pending requests stay   *)
(* within their domains, whoever runs, edits, deletes or restarts.         *)
THEOREM TypeCorrect == Spec => []TypeOK
BY TypeInit, TypeStep, PTL DEF Spec

-----------------------------------------------------------------------------
(* One execution per task                                                  *)

LEMMA PollCalls ==
  ASSUME TypeOK, NEW p \in Poller, PollBegin(p) \/ Poll(p)
  PROVE  /\ UNCHANGED <<runs, crons, requests>>
         /\ \/ UNCHANGED <<runner, activeRuns>>
            \/ poller[p].pc = "run" /\ \E t \in Task : BeginRun(t)
<1> USE DEF store, starting
<1>1. CASE PollRun(p)
  <2>1. poller[p].task \in Task
    BY <1>1, PollerFields, TypeParts DEF PollRun
  <2> QED BY <1>1, <2>1 DEF PollRun
<1>2. CASE PollBegin(p) \/ PollSelect(p) \/ PollDisable(p) \/ PollFails(p)
  BY <1>2 DEF PollBegin, PollSelect, PollDisable, PollFails
<1> QED BY <1>1, <1>2 DEF Poll

LEMMA RouteCalls ==
  ASSUME NEW t \in Task, CronFires(t) \/ Elapse(t) \/ Route(t)
  PROVE  \/ UNCHANGED <<runner, activeRuns>>
         \/ BeginRun(t) /\ UNCHANGED runs /\ (crons[t] # NoCron \/ Serving)
<1> USE DEF store, starting
<1>1. CASE CronFires(t) \/ RunNow(t)
  BY <1>1 DEF CronFires, RunNow
<1>2. CASE Elapse(t) \/ DeleteTask(t) \/ DeleteRuns(t)
  BY <1>2 DEF Elapse, DeleteTask, DeleteRuns
<1>3. CASE \E cron \in Cron, at \in {"none", "future"} : CreateTask(t, cron, at)
  BY <1>3 DEF CreateTask
<1>4. CASE \E cron \in Cron, at \in {"none", "future", row[t].at}, enabled \in BOOLEAN :
             EditTask(t, cron, at, enabled)
  BY <1>4 DEF EditTask
<1> QED BY <1>1, <1>2, <1>3, <1>4 DEF Route

LEMMA ProcessCalls ==
  ASSUME Boot \/ Stop \/ (\E i \in Run : DeleteRun(i)) \/ (\E q \in requests : Continue(q))
  PROVE  UNCHANGED <<runner, activeRuns>>
BY DEF Boot, BootMark, BootSelect, BootArm, BootFails, Stop, DeleteRun, Continue,
       ApplyRequest, EraseTask

(* A step of runTask ends the call or leaves it on its task.               *)
LEMMA RunTaskCalls ==
  ASSUME TypeOK, NEW r \in Runner, RunTask(r)
  PROVE  /\ runner[r].pc # "idle"
         /\ \A s \in Runner \ {r} : runner'[s] = runner[s]
         /\ \/ runner'[r] = IdleRunner /\ activeRuns' = activeRuns \ {runner[r].task}
            \/ /\ runner'[r].pc \in RunnerSteps /\ runner'[r].task = runner[r].task
               /\ activeRuns' = activeRuns
<1>1. RunnerOK
  BY TypeParts
<1>2. runner[r].pc # "idle" =>
        runner[r] \in [pc : RunnerSteps, task : Task, run : Run \cup {NoRun},
                       recurring : BOOLEAN]
  BY <1>1, RunnerFields
<1>3. CASE RunGetTask(r)
  <2>1. CASE ~Live(runner[r].task)
    BY <1>1, <1>3, <2>1, EndRunType DEF RunGetTask
  <2>2. CASE Live(runner[r].task)
    <3> DEFINE b == row[runner[r].task].cron # NoCron
    <3>1. runner' = [runner EXCEPT ![r] = [runner[r] EXCEPT !.pc = "create", !.recurring = b]]
          /\ activeRuns' = activeRuns
      BY <1>1, <1>3, <2>2 DEF RunGetTask, RunnerOK
    <3>2. /\ [runner[r] EXCEPT !.pc = "create", !.recurring = b].pc = "create"
          /\ [runner[r] EXCEPT !.pc = "create", !.recurring = b].task = runner[r].task
      BY <1>2, <1>3 DEF RunGetTask
    <3> HIDE DEF b
    <3> QED BY <1>1, <1>3, <3>1, <3>2 DEF RunGetTask, RunnerOK, RunnerSteps
  <2> QED BY <2>1, <2>2
<1>4. CASE RunCreate(r)
  <2>1. CASE ~Live(runner[r].task)
    BY <1>1, <1>4, <2>1, EndRunType DEF RunCreate
  <2>2. CASE Live(runner[r].task)
    <3>1. PICK i \in Run :
            runner' = [runner EXCEPT ![r].pc = "exec", ![r].run = i] /\ UNCHANGED activeRuns
      BY <1>4, <2>2 DEF RunCreate
    <3>2. runner' = [runner EXCEPT ![r] = [runner[r] EXCEPT !.pc = "exec", !.run = i]]
      BY <1>1, <3>1 DEF RunnerOK
    <3>3. /\ [runner[r] EXCEPT !.pc = "exec", !.run = i].pc = "exec"
          /\ [runner[r] EXCEPT !.pc = "exec", !.run = i].task = runner[r].task
      BY <1>2, <1>4 DEF RunCreate
    <3> QED BY <1>1, <1>4, <3>1, <3>2, <3>3 DEF RunCreate, RunnerOK, RunnerSteps
  <2> QED BY <2>1, <2>2
<1>5. CASE RunExecute(r)
  BY <1>1, <1>5, GoOnType DEF RunExecute, RunnerSteps
<1>6. CASE RunComplete(r)
  BY <1>1, <1>6, GoOnType DEF RunComplete, RunnerSteps
<1>7. CASE RunFinish(r)
  BY <1>1, <1>7, EndRunType DEF RunFinish
<1>8. CASE RunFail(r)
  BY <1>1, <1>8, EndRunType DEF RunFail
<1>9. CASE RunDbFails(r)
  BY <1>1, <1>9, EndRunType, GoOnType DEF RunDbFails, RunnerSteps
<1> QED BY <1>3, <1>4, <1>5, <1>6, <1>7, <1>8, <1>9 DEF RunTask

LEMMA BeginExclusive ==
  ASSUME TypeOK, OneExecution, NEW t \in Task, BeginRun(t)
  PROVE  OneExecution'
<1>1. CASE UNCHANGED <<activeRuns, runner>>
  BY <1>1 DEF OneExecution
<1>2. CASE ~UNCHANGED <<activeRuns, runner>>
  <2>1. t \notin activeRuns /\ activeRuns' = activeRuns \cup {t}
    BY <1>2, BeginRunValue, TypeParts
  <2>2. PICK r \in Runner :
          /\ runner[r].pc = "idle"
          /\ runner'[r].pc = "get" /\ runner'[r].task = t
          /\ \A s \in Runner \ {r} : runner'[s] = runner[s]
    BY <1>2, BeginRunValue, TypeParts
  <2>3. \A s \in Runner \ {r} : runner[s].pc # "idle" => runner[s].task # t
    BY <2>1 DEF OneExecution
  <2>4. activeRuns' = {runner'[s].task : s \in {q \in Runner : runner'[q].pc # "idle"}}
    BY <2>1, <2>2 DEF OneExecution
  <2> QED BY <2>2, <2>3, <2>4 DEF OneExecution
<1> QED BY <1>1, <1>2

(* No two calls of runTask work on one task, and activeRuns holds exactly  *)
(* the tasks in work: schedules, polls, requests, failures and restarts    *)
(* never start an execution beside another one or leak an entry.           *)
THEOREM Exclusive == Spec => []OneExecution
<1>1. Init => OneExecution
  BY DEF Init, OneExecution, IdleRunner
<1>2. TypeOK /\ OneExecution /\ [Next]_vars => OneExecution'
  <2>1. SUFFICES ASSUME TypeOK, OneExecution, [Next]_vars PROVE OneExecution'
    OBVIOUS
  <2>2. CASE UNCHANGED vars
    BY <2>1, <2>2 DEF vars, OneExecution
  <2>3. ASSUME NEW r \in Runner, RunTask(r) PROVE OneExecution'
    <3>1. /\ runner[r].pc # "idle"
          /\ \A s \in Runner \ {r} : runner'[s] = runner[s]
      BY <2>1, <2>3, RunTaskCalls
    <3>2. CASE runner'[r] = IdleRunner /\ activeRuns' = activeRuns \ {runner[r].task}
      <4>1. runner'[r].pc = "idle"
        BY <3>2 DEF IdleRunner
      <4> QED BY <2>1, <3>1, <3>2, <4>1 DEF OneExecution
    <3>3. CASE /\ runner'[r].pc \in RunnerSteps /\ runner'[r].task = runner[r].task
               /\ activeRuns' = activeRuns
      <4>1. runner'[r].pc # "idle"
        BY <3>3 DEF RunnerSteps
      <4>2. \A s \in Runner : /\ runner'[s].pc = "idle" <=> runner[s].pc = "idle"
                              /\ runner'[s].task = runner[s].task
        BY <3>1, <3>3, <4>1
      <4> QED BY <2>1, <3>3, <4>2 DEF OneExecution
    <3> QED BY <2>1, <2>3, <3>2, <3>3, RunTaskCalls
  <2>4. CASE UNCHANGED <<runner, activeRuns>>
    BY <2>1, <2>4 DEF OneExecution
  <2>5. CASE Restart
    <3>1. activeRuns' = {} /\ \A r \in Runner : runner'[r].pc = "idle"
      BY <2>5 DEF Restart, IdleRunner
    <3> QED BY <3>1 DEF OneExecution
  <2>6. ASSUME Next, ~Restart, \A r \in Runner : ~RunTask(r), ~UNCHANGED <<runner, activeRuns>>
        PROVE  \E t \in Task : BeginRun(t)
    BY <2>1, <2>6, PollCalls, RouteCalls, ProcessCalls DEF Next
  <2> QED BY <2>1, <2>2, <2>3, <2>4, <2>5, <2>6, BeginExclusive
<1> QED BY <1>1, <1>2, TypeCorrect, PTL DEF Spec

-----------------------------------------------------------------------------
(* Run rows tell the truth                                                 *)

(* A call with a run in hand knows an existing row of its own task.        *)
HandInv == \A r \in Runner : InHand(r) =>
             /\ runner[r].run \in Run
             /\ runs[runner[r].run].task = runner[r].task
             /\ runs[runner[r].run].status # "unused"

(* Nothing polls before the startup has closed the runs left behind.       *)
PollQuiet == boot = "mark" => ~timer /\ \A p \in Poller : poller[p].pc = "idle"

RunningInv ==
  boot # "mark" => \A i \in Run : runs[i].status = "running" =>
    \E r \in Runner : InHand(r) /\ runner[r].run = i

(* What a step of runTask does to its run: none or nothing changes; the    *)
(* row is created; it is closed; the call ends without closing it.         *)
Goes(r) == /\ UNCHANGED runs
           /\ InHand(r) <=> runner'[r].pc \in {"exec", "complete", "fail"}
           /\ InHand(r) => runner'[r].run = runner[r].run
Creates(r) == ~InHand(r) /\ \E i \in Run :
  /\ runs[i].status = "unused"
  /\ runs' = [runs EXCEPT ![i].status = "running", ![i].task = runner[r].task]
  /\ runner'[r].pc = "exec" /\ runner'[r].run = i /\ runner'[r].task = runner[r].task
Closes(r) == /\ InHand(r) /\ runner'[r].pc \in {"meta", "idle"} /\ HasRow(r)
             /\ \E st \in {"completed", "failed"} : SetRun(runner[r].run, st)
LetsGo(r) == /\ InHand(r) /\ runner'[r].pc = "idle" /\ UNCHANGED runs
             /\ DbFaults \/ ~HasRow(r)

LEMMA RunTaskRuns ==
  ASSUME TypeOK, NEW r \in Runner, RunTask(r)
  PROVE  Goes(r) \/ Creates(r) \/ Closes(r) \/ LetsGo(r)
<1> USE DEF store, starting
<1>1. RunnerOK
  BY TypeParts
<1>2. runner[r].pc # "idle" =>
        runner[r] \in [pc : RunnerSteps, task : Task, run : Run \cup {NoRun},
                       recurring : BOOLEAN]
  BY <1>1, RunnerFields
<1>3. IdleRunner.pc = "idle"
  BY DEF IdleRunner
<1>4. CASE RunGetTask(r)
  <2>1. UNCHANGED runs /\ ~InHand(r)
    BY <1>4 DEF RunGetTask, InHand
  <2>2. CASE ~Live(runner[r].task)
    BY <1>1, <1>3, <1>4, <2>1, <2>2, EndRunType DEF RunGetTask, Goes
  <2>3. CASE Live(runner[r].task)
    <3> DEFINE b == row[runner[r].task].cron # NoCron
    <3>1. runner' = [runner EXCEPT ![r] = [runner[r] EXCEPT !.pc = "create", !.recurring = b]]
      BY <1>1, <1>4, <2>3 DEF RunGetTask, RunnerOK
    <3>2. [runner[r] EXCEPT !.pc = "create", !.recurring = b].pc = "create"
      BY <1>2, <1>4 DEF RunGetTask
    <3> HIDE DEF b
    <3>3. runner'[r].pc = "create"
      BY <1>1, <3>1, <3>2 DEF RunnerOK
    <3> QED BY <2>1, <3>3 DEF Goes
  <2> QED BY <2>2, <2>3
<1>5. CASE RunCreate(r)
  <2>1. CASE ~Live(runner[r].task)
    BY <1>1, <1>3, <1>5, <2>1, EndRunType DEF RunCreate, Goes, InHand
  <2>2. CASE Live(runner[r].task)
    <3>1. PICK i \in Run :
            /\ runs[i].status = "unused"
            /\ runs' = [runs EXCEPT ![i].status = "running", ![i].task = runner[r].task]
            /\ runner' = [runner EXCEPT ![r].pc = "exec", ![r].run = i]
      BY <1>5, <2>2 DEF RunCreate
    <3>2. runner' = [runner EXCEPT ![r] = [runner[r] EXCEPT !.pc = "exec", !.run = i]]
      BY <1>1, <3>1 DEF RunnerOK
    <3>3. /\ [runner[r] EXCEPT !.pc = "exec", !.run = i].pc = "exec"
          /\ [runner[r] EXCEPT !.pc = "exec", !.run = i].run = i
          /\ [runner[r] EXCEPT !.pc = "exec", !.run = i].task = runner[r].task
      BY <1>2, <1>5 DEF RunCreate
    <3>4. runner'[r].pc = "exec" /\ runner'[r].run = i /\ runner'[r].task = runner[r].task
      BY <1>1, <3>2, <3>3 DEF RunnerOK
    <3> QED BY <1>5, <3>1, <3>4 DEF Creates, RunCreate, InHand
  <2> QED BY <2>1, <2>2
<1>6. CASE RunExecute(r)
  BY <1>1, <1>6, GoOnType DEF RunExecute, RunnerSteps, Goes, InHand
<1>7. CASE RunComplete(r)
  BY <1>1, <1>7, GoOnType DEF RunComplete, RunnerSteps, Goes, Closes, InHand
<1>8. CASE RunFinish(r)
  BY <1>1, <1>3, <1>8, EndRunType DEF RunFinish, Goes, InHand
<1>9. CASE RunFail(r)
  BY <1>1, <1>3, <1>9, EndRunType DEF RunFail, Closes, LetsGo, InHand
<1>10. CASE RunDbFails(r)
  <2>1. CASE runner[r].pc = "complete" /\ GoOn(r, "fail")
    BY <1>1, <1>10, <2>1, GoOnType DEF RunDbFails, RunnerSteps, Goes, InHand
  <2>2. CASE runner[r].pc \in {"get", "create", "meta", "fail"} /\ EndRun(r)
    BY <1>1, <1>3, <1>10, <2>2, EndRunType DEF RunDbFails, Goes, LetsGo, InHand
  <2> QED BY <1>10, <2>1, <2>2 DEF RunDbFails
<1> QED BY <1>4, <1>5, <1>6, <1>7, <1>8, <1>9, <1>10 DEF RunTask

(* What the other steps do to a run row: nothing, deletion, and the        *)
(* closing of interrupted runs at startup.                                 *)
LEMMA OtherRuns ==
  ASSUME TypeOK, Next, \A r \in Runner : ~RunTask(r)
  PROVE  \A i \in Run :
           /\ runs'[i].task = runs[i].task
           /\ \/ runs'[i].status = runs[i].status
              \/ runs[i].status # "unused" /\ runs'[i].status = "deleted"
              \/ BootMark /\ runs[i].status = "running" /\ runs'[i].status = "failed"
<1> USE DEF store, starting
<1>1. RestOK
  BY TypeParts
<1>2. \A i \in Run : runs[i] \in RunRow
  BY <1>1 DEF RestOK
<1>3. ASSUME NEW i \in Run, NEW s \in {"failed", "deleted"}
      PROVE  /\ [runs[i] EXCEPT !.status = s].task = runs[i].task
             /\ [runs[i] EXCEPT !.status = s].status = s
             /\ [runs[i] EXCEPT !.status = s, !.interrupted = TRUE].task = runs[i].task
             /\ [runs[i] EXCEPT !.status = s, !.interrupted = TRUE].status = s
  BY <1>2 DEF RunRow
<1>4. ASSUME NEW i \in Run, DeleteRun(i)
      PROVE  /\ runs' = [runs EXCEPT ![i] = [runs[i] EXCEPT !.status = "deleted"]]
             /\ runs[i].status # "unused"
  BY <1>1, <1>4 DEF DeleteRun, SetRun, RestOK
<1>5. CASE \E i \in Run : DeleteRun(i)
  BY <1>1, <1>3, <1>4, <1>5 DEF RestOK
<1>6. CASE BootMark
  BY <1>3, <1>6 DEF BootMark
<1>7. CASE \E t \in Task : DeleteRuns(t)
  BY <1>3, <1>7 DEF DeleteRuns
<1>8. CASE \E q \in requests : EraseTask(q)
  BY <1>3, <1>8 DEF EraseTask
<1>9. CASE UNCHANGED runs
  BY <1>9
<1>10. CASE \E p \in Poller : PollBegin(p) \/ Poll(p)
  BY <1>9, <1>10, PollCalls
<1>11. ASSUME NEW t \in Task, CronFires(t) \/ Elapse(t) \/ Route(t), ~DeleteRuns(t)
       PROVE  UNCHANGED runs
  <2>1. CASE CronFires(t) \/ RunNow(t)
    BY <2>1 DEF CronFires, RunNow
  <2>2. CASE Elapse(t) \/ DeleteTask(t)
    BY <2>2 DEF Elapse, DeleteTask
  <2>3. CASE \E cron \in Cron, at \in {"none", "future"} : CreateTask(t, cron, at)
    BY <2>3 DEF CreateTask
  <2>4. CASE \E cron \in Cron, at \in {"none", "future", row[t].at}, enabled \in BOOLEAN :
               EditTask(t, cron, at, enabled)
    BY <2>4 DEF EditTask
  <2> QED BY <1>11, <2>1, <2>2, <2>3, <2>4 DEF Route
<1>12. CASE \E q \in requests : ApplyRequest(q)
  BY <1>12 DEF ApplyRequest
<1>13. CASE BootSelect \/ BootArm \/ BootFails \/ Stop \/ Restart
  BY <1>13 DEF BootSelect, BootArm, BootFails, Stop, Restart
<1> QED BY <1>5, <1>6, <1>7, <1>8, <1>9, <1>10, <1>11, <1>12, <1>13 DEF Next, Continue, Boot

LEMMA OtherCalls ==
  ASSUME TypeOK, Next, \A r \in Runner : ~RunTask(r)
  PROVE  \A r \in Runner :
           \/ runner'[r] = runner[r]
           \/ Restart /\ runner'[r].pc = "idle"
           \/ /\ runner[r].pc = "idle" /\ runner'[r].pc = "get"
              /\ boot = "mark" => (Serving \/ \E t \in Task : crons[t] # NoCron)
                                   \/ (\E p \in Poller : poller[p].pc # "idle")
<1>1. CASE UNCHANGED runner
  BY <1>1
<1>2. CASE Restart
  BY <1>2 DEF Restart, IdleRunner
<1>3. ASSUME NEW t \in Task, BeginRun(t)
      PROVE  \A r \in Runner :
               runner'[r] = runner[r] \/ (runner[r].pc = "idle" /\ runner'[r].pc = "get")
  <2>1. CASE UNCHANGED <<activeRuns, runner>>
    BY <2>1
  <2>2. CASE ~UNCHANGED <<activeRuns, runner>>
    BY <1>3, <2>2, BeginRunValue, TypeParts
  <2> QED BY <2>1, <2>2
<1>4. CASE \E p \in Poller : PollBegin(p) \/ Poll(p)
  BY <1>1, <1>3, <1>4, PollCalls
<1>5. CASE \E t \in Task : CronFires(t) \/ Elapse(t) \/ Route(t)
  BY <1>1, <1>3, <1>5, RouteCalls
<1>6. CASE Boot \/ Stop \/ (\E i \in Run : DeleteRun(i)) \/ (\E q \in requests : Continue(q))
  BY <1>1, <1>6, ProcessCalls
<1> QED BY <1>2, <1>4, <1>5, <1>6 DEF Next

LEMMA HandInit == Init => HandInv
BY DEF Init, HandInv, InHand, IdleRunner

LEMMA HandStep == TypeOK /\ HandInv /\ [Next]_vars => HandInv'
<1>1. SUFFICES ASSUME TypeOK, HandInv, [Next]_vars PROVE HandInv'
  OBVIOUS
<1>2. RunnerOK /\ RestOK
  BY <1>1, TypeParts
<1>3. CASE UNCHANGED vars
  BY <1>1, <1>3 DEF vars, store, HandInv, InHand
<1>4. ASSUME NEW r \in Runner, RunTask(r) PROVE HandInv'
  <2>1. /\ \A s \in Runner \ {r} : runner'[s] = runner[s]
        /\ runner'[r].task = runner[r].task \/ runner'[r] = IdleRunner
    BY <1>1, <1>4, RunTaskCalls
  <2>2. IdleRunner.pc = "idle"
    BY DEF IdleRunner
  <2>3. CASE Goes(r)
    BY <1>1, <2>1, <2>2, <2>3 DEF Goes, HandInv, InHand
  <2>4. CASE Creates(r)
    <3>1. PICK i \in Run :
            /\ runs[i].status = "unused"
            /\ runs' = [runs EXCEPT ![i].status = "running", ![i].task = runner[r].task]
            /\ runner'[r].pc = "exec" /\ runner'[r].run = i /\ runner'[r].task = runner[r].task
      BY <2>4 DEF Creates
    <3>2. runs'[i].task = runner[r].task /\ runs'[i].status = "running"
      BY <1>2, <3>1 DEF RestOK, RunRow
    <3>3. \A j \in Run \ {i} : runs'[j] = runs[j]
      BY <1>2, <3>1 DEF RestOK
    <3>4. \A s \in Runner \ {r} : InHand(s) => runner[s].run \in Run \ {i}
      BY <1>1, <3>1 DEF HandInv
    <3>5. /\ runner'[r].run \in Run /\ runs'[runner'[r].run].task = runner'[r].task
          /\ runs'[runner'[r].run].status # "unused"
      BY <3>1, <3>2
    <3>6. ASSUME NEW s \in Runner \ {r}, InHand(s)'
          PROVE  /\ runner'[s].run \in Run /\ runs'[runner'[s].run].task = runner'[s].task
                 /\ runs'[runner'[s].run].status # "unused"
      <4>1. runner'[s] = runner[s] /\ InHand(s)
        BY <2>1, <3>6 DEF InHand
      <4>2. runner[s].run \in Run \ {i}
        BY <3>4, <4>1
      <4> QED BY <1>1, <3>3, <4>1, <4>2 DEF HandInv
    <3> QED BY <3>5, <3>6 DEF HandInv
  <2>5. CASE Closes(r)
    <3>1. PICK st \in {"completed", "failed"} : runs' = [runs EXCEPT ![runner[r].run].status = st]
      BY <2>5 DEF Closes, SetRun
    <3>2. \A j \in Run : /\ runs'[j].task = runs[j].task
                         /\ runs[j].status # "unused" => runs'[j].status # "unused"
      BY <1>2, <3>1 DEF RestOK, RunRow
    <3> QED BY <1>1, <2>1, <2>5, <3>2 DEF Closes, HandInv, InHand
  <2>6. CASE LetsGo(r)
    BY <1>1, <2>1, <2>6 DEF LetsGo, HandInv, InHand
  <2> QED BY <1>1, <1>4, <2>3, <2>4, <2>5, <2>6, RunTaskRuns
<1>5. ASSUME Next, \A r \in Runner : ~RunTask(r) PROVE HandInv'
  <2>1. \A i \in Run : /\ runs'[i].task = runs[i].task
                       /\ runs[i].status # "unused" => runs'[i].status # "unused"
    BY <1>1, <1>5, OtherRuns
  <2>2. \A r \in Runner : InHand(r)' => InHand(r) /\ runner'[r] = runner[r]
    BY <1>1, <1>5, OtherCalls DEF InHand
  <2> QED BY <1>1, <2>1, <2>2 DEF HandInv
<1> QED BY <1>1, <1>3, <1>4, <1>5

(* A poll runs only once the startup has closed what was left behind.      *)
LEMMA PollStep ==
  ASSUME PollQuiet, NEW p \in Poller, PollBegin(p) \/ Poll(p)
  PROVE  boot # "mark" /\ boot' # "mark"
<1> USE DEF store, starting
<1>1. boot # "mark"
  BY DEF PollQuiet, Poll, PollBegin, PollSelect, PollDisable, PollRun, PollFails
<1>2. ASSUME NEW threw \in BOOLEAN, EndPoll(p, threw)
      PROVE  boot' # "mark"
  <2>1. boot' \in {boot, "failed", "done"}
    BY <1>2, Zenon DEF EndPoll
  <2> QED BY <1>1, <2>1
<1>3. EndPoll(p, FALSE) \/ EndPoll(p, TRUE) \/ UNCHANGED boot
  <2>1. CASE PollBegin(p)
    BY <2>1 DEF PollBegin
  <2>2. CASE PollSelect(p)
    BY <2>2, Zenon DEF PollSelect
  <2>3. CASE PollDisable(p)
    BY <2>3 DEF PollDisable
  <2>4. CASE PollRun(p)
    BY <2>4 DEF PollRun
  <2>5. CASE PollFails(p)
    BY <2>5 DEF PollFails
  <2> QED BY <2>1, <2>2, <2>3, <2>4, <2>5 DEF Poll
<1> QED BY <1>1, <1>2, <1>3

(* What a step does to boot and timer, polls aside.                        *)
LEMMA BootSteps ==
  ASSUME Next, \A p \in Poller : ~(PollBegin(p) \/ Poll(p))
  PROVE  \/ UNCHANGED <<boot, timer, poller>>
         \/ Restart
         \/ boot' # "mark" /\ (boot = "mark" => BootMark \/ BootFails)
<1> USE DEF store, starting
<1>1. CASE \E r \in Runner : RunTask(r)
  BY <1>1 DEF RunTask, RunGetTask, RunCreate, RunExecute, RunComplete, RunFinish, RunFail,
              RunDbFails
<1>2. CASE \E t \in Task : CronFires(t) \/ Elapse(t) \/ Route(t)
  <2>1. PICK t \in Task : CronFires(t) \/ Elapse(t) \/ Route(t)
    BY <1>2
  <2>2. CASE CronFires(t) \/ Elapse(t) \/ DeleteTask(t) \/ RunNow(t) \/ DeleteRuns(t)
    BY <2>2 DEF CronFires, Elapse, DeleteTask, RunNow, DeleteRuns
  <2>3. CASE \E cron \in Cron, at \in {"none", "future"} : CreateTask(t, cron, at)
    BY <2>3 DEF CreateTask
  <2>4. CASE \E cron \in Cron, at \in {"none", "future", row[t].at}, enabled \in BOOLEAN :
               EditTask(t, cron, at, enabled)
    BY <2>4 DEF EditTask
  <2> QED BY <2>1, <2>2, <2>3, <2>4 DEF Route
<1>3. CASE (\E q \in requests : Continue(q)) \/ (\E i \in Run : DeleteRun(i))
  BY <1>3 DEF Continue, ApplyRequest, EraseTask, DeleteRun
<1>4. CASE Boot \/ Stop
  BY <1>4 DEF Boot, BootMark, BootSelect, BootArm, BootFails, Stop
<1>5. CASE Restart
  BY <1>5
<1> QED BY <1>1, <1>2, <1>3, <1>4, <1>5 DEF Next

LEMMA QuietStep == TypeOK /\ PollQuiet /\ [Next]_vars => PollQuiet'
<1>1. SUFFICES ASSUME TypeOK, PollQuiet, [Next]_vars PROVE PollQuiet'
  OBVIOUS
<1>2. CASE UNCHANGED <<boot, timer, poller>>
  BY <1>1, <1>2 DEF PollQuiet
<1>3. CASE UNCHANGED vars
  BY <1>2, <1>3 DEF vars, starting
<1>4. CASE \E p \in Poller : PollBegin(p) \/ Poll(p)
  BY <1>1, <1>4, PollStep DEF PollQuiet
<1>5. CASE Restart
  BY <1>5 DEF Restart, PollQuiet, IdlePoller
<1>6. CASE boot' # "mark"
  BY <1>6 DEF PollQuiet
<1> QED BY <1>1, <1>2, <1>3, <1>4, <1>5, <1>6, BootSteps

LEMMA RunningStep ==
  ASSUME ~DbFaults, TypeOK, HandInv, PollQuiet, RunningInv, [Next]_vars
  PROVE  RunningInv'
<1> USE DEF store, starting
<1>1. RunnerOK /\ RestOK
  BY TypeParts
<1>2. CASE UNCHANGED vars
  BY <1>2 DEF vars, RunningInv, InHand
<1>3. ASSUME NEW r \in Runner, RunTask(r) PROVE RunningInv'
  <2>1. UNCHANGED boot
    BY <1>3 DEF RunTask, RunGetTask, RunCreate, RunExecute, RunComplete, RunFinish, RunFail,
                RunDbFails
  <2>2. \A s \in Runner \ {r} : runner'[s] = runner[s]
    BY <1>3, RunTaskCalls
  <2>3. CASE Goes(r)
    BY <2>1, <2>2, <2>3 DEF Goes, RunningInv, InHand
  <2>4. CASE Creates(r)
    <3>1. PICK i \in Run :
            /\ runs' = [runs EXCEPT ![i].status = "running", ![i].task = runner[r].task]
            /\ runner'[r].pc = "exec" /\ runner'[r].run = i
      BY <2>4 DEF Creates
    <3>2. \A j \in Run \ {i} : runs'[j] = runs[j]
      BY <1>1, <3>1 DEF RestOK
    <3>3. ~InHand(r)
      BY <2>4 DEF Creates
    <3> QED BY <2>1, <2>2, <3>1, <3>2, <3>3 DEF RunningInv, InHand
  <2>5. CASE Closes(r)
    <3>1. PICK st \in {"completed", "failed"} : runs' = [runs EXCEPT ![runner[r].run].status = st]
      BY <2>5 DEF Closes, SetRun
    <3>2. \A j \in Run : runs'[j].status = "running" =>
            runs[j].status = "running" /\ j # runner[r].run
      BY <1>1, <3>1 DEF RestOK, RunRow
    <3> QED BY <2>1, <2>2, <3>2 DEF RunningInv, InHand
  <2>6. CASE LetsGo(r)
    <3>1. runs[runner[r].run].status = "deleted" /\ UNCHANGED runs
      BY <2>6 DEF LetsGo, HasRow
    <3> QED BY <2>1, <2>2, <3>1 DEF RunningInv, InHand
  <2> QED BY <1>3, <2>3, <2>4, <2>5, <2>6, RunTaskRuns
<1>4. ASSUME Next, \A r \in Runner : ~RunTask(r) PROVE RunningInv'
  <2>1. CASE Restart
    BY <2>1 DEF Restart, RunningInv
  <2>2. CASE BootMark
    <3>1. \A i \in Run : runs'[i].status # "running"
      <4>1. \A i \in Run :
              [runs[i] EXCEPT !.status = "failed", !.interrupted = TRUE].status = "failed"
        BY <1>1 DEF RestOK, RunRow
      <4> QED BY <2>2, <4>1 DEF BootMark
    <3> QED BY <3>1 DEF RunningInv
  <2>3. CASE ~Restart /\ ~BootMark
    <3>1. \A i \in Run : runs'[i].status = "running" => runs[i].status = "running"
      BY <1>4, <2>3, OtherRuns
    <3>2. \A r \in Runner : InHand(r) => runner'[r] = runner[r]
      BY <1>4, <2>3, OtherCalls DEF InHand
    <3>3. boot' # "mark" => boot # "mark"
      <4>1. CASE \E p \in Poller : PollBegin(p) \/ Poll(p)
        BY <4>1, PollStep
      <4>2. ~BootFails
        BY DEF BootFails
      <4> QED BY <1>4, <2>3, <4>1, <4>2, BootSteps
    <3> QED BY <3>1, <3>2, <3>3 DEF RunningInv, InHand
  <2> QED BY <2>1, <2>2, <2>3
<1> QED BY <1>2, <1>3, <1>4

LEMMA RunningImplies ==
  ASSUME HandInv, OneExecution, RunningInv
  PROVE  RunningIsExecuted
<1>1. ASSUME boot # "mark", NEW i \in Run, NEW j \in Run, runs[i].status = "running",
             runs[j].status = "running", runs[i].task = runs[j].task
      PROVE  i = j
  <2>1. PICK r \in Runner : InHand(r) /\ runner[r].run = i
    BY <1>1 DEF RunningInv
  <2>2. PICK s \in Runner : InHand(s) /\ runner[s].run = j
    BY <1>1 DEF RunningInv
  <2>3. runner[r].task = runner[s].task
    BY <1>1, <2>1, <2>2 DEF HandInv
  <2>4. r = s
    BY <2>1, <2>2, <2>3 DEF OneExecution, InHand
  <2> QED BY <2>1, <2>2, <2>4
<1> QED BY <1>1 DEF RunningInv, RunningIsExecuted

(* While the database answers, a run row says "running" only while a call  *)
(* of runTask works on it, and no task has two such rows.                  *)
THEOREM RunningTold ==
  ASSUME ~DbFaults
  PROVE  Spec => []RunningIsExecuted
<1>1. Init => HandInv /\ PollQuiet /\ RunningInv
  BY HandInit DEF Init, PollQuiet, RunningInv, IdlePoller
<1>2. /\ TypeOK /\ HandInv /\ PollQuiet /\ RunningInv /\ [Next]_vars
      => HandInv' /\ PollQuiet' /\ RunningInv'
  BY HandStep, QuietStep, RunningStep
<1>3. HandInv /\ OneExecution /\ RunningInv => RunningIsExecuted
  BY RunningImplies
<1> QED BY <1>1, <1>2, <1>3, TypeCorrect, Exclusive, PTL DEF Spec

-----------------------------------------------------------------------------
(* Outcomes are final                                                      *)

(* The run in the hand of a call is open, unless it has been deleted.      *)
OpenInv == \A r \in Runner : InHand(r) => runs[runner[r].run].status \in {"running", "deleted"}

(* Nothing runs before the startup has closed the runs left behind.        *)
CallQuiet == boot = "mark" => /\ \A r \in Runner : runner[r].pc = "idle"
                              /\ \A t \in Task : crons[t] = NoCron
                              /\ requests = {}

LEMMA CallQuietStep ==
  ASSUME ~EarlyRequests, TypeOK, PollQuiet, CallQuiet, [Next]_vars
  PROVE  CallQuiet'
<1> USE DEF store, starting
<1>1. CASE UNCHANGED vars
  BY <1>1 DEF vars, CallQuiet
<1>2. CASE Restart
  BY <1>2 DEF Restart, CallQuiet, IdleRunner
<1>3. CASE \E p \in Poller : PollBegin(p) \/ Poll(p)
  BY <1>3, PollStep DEF CallQuiet
<1>4. CASE boot' # "mark"
  BY <1>4 DEF CallQuiet
<1>5. ASSUME boot' = "mark", boot = "mark", Next, ~Restart,
             \A p \in Poller : ~(PollBegin(p) \/ Poll(p))
      PROVE  CallQuiet'
  <2>1. ~Serving /\ requests = {} /\ \A t \in Task : crons[t] = NoCron
    BY <1>5 DEF Serving, CallQuiet
  <2>2. \A r \in Runner : ~RunTask(r) /\ runner[r].pc = "idle"
    BY <1>5, RunTaskCalls DEF CallQuiet
  <2>3. \A r \in Runner : runner'[r] = runner[r]
    BY <1>5, <2>1, <2>2, OtherCalls DEF PollQuiet
  <2>4. UNCHANGED <<crons, requests>>
    <3>1. ASSUME NEW t \in Task, CronFires(t) \/ Elapse(t) \/ Route(t)
          PROVE  UNCHANGED <<crons, requests>>
      <4>1. CASE CronFires(t) \/ Elapse(t) \/ RunNow(t) \/ DeleteRuns(t)
        BY <4>1 DEF CronFires, Elapse, RunNow, DeleteRuns
      <4>2. ~DeleteTask(t)
        BY <2>1 DEF DeleteTask, NewRequest
      <4>3. \A cron \in Cron, at \in {"none", "future"} : ~CreateTask(t, cron, at)
        BY <2>1 DEF CreateTask, NewRequest
      <4>4. \A cron \in Cron, at \in {"none", "future", row[t].at}, enabled \in BOOLEAN :
              ~EditTask(t, cron, at, enabled)
        BY <2>1 DEF EditTask, NewRequest
      <4> QED BY <3>1, <4>1, <4>2, <4>3, <4>4 DEF Route
    <3>2. CASE \E i \in Run : DeleteRun(i)
      BY <3>2 DEF DeleteRun
    <3>3. ~(Boot \/ Stop)
      BY <1>5 DEF Boot, BootMark, BootSelect, BootArm, BootFails, Stop
    <3> QED BY <1>5, <2>1, <2>2, <3>1, <3>2, <3>3 DEF Next
  <2> QED BY <2>1, <2>2, <2>3, <2>4 DEF CallQuiet
<1> QED BY <1>1, <1>2, <1>3, <1>4, <1>5, BootSteps

(* A step of runTask leaves the outcomes and the runs of other calls alone. *)
LEMMA RunTaskOpen ==
  ASSUME TypeOK, HandInv, OneExecution, OpenInv, NEW r \in Runner, RunTask(r)
  PROVE  OpenInv' /\ OutcomesKept
<1>1. RestOK
  BY TypeParts
<1>2. \A s \in Runner \ {r} : runner'[s] = runner[s]
  BY RunTaskCalls
<1>3. CASE Goes(r)
  BY <1>2, <1>3 DEF Goes, OpenInv, OutcomesKept, InHand
<1>4. CASE Creates(r)
  <2>1. PICK i \in Run :
          /\ runs[i].status = "unused"
          /\ runs' = [runs EXCEPT ![i].status = "running", ![i].task = runner[r].task]
          /\ runner'[r].run = i
    BY <1>4 DEF Creates
  <2>2. runs'[i].status = "running" /\ \A j \in Run \ {i} : runs'[j] = runs[j]
    BY <1>1, <2>1 DEF RestOK, RunRow
  <2>3. \A s \in Runner \ {r} : InHand(s) => runner[s].run \in Run \ {i}
    BY <2>1 DEF HandInv
  <2>4. OutcomesKept
    BY <2>1, <2>2 DEF OutcomesKept
  <2>5. ASSUME NEW s \in Runner, InHand(s)'
        PROVE  runs'[runner'[s].run].status \in {"running", "deleted"}
    <3>1. CASE s = r
      BY <2>1, <2>2, <3>1
    <3>2. CASE s # r
      BY <1>2, <2>2, <2>3, <2>5, <3>2 DEF OpenInv, InHand
    <3> QED BY <3>1, <3>2
  <2> QED BY <2>4, <2>5 DEF OpenInv
<1>5. CASE Closes(r)
  <2> DEFINE i == runner[r].run
  <2>1. PICK st \in {"completed", "failed"} : runs' = [runs EXCEPT ![i].status = st]
    BY <1>5 DEF Closes, SetRun
  <2>2. InHand(r) /\ i \in Run /\ runs[i].status \in {"running", "deleted"}
    BY <1>5 DEF Closes, HandInv, OpenInv
  <2>3. \A j \in Run \ {i} : runs'[j] = runs[j]
    BY <1>1, <2>1 DEF RestOK
  <2>4. OutcomesKept
    BY <2>2, <2>3 DEF OutcomesKept
  <2>5. ASSUME NEW s \in Runner, InHand(s)'
        PROVE  runs'[runner'[s].run].status \in {"running", "deleted"}
    <3>1. s # r
      BY <1>5, <2>5 DEF Closes, InHand
    <3>2. runner'[s] = runner[s] /\ InHand(s)
      BY <1>2, <2>5, <3>1 DEF InHand
    <3>3. runner[s].run # i
      BY <2>2, <3>1, <3>2 DEF HandInv, OneExecution, InHand
    <3> QED BY <2>3, <3>2, <3>3 DEF OpenInv, HandInv
  <2> QED BY <2>4, <2>5 DEF OpenInv
<1>6. CASE LetsGo(r)
  BY <1>2, <1>6 DEF LetsGo, OpenInv, OutcomesKept, InHand
<1> QED BY <1>3, <1>4, <1>5, <1>6, RunTaskRuns

LEMMA OpenStep ==
  ASSUME TypeOK, HandInv, OneExecution, OpenInv, CallQuiet, [Next]_vars
  PROVE  OpenInv' /\ (OutcomesKept \/ UNCHANGED vars)
<1>1. CASE UNCHANGED vars
  BY <1>1 DEF vars, store, OpenInv, InHand
<1>2. CASE \E r \in Runner : RunTask(r)
  BY <1>2, RunTaskOpen
<1>3. ASSUME Next, \A r \in Runner : ~RunTask(r) PROVE OpenInv' /\ OutcomesKept
  <2>1. OutcomesKept
    BY <1>3, OtherRuns DEF OutcomesKept
  <2>2. ASSUME NEW r \in Runner, InHand(r)'
        PROVE  runs'[runner'[r].run].status \in {"running", "deleted"}
    <3>1. InHand(r) /\ runner'[r] = runner[r]
      BY <1>3, <2>2, OtherCalls DEF InHand
    <3>2. ~BootMark
      BY <3>1 DEF BootMark, CallQuiet, InHand
    <3>3. runner[r].run \in Run
      BY <3>1 DEF HandInv
    <3> QED BY <1>3, <3>1, <3>2, <3>3, OtherRuns DEF OpenInv
  <2> QED BY <2>1, <2>2 DEF OpenInv
<1> QED BY <1>1, <1>2, <1>3

(* When requests wait for the startup, the outcome of a run is final: only *)
(* deleting the row changes it, even if the database fails in between.     *)
THEOREM OutcomeFinal ==
  ASSUME ~EarlyRequests
  PROVE  Spec => FinalIsFinal
<1>1. Init => HandInv /\ PollQuiet /\ CallQuiet /\ OpenInv
  BY HandInit DEF Init, PollQuiet, CallQuiet, OpenInv, InHand, IdlePoller, IdleRunner
<1>2. /\ TypeOK /\ HandInv /\ OneExecution /\ PollQuiet /\ CallQuiet /\ OpenInv /\ [Next]_vars
      => HandInv' /\ PollQuiet' /\ CallQuiet' /\ OpenInv' /\ [OutcomesKept]_vars
  BY HandStep, QuietStep, CallQuietStep, OpenStep
<1> QED BY <1>1, <1>2, TypeCorrect, Exclusive, PTL DEF Spec, FinalIsFinal

-----------------------------------------------------------------------------
(* What runs and polls do to the rows                                      *)

(* A row that is disabled keeps everything else.                           *)
LEMMA DisabledRow ==
  ASSUME RestOK, NEW t \in Task, row' = [row EXCEPT ![t].enabled = FALSE]
  PROVE  /\ \A s \in Task : /\ row'[s].state = row[s].state /\ row'[s].cron = row[s].cron
                            /\ row'[s].at = row[s].at
         /\ ~row'[t].enabled /\ \A s \in Task \ {t} : row'[s] = row[s]
<1>1. row \in [Task -> TaskRow] /\ row[t] \in TaskRow
  BY DEF RestOK
<1>2. row' = [row EXCEPT ![t] = [row[t] EXCEPT !.enabled = FALSE]]
  BY <1>1
<1>3. /\ [row[t] EXCEPT !.enabled = FALSE].state = row[t].state
      /\ [row[t] EXCEPT !.enabled = FALSE].cron = row[t].cron
      /\ [row[t] EXCEPT !.enabled = FALSE].at = row[t].at
      /\ ~[row[t] EXCEPT !.enabled = FALSE].enabled
  BY <1>1 DEF TaskRow
<1>4. row'[t] = [row[t] EXCEPT !.enabled = FALSE] /\ \A s \in Task \ {t} : row'[s] = row[s]
  BY <1>1, <1>2
<1> QED BY <1>3, <1>4

(* What a step of runTask leaves alone.                                    *)
LEMMA RunTaskFrame ==
  ASSUME NEW r \in Runner, RunTask(r)
  PROVE  UNCHANGED <<crons, poller, timer, boot, selected, requests, past>>
BY DEF RunTask, RunGetTask, RunCreate, RunExecute, RunComplete, RunFinish, RunFail, RunDbFails,
       starting

(* A run changes its row only at its end, and only to disable it.          *)
LEMMA RunTaskRow ==
  ASSUME TypeOK, NEW r \in Runner, RunTask(r)
  PROVE  \/ UNCHANGED row
         \/ /\ runner[r].pc = "meta" /\ ~runner[r].recurring /\ runner[r].task \in Task
            /\ row' = [row EXCEPT ![runner[r].task].enabled = FALSE]
<1>1. CASE RunFinish(r)
  <2>1. runner[r].pc = "meta"
    BY <1>1 DEF RunFinish
  <2>2. runner[r].task \in Task
    BY <2>1, RunnerFields, TypeParts
  <2>3. CASE ~runner[r].recurring /\ Live(runner[r].task)
    BY <1>1, <2>1, <2>2, <2>3, Zenon DEF RunFinish
  <2>4. CASE ~(~runner[r].recurring /\ Live(runner[r].task))
    BY <1>1, <2>4, Zenon DEF RunFinish
  <2> QED BY <2>3, <2>4
<1>2. CASE RunGetTask(r) \/ RunCreate(r) \/ RunExecute(r) \/ RunComplete(r) \/ RunFail(r)
           \/ RunDbFails(r)
  BY <1>2 DEF RunGetTask, RunCreate, RunExecute, RunComplete, RunFail, RunDbFails, store
<1> QED BY <1>1, <1>2 DEF RunTask

(* A run finds out at its beginning whether its task is recurring.         *)
LEMMA RunTaskRecurring ==
  ASSUME TypeOK, NEW r \in Runner, RunTask(r)
  PROVE  \/ runner'[r].pc = "idle"
         \/ /\ runner'[r].task = runner[r].task /\ Live(runner[r].task) /\ UNCHANGED row
            /\ runner[r].task \in Task
            /\ ~runner'[r].recurring => row[runner[r].task].cron = NoCron
         \/ /\ runner[r].pc \notin {"idle", "get"} /\ runner'[r].task = runner[r].task
            /\ runner'[r].recurring = runner[r].recurring
<1>1. RunnerOK
  BY TypeParts
<1>2. runner[r].pc # "idle" =>
        /\ runner[r] \in [pc : RunnerSteps, task : Task, run : Run \cup {NoRun},
                          recurring : BOOLEAN]
        /\ runner[r].task \in Task
  BY <1>1, RunnerFields
<1>3. ASSUME runner[r].pc # "idle", NEW s \in RunnerSteps, GoOn(r, s)
      PROVE  runner'[r].task = runner[r].task /\ runner'[r].recurring = runner[r].recurring
  <2>1. runner' = [runner EXCEPT ![r] = [runner[r] EXCEPT !.pc = s]]
    BY <1>3 DEF GoOn
  <2>2. /\ [runner[r] EXCEPT !.pc = s].task = runner[r].task
        /\ [runner[r] EXCEPT !.pc = s].recurring = runner[r].recurring
    BY <1>2, <1>3
  <2>3. runner'[r] = [runner[r] EXCEPT !.pc = s]
    BY <1>1, <2>1 DEF RunnerOK
  <2> QED BY <2>2, <2>3
<1>4. ASSUME EndRun(r) PROVE runner'[r].pc = "idle"
  BY <1>1, <1>4, EndRunType DEF IdleRunner
<1>5. CASE RunGetTask(r)
  <2>1. CASE ~Live(runner[r].task)
    BY <1>4, <1>5, <2>1 DEF RunGetTask
  <2>2. CASE Live(runner[r].task)
    <3> DEFINE b == row[runner[r].task].cron # NoCron
               x == [runner[r] EXCEPT !.pc = "create", !.recurring = b]
    <3>1. runner' = [runner EXCEPT ![r] = x] /\ UNCHANGED row
      BY <1>1, <1>5, <2>2 DEF RunGetTask, RunnerOK, store
    <3>2. x.task = runner[r].task /\ x.recurring = b
      BY <1>2, <1>5 DEF RunGetTask
    <3>3. ~x.recurring => row[runner[r].task].cron = NoCron
      BY <3>2, Zenon
    <3> HIDE DEF x, b
    <3>4. runner'[r] = x
      BY <1>1, <3>1 DEF RunnerOK
    <3> QED BY <1>2, <1>5, <2>2, <3>1, <3>2, <3>3, <3>4 DEF RunGetTask
  <2> QED BY <2>1, <2>2
<1>6. CASE RunCreate(r)
  <2>1. CASE ~Live(runner[r].task)
    BY <1>4, <1>6, <2>1 DEF RunCreate
  <2>2. CASE Live(runner[r].task)
    <3>1. PICK i \in Run : runner' = [runner EXCEPT ![r].pc = "exec", ![r].run = i]
      BY <1>6, <2>2 DEF RunCreate
    <3>2. runner' = [runner EXCEPT ![r] = [runner[r] EXCEPT !.pc = "exec", !.run = i]]
      BY <1>1, <3>1 DEF RunnerOK
    <3>3. /\ [runner[r] EXCEPT !.pc = "exec", !.run = i].task = runner[r].task
          /\ [runner[r] EXCEPT !.pc = "exec", !.run = i].recurring = runner[r].recurring
      BY <1>2, <1>6 DEF RunCreate
    <3>4. runner'[r] = [runner[r] EXCEPT !.pc = "exec", !.run = i]
      BY <1>1, <3>2 DEF RunnerOK
    <3> QED BY <1>6, <3>3, <3>4 DEF RunCreate
  <2> QED BY <2>1, <2>2
<1>7. CASE RunExecute(r)
  BY <1>3, <1>7 DEF RunExecute, RunnerSteps
<1>8. CASE RunComplete(r)
  BY <1>3, <1>8 DEF RunComplete, RunnerSteps
<1>9. CASE RunFinish(r)
  BY <1>4, <1>9 DEF RunFinish
<1>10. CASE RunFail(r)
  BY <1>4, <1>10 DEF RunFail
<1>11. CASE RunDbFails(r)
  BY <1>3, <1>4, <1>11 DEF RunDbFails, RunnerSteps
<1> QED BY <1>5, <1>6, <1>7, <1>8, <1>9, <1>10, <1>11 DEF RunTask

(* The steps of a poll: it begins, reads what is due, disables a row,      *)
(* starts the task and goes on, or it is over.                             *)
Begins(p) == /\ timer /\ poller[p].pc = "idle"
             /\ poller'[p].pc = "select" /\ poller'[p].due = {} /\ ~poller'[p].boot
Selects(p) == /\ poller[p].pc = "select" /\ poller'[p].pc = "loop"
              /\ poller'[p].due = {t \in Task : Due(t)}
              /\ poller'[p].boot = poller[p].boot
Disables(p) == \E t \in poller[p].due :
  /\ poller[p].pc = "loop" /\ t \in Task
  /\ row' = [row EXCEPT ![t].enabled = FALSE]
  /\ poller'[p].pc = "run" /\ poller'[p].due = poller[p].due \ {t} /\ poller'[p].task = t
  /\ poller'[p].boot = poller[p].boot
Starts(p) == /\ poller[p].pc = "run" /\ poller'[p].pc = "loop"
             /\ poller'[p].due = poller[p].due /\ poller'[p].boot = poller[p].boot
Ends(p) == /\ poller[p].pc # "idle" /\ poller'[p] = IdlePoller
           /\ IF poller[p].boot THEN boot' \in {"done", "failed"} ELSE UNCHANGED <<boot, timer>>

(* The end of a poll, which for the first one is that of the startup.      *)
LEMMA EndPollFields ==
  ASSUME PollerOK, NEW p \in Poller, NEW threw \in BOOLEAN, EndPoll(p, threw),
         poller[p].pc # "idle"
  PROVE  /\ Ends(p) /\ UNCHANGED <<selected, restarts>>
         /\ \A q \in Poller \ {p} : poller'[q] = poller[q]
<1>1. /\ poller' = [poller EXCEPT ![p] = IdlePoller] /\ UNCHANGED <<selected, restarts>>
  BY DEF EndPoll
<1>2. poller'[p] = IdlePoller /\ \A q \in Poller \ {p} : poller'[q] = poller[q]
  BY <1>1 DEF PollerOK
<1>3. CASE poller[p].boot
  <2>1. boot' = IF threw THEN "failed" ELSE "done"
    BY <1>3, Zenon DEF EndPoll
  <2>2. boot' \in {"done", "failed"}
    BY <2>1
  <2> QED BY <1>1, <1>2, <1>3, <2>2, Zenon DEF Ends
<1>4. CASE ~poller[p].boot
  <2>1. UNCHANGED <<boot, timer>>
    BY <1>4, Zenon DEF EndPoll
  <2> QED BY <1>1, <1>2, <1>4, <2>1, Zenon DEF Ends
<1> QED BY <1>3, <1>4

(* Every step of a poll is one of these.                                   *)
LEMMA PollShapes ==
  ASSUME TypeOK, NEW p \in Poller, PollBegin(p) \/ Poll(p)
  PROVE  /\ UNCHANGED <<crons, requests, selected>>
         /\ \A q \in Poller \ {p} : poller'[q] = poller[q]
         /\ UNCHANGED row \/ Disables(p)
         /\ \/ Begins(p) \/ Selects(p) \/ Disables(p) \/ Starts(p)
            \/ Ends(p)
         /\ UNCHANGED <<boot, timer>> \/ Ends(p)
         /\ \/ UNCHANGED past
            \/ /\ poller[p].pc = "run"
               /\ past' = [past EXCEPT ![poller[p].task] = Started(@)]
<1> USE DEF store, starting
<1>1. PollerOK
  BY TypeParts
<1>2. poller[p].pc # "idle" =>
        /\ poller[p] \in [pc : {"select", "loop", "run"}, due : SUBSET Task,
                          task : Task \cup {NoTask}, boot : BOOLEAN]
        /\ poller[p].pc = "run" => poller[p].task \in Task
  BY <1>1, PollerFields
<1>3. ASSUME NEW x, poller' = [poller EXCEPT ![p] = x]
      PROVE  poller'[p] = x /\ \A q \in Poller \ {p} : poller'[q] = poller[q]
  BY <1>1, <1>3 DEF PollerOK
<1>4. CASE PollBegin(p)
  <2> DEFINE x == [IdlePoller EXCEPT !.pc = "select"]
  <2>1. poller' = [poller EXCEPT ![p] = x] /\ timer /\ poller[p].pc = "idle"
    BY <1>4 DEF PollBegin
  <2>2. x.pc = "select" /\ x.due = {} /\ ~x.boot
    BY DEF IdlePoller
  <2> HIDE DEF x
  <2>3. poller'[p] = x /\ \A q \in Poller \ {p} : poller'[q] = poller[q]
    BY <1>3, <2>1
  <2>4. Begins(p)
    BY <2>1, <2>2, <2>3, Zenon DEF Begins
  <2> QED BY <1>4, <2>3, <2>4 DEF PollBegin
<1>5. CASE PollSelect(p)
  <2> DEFINE due == {t \in Task : Due(t)}
  <2>1. poller[p].pc = "select"
    BY <1>5 DEF PollSelect
  <2>2. CASE due = {}
    <3>1. EndPoll(p, FALSE) /\ UNCHANGED <<crons, requests, row, past>>
      BY <1>5, <2>2 DEF PollSelect
    <3> QED BY <1>1, <2>1, <3>1, EndPollFields
  <2>3. CASE due # {}
    <3> DEFINE x == [poller[p] EXCEPT !.pc = "loop", !.due = due]
    <3>1. poller' = [poller EXCEPT ![p] = x]
      BY <1>1, <1>5, <2>3 DEF PollSelect, PollerOK
    <3>2. x.pc = "loop" /\ x.due = due /\ x.boot = poller[p].boot
      BY <1>2, <2>1
    <3>3. UNCHANGED <<starting, crons, requests, row, past>>
      BY <1>5, <2>3 DEF PollSelect
    <3> HIDE DEF x
    <3>4. poller'[p] = x /\ \A q \in Poller \ {p} : poller'[q] = poller[q]
      BY <1>3, <3>1
    <3>5. Selects(p)
      BY <2>1, <3>2, <3>4, Zenon DEF Selects
    <3> QED BY <3>3, <3>4, <3>5
  <2> QED BY <2>2, <2>3
<1>6. CASE PollDisable(p)
  <2>1. poller[p].pc = "loop" /\ poller[p].due \in SUBSET Task
    BY <1>2, <1>6 DEF PollDisable
  <2>2. PICK t \in poller[p].due :
         IF Live(t)
         THEN /\ row' = [row EXCEPT ![t].enabled = FALSE]
              /\ poller' = [poller EXCEPT ![p].pc = "run", ![p].due = @ \ {t}, ![p].task = t]
              /\ UNCHANGED starting
         ELSE EndPoll(p, TRUE) /\ UNCHANGED row
    BY <1>6 DEF PollDisable
  <2>3. UNCHANGED <<crons, requests, past>> /\ t \in Task
    BY <1>6, <2>1 DEF PollDisable
  <2>4. CASE ~Live(t)
    <3>1. EndPoll(p, TRUE) /\ UNCHANGED row
      BY <2>2, <2>4
    <3> QED BY <1>1, <2>1, <2>3, <3>1, EndPollFields
  <2>5. CASE Live(t)
    <3> DEFINE x == [poller[p] EXCEPT !.pc = "run", !.due = poller[p].due \ {t}, !.task = t]
    <3>1. poller' = [poller EXCEPT ![p] = x]
      BY <1>1, <2>2, <2>5 DEF PollerOK
    <3>2. x.pc = "run" /\ x.due = poller[p].due \ {t} /\ x.task = t /\ x.boot = poller[p].boot
      BY <1>2, <2>1
    <3>3. row' = [row EXCEPT ![t].enabled = FALSE] /\ UNCHANGED starting
      BY <2>2, <2>5
    <3> HIDE DEF x
    <3>4. poller'[p] = x /\ \A q \in Poller \ {p} : poller'[q] = poller[q]
      BY <1>3, <3>1
    <3>5. Disables(p)
      BY <2>1, <2>3, <3>2, <3>3, <3>4, Zenon DEF Disables
    <3> QED BY <2>3, <3>3, <3>4, <3>5
  <2> QED BY <2>4, <2>5
<1>7. CASE PollRun(p)
  <2>1. poller[p].pc = "run" /\ UNCHANGED <<crons, requests, row>>
    BY <1>7 DEF PollRun
  <2>2. past' = past \/ past' = [past EXCEPT ![poller[p].task] = Started(@)]
    BY <1>7, Zenon DEF PollRun
  <2>3. CASE poller[p].due = {}
    <3>1. EndPoll(p, FALSE)
      BY <1>7, <2>3 DEF PollRun
    <3> QED BY <1>1, <2>1, <2>2, <3>1, EndPollFields
  <2>4. CASE poller[p].due # {}
    <3> DEFINE x == [poller[p] EXCEPT !.pc = "loop"]
    <3>1. poller' = [poller EXCEPT ![p] = x] /\ UNCHANGED starting
      BY <1>1, <1>7, <2>4 DEF PollRun, PollerOK
    <3>2. x.pc = "loop" /\ x.due = poller[p].due /\ x.boot = poller[p].boot
      BY <1>2, <2>1
    <3> HIDE DEF x
    <3>3. poller'[p] = x /\ \A q \in Poller \ {p} : poller'[q] = poller[q]
      BY <1>3, <3>1
    <3>4. Starts(p)
      BY <2>1, <3>2, <3>3, Zenon DEF Starts
    <3> QED BY <2>1, <2>2, <3>1, <3>3, <3>4
  <2> QED BY <2>3, <2>4
<1>8. CASE PollFails(p)
  <2>1. EndPoll(p, TRUE) /\ poller[p].pc # "idle" /\ UNCHANGED <<crons, requests, row, past>>
    BY <1>8 DEF PollFails
  <2> QED BY <1>1, <2>1, EndPollFields
<1> QED BY <1>4, <1>5, <1>6, <1>7, <1>8 DEF Poll

-----------------------------------------------------------------------------
(* Cron objects mirror the rows                                            *)

(* The Cron object that the row of a task asks for.                        *)
Wanted(t) == IF Live(t) /\ row[t].enabled THEN row[t].cron ELSE NoCron

(* Until the first poll nothing runs and no request is served.             *)
Early == boot \in {"mark", "select", "arm"}
EarlyInv == Early => /\ \A r \in Runner : runner[r].pc = "idle"
                     /\ \A p \in Poller : poller[p].pc = "idle"
                     /\ \A t \in Task : crons[t] = NoCron
                     /\ timer = FALSE /\ requests = {}
SelectedInv == boot = "arm" =>
  selected = {r \in Task \X Expr : Live(r[1]) /\ row[r[1]].enabled /\ row[r[1]].cron = r[2]}

(* The poll of the startup is the only one that ends it.                   *)
BootPollInv == /\ \A p \in Poller : poller[p].boot => boot = "poll"
               /\ \A p, q \in Poller : poller[p].boot /\ poller[q].boot => p = q

(* A date and a cron expression exclude each other.                        *)
OneWayInv == \A t \in Task : row[t].cron = NoCron \/ row[t].at = "none"

(* Whoever may disable a row has a task in hand that is not recurring.     *)
OneOff(t) == row[t].state # "none" /\ row[t].cron = NoCron
DisablerInv ==
  /\ \A r \in Runner : runner[r].pc \notin {"idle", "get"} /\ ~runner[r].recurring =>
       OneOff(runner[r].task)
  /\ \A p \in Poller : \A t \in poller[p].due : OneOff(t)
  /\ \A p \in Poller : poller[p].pc = "run" => OneOff(poller[p].task)

(* At most one request has a step to do, and it will make the Cron object  *)
(* what the row says, or the row what the Cron object says.                *)
Agrees(q) ==
  IF q.step = "apply"
  THEN /\ Live(q.task) /\ row[q.task].cron = q.cron
       /\ q.cron # NoCron => row[q.task].enabled = q.enabled
  ELSE crons[q.task] = NoCron
RequestInv == /\ \A q, s \in requests : q = s
              /\ boot \in {"poll", "done"} => \A q \in requests : Agrees(q)
MirrorInv == boot \in {"poll", "done"} =>
  \A t \in Task : (\A q \in requests : q.task # t) => crons[t] = Wanted(t)

CronInv == /\ EarlyInv /\ SelectedInv /\ BootPollInv /\ OneWayInv /\ DisablerInv
           /\ RequestInv /\ MirrorInv

(* A step that leaves the state and the schedule of every row and disables *)
(* at most rows that have no cron expression.                              *)
RowsKept == \A t \in Task :
  /\ row'[t].state = row[t].state /\ row'[t].cron = row[t].cron
  /\ row'[t].at = "none" <=> row[t].at = "none"
  /\ row'[t].enabled = row[t].enabled \/ row[t].cron = NoCron

(* OneOff, after the step.                                                 *)
OneOffNext(t) == row'[t].state # "none" /\ row'[t].cron = NoCron

(* It leaves rows and Cron objects as much in agreement as they were.      *)
LEMMA RowsKeptMirror ==
  ASSUME TypeOK, CronInv, RowsKept, UNCHANGED <<crons, requests, selected>>,
         boot' \in {"poll", "done"} => boot \in {"poll", "done"},
         boot' = "arm" => boot = "arm"
  PROVE  /\ OneWayInv' /\ RequestInv' /\ MirrorInv' /\ SelectedInv'
         /\ \A t \in Task : OneOff(t) => OneOffNext(t)
<1>1. requests \in SUBSET Request /\ NoCron \notin Expr
  BY SchedulerAssumption DEF TypeOK
<1>2. \A q \in requests : q.task \in Task
  BY <1>1 DEF Request
<1>3. \A t \in Task : Live(t)' <=> Live(t)
  BY DEF RowsKept, Live
<1>4. OneWayInv'
  BY DEF CronInv, OneWayInv, RowsKept
<1>5. \A t \in Task : OneOff(t) => OneOffNext(t)
  BY DEF OneOff, OneOffNext, RowsKept
<1>6. \A t \in Task : Wanted(t)' = Wanted(t)
  <2>1. SUFFICES ASSUME NEW t \in Task PROVE Wanted(t)' = Wanted(t)
    OBVIOUS
  <2>2. CASE row[t].cron = NoCron
    BY <2>2 DEF Wanted, RowsKept
  <2>3. CASE row[t].cron # NoCron
    <3>1. row'[t].enabled = row[t].enabled /\ row'[t].cron = row[t].cron
      BY <2>3 DEF RowsKept
    <3>2. Wanted(t) = IF Live(t) /\ row[t].enabled THEN row[t].cron ELSE NoCron
      BY DEF Wanted
    <3>3. Wanted(t)' = IF Live(t)' /\ row'[t].enabled THEN row'[t].cron ELSE NoCron
      BY DEF Wanted
    <3> QED BY <1>3, <3>1, <3>2, <3>3
  <2> QED BY <2>2, <2>3
<1>7. MirrorInv'
  BY <1>6 DEF CronInv, MirrorInv
<1>8. ASSUME NEW q \in requests, Agrees(q) PROVE Agrees(q)'
  <2>1. CASE q.step = "apply"
    <3>1. Live(q.task) /\ row[q.task].cron = q.cron /\ q.task \in Task
      BY <1>2, <1>8, <2>1 DEF Agrees
    <3>2. q.cron # NoCron => row[q.task].enabled = q.enabled
      BY <1>8, <2>1, Zenon DEF Agrees
    <3>3. Live(q.task)' /\ row'[q.task].cron = q.cron
      BY <1>3, <3>1 DEF RowsKept
    <3>4. q.cron # NoCron => row'[q.task].enabled = q.enabled
      BY <3>1, <3>2, Zenon DEF RowsKept
    <3> QED BY <2>1, <3>3, <3>4, Zenon DEF Agrees
  <2>2. CASE q.step # "apply"
    BY <1>8, <2>2 DEF Agrees
  <2> QED BY <2>1, <2>2
<1>9. RequestInv'
  BY <1>8 DEF CronInv, RequestInv
<1>10. SelectedInv'
  <2>1. SUFFICES ASSUME boot' = "arm"
                 PROVE  selected = {r \in Task \X Expr :
                          Live(r[1])' /\ row'[r[1]].enabled /\ row'[r[1]].cron = r[2]}
    BY DEF SelectedInv
  <2>2. selected = {r \in Task \X Expr : Live(r[1]) /\ row[r[1]].enabled /\ row[r[1]].cron = r[2]}
    BY <2>1 DEF CronInv, SelectedInv
  <2>3. ASSUME NEW r \in Task \X Expr
        PROVE  Live(r[1])' /\ row'[r[1]].enabled /\ row'[r[1]].cron = r[2]
                 <=> Live(r[1]) /\ row[r[1]].enabled /\ row[r[1]].cron = r[2]
    <3>1. r[1] \in Task /\ r[2] \in Expr
      OBVIOUS
    <3>2. /\ Live(r[1])' <=> Live(r[1])
          /\ row'[r[1]].cron = row[r[1]].cron
      BY <1>3, <3>1 DEF RowsKept
    <3>3. CASE row[r[1]].cron # r[2]
      BY <3>2, <3>3
    <3>4. CASE row[r[1]].cron = r[2]
      <4>1. row'[r[1]].enabled = row[r[1]].enabled
        BY <1>1, <3>1, <3>4 DEF RowsKept
      <4> QED BY <3>2, <4>1, Zenon
    <3> QED BY <3>3, <3>4
  <2> QED BY <2>2, <2>3
<1> QED BY <1>4, <1>5, <1>7, <1>9, <1>10

(* A row that is disabled has no cron expression.                          *)
LEMMA DisabledKept ==
  ASSUME RestOK, NEW t \in Task, OneOff(t), row' = [row EXCEPT ![t].enabled = FALSE]
  PROVE  RowsKept
<1>1. \A s \in Task : /\ row'[s].state = row[s].state /\ row'[s].cron = row[s].cron
                      /\ row'[s].at = row[s].at
                      /\ s # t => row'[s] = row[s]
  BY DisabledRow
<1>2. row[t].cron = NoCron
  BY DEF OneOff
<1> QED BY <1>1, <1>2 DEF RowsKept

(* Runs disable only rows that no Cron object exists for.                  *)
LEMMA CronRunTask ==
  ASSUME TypeOK, CronInv, NEW r \in Runner, RunTask(r)
  PROVE  CronInv'
<1>1. RestOK /\ runner[r].pc # "idle"
  BY TypeParts, RunTaskCalls
<1>2. UNCHANGED <<crons, poller, timer, boot, selected, requests>>
  BY RunTaskFrame
<1>3. RowsKept
  <2>1. CASE UNCHANGED row
    BY <2>1 DEF RowsKept
  <2>2. CASE /\ runner[r].pc = "meta" /\ ~runner[r].recurring /\ runner[r].task \in Task
             /\ row' = [row EXCEPT ![runner[r].task].enabled = FALSE]
    <3>1. OneOff(runner[r].task)
      BY <2>2 DEF CronInv, DisablerInv
    <3> QED BY <1>1, <2>2, <3>1, DisabledKept
  <2> QED BY <2>1, <2>2, RunTaskRow
<1>4. /\ OneWayInv' /\ RequestInv' /\ MirrorInv' /\ SelectedInv'
      /\ \A t \in Task : OneOff(t) => OneOffNext(t)
  BY <1>2, <1>3, RowsKeptMirror
<1>5. EarlyInv'
  BY <1>1, <1>2 DEF CronInv, EarlyInv, Early
<1>6. BootPollInv'
  BY <1>2 DEF CronInv, BootPollInv
<1>7. DisablerInv'
  <2>1. \A s \in Runner \ {r} : runner'[s] = runner[s]
    BY RunTaskCalls
  <2>2. poller' = poller /\ poller \in [Poller -> PollerState]
    BY <1>2 DEF TypeOK
  <2>3. \A s \in Runner : runner[s].pc # "idle" => runner[s].task \in Task
    BY RunnerFields, TypeParts
  <2>4. \A p \in Poller : /\ poller[p].due \subseteq Task
                          /\ poller[p].pc = "run" => poller[p].task \in Task
    BY <2>2 DEF PollerState, IdlePoller
  <2>5. \A p \in Poller : /\ \A t \in poller'[p].due : OneOffNext(t)
                          /\ poller'[p].pc = "run" => OneOffNext(poller'[p].task)
    BY <1>4, <2>2, <2>4 DEF CronInv, DisablerInv
  <2>6. ASSUME runner'[r].pc \notin {"idle", "get"}, ~runner'[r].recurring
        PROVE  OneOffNext(runner'[r].task)
    <3>1. CASE /\ runner'[r].task = runner[r].task /\ Live(runner[r].task) /\ UNCHANGED row
               /\ runner[r].task \in Task
               /\ ~runner'[r].recurring => row[runner[r].task].cron = NoCron
      BY <2>6, <3>1 DEF OneOffNext, Live
    <3>2. CASE /\ runner[r].pc \notin {"idle", "get"} /\ runner'[r].task = runner[r].task
               /\ runner'[r].recurring = runner[r].recurring
      <4>1. OneOff(runner[r].task) /\ runner[r].task \in Task
        BY <1>1, <2>3, <2>6, <3>2 DEF CronInv, DisablerInv
      <4> QED BY <1>4, <3>2, <4>1
    <3> QED BY <2>6, <3>1, <3>2, RunTaskRecurring
  <2>7. ASSUME NEW s \in Runner \ {r}, runner'[s].pc \notin {"idle", "get"}, ~runner'[s].recurring
        PROVE  OneOffNext(runner'[s].task)
    <3>1. runner'[s] = runner[s]
      BY <2>1, <2>7
    <3>2. OneOff(runner[s].task) /\ runner[s].task \in Task
      BY <2>3, <2>7, <3>1 DEF CronInv, DisablerInv
    <3> QED BY <1>4, <3>1, <3>2
  <2> QED BY <2>5, <2>6, <2>7 DEF DisablerInv, OneOff, OneOffNext
<1> QED BY <1>4, <1>5, <1>6, <1>7 DEF CronInv

(* The disablers of a step that starts at most a run and keeps the rows.   *)
LEMMA CronRunners ==
  ASSUME TypeOK, CronInv, \A t \in Task : OneOff(t) => OneOffNext(t),
         UNCHANGED runner \/ \E t \in Task : BeginRun(t)
  PROVE  \A r \in Runner : runner'[r].pc \notin {"idle", "get"} /\ ~runner'[r].recurring =>
           OneOffNext(runner'[r].task)
<1>1. \A r \in Runner : runner'[r].pc = "get" \/ runner'[r] = runner[r]
  BY BeginRunValue, TypeParts
<1>2. \A r \in Runner : runner[r].pc # "idle" => runner[r].task \in Task
  BY RunnerFields, TypeParts
<1> QED BY <1>1, <1>2 DEF CronInv, DisablerInv

(* So do polls.                                                            *)
LEMMA CronPoll ==
  ASSUME ~Mixed, TypeOK, CronInv, NEW p \in Poller, PollBegin(p) \/ Poll(p)
  PROVE  CronInv'
<1>1. RestOK /\ poller \in [Poller -> PollerState]
  BY TypeParts DEF TypeOK
<1>2. /\ UNCHANGED <<crons, requests, selected>>
      /\ \A q \in Poller \ {p} : poller'[q] = poller[q]
      /\ UNCHANGED row \/ Disables(p)
      /\ Begins(p) \/ Selects(p) \/ Disables(p) \/ Starts(p) \/ Ends(p)
      /\ UNCHANGED <<boot, timer>> \/ Ends(p)
  BY PollShapes
<1>3. UNCHANGED runner \/ \E t \in Task : BeginRun(t)
  BY PollCalls
<1>4. ~Early
  BY <1>2 DEF CronInv, EarlyInv, Begins, Selects, Disables, Starts, Ends
<1>5. RowsKept
  <2>1. CASE UNCHANGED row
    BY <2>1 DEF RowsKept
  <2>2. CASE Disables(p)
    <3>1. PICK t \in poller[p].due : t \in Task /\ row' = [row EXCEPT ![t].enabled = FALSE]
      BY <2>2 DEF Disables
    <3>2. OneOff(t)
      BY <3>1 DEF CronInv, DisablerInv
    <3> QED BY <1>1, <3>1, <3>2, DisabledKept
  <2> QED BY <1>2, <2>1, <2>2
<1>6. boot' = boot \/ (poller[p].boot /\ boot = "poll" /\ boot' \in {"done", "failed"})
  <2>1. poller[p].boot => boot = "poll"
    BY DEF CronInv, BootPollInv
  <2>2. CASE Ends(p)
    BY <2>1, <2>2 DEF Ends
  <2> QED BY <1>2, <2>2
<1>7. /\ OneWayInv' /\ RequestInv' /\ MirrorInv' /\ SelectedInv'
      /\ \A t \in Task : OneOff(t) => OneOffNext(t)
  BY <1>2, <1>4, <1>5, <1>6, RowsKeptMirror DEF Early
<1>8. EarlyInv'
  BY <1>4, <1>6 DEF EarlyInv, Early
<1>9. BootPollInv'
  <2>1. \A q \in Poller : poller'[q].boot => poller[q].boot
    BY <1>2 DEF Begins, Selects, Disables, Starts, Ends, IdlePoller
  <2>2. UNCHANGED boot \/ ~poller'[p].boot
    BY <1>2 DEF Ends, IdlePoller
  <2>3. CASE UNCHANGED boot
    BY <2>1, <2>3 DEF CronInv, BootPollInv
  <2>4. CASE boot' # boot
    <3>1. poller[p].boot /\ ~poller'[p].boot
      BY <1>6, <2>2, <2>4
    <3>2. \A q \in Poller : ~poller'[q].boot
      BY <2>1, <3>1 DEF CronInv, BootPollInv
    <3> QED BY <3>2 DEF BootPollInv
  <2> QED BY <2>3, <2>4
<1>10. \A t \in Task : Due(t) => OneOff(t)
  BY DEF CronInv, OneWayInv, Due, Live, OneOff
<1>11. \A q \in Poller : /\ poller[q].due \subseteq Task
                         /\ poller[q].pc = "run" => poller[q].task \in Task
  BY <1>1 DEF PollerState, IdlePoller
<1>12. ASSUME NEW q \in Poller
       PROVE  /\ \A t \in poller'[q].due : OneOffNext(t)
              /\ poller'[q].pc = "run" => OneOffNext(poller'[q].task)
  <2>1. CASE q # p
    BY <1>2, <1>7, <1>11, <2>1 DEF CronInv, DisablerInv
  <2>2. CASE q = p
    <3>1. \A t \in poller[p].due : OneOffNext(t)
      BY <1>7, <1>11 DEF CronInv, DisablerInv
    <3>2. CASE Begins(p)
      BY <2>2, <3>2 DEF Begins
    <3>3. CASE Selects(p)
      BY <1>7, <1>10, <2>2, <3>3 DEF Selects
    <3>4. CASE Disables(p)
      BY <2>2, <3>1, <3>4 DEF Disables
    <3>5. CASE Starts(p)
      BY <2>2, <3>1, <3>5 DEF Starts
    <3>6. CASE Ends(p)
      BY <2>2, <3>6 DEF Ends, IdlePoller
    <3> QED BY <1>2, <3>2, <3>3, <3>4, <3>5, <3>6
  <2> QED BY <2>1, <2>2
<1>13. DisablerInv'
  BY <1>3, <1>7, <1>12, CronRunners DEF DisablerInv, OneOff, OneOffNext
<1> QED BY <1>7, <1>8, <1>9, <1>13 DEF CronInv

(* Steps of a task that need neither a request nor a poll.                 *)
LEMMA CronQuietStep ==
  ASSUME ~EarlyRequests, TypeOK, CronInv, NEW t \in Task,
         CronFires(t) \/ Elapse(t) \/ RunNow(t) \/ DeleteRuns(t)
  PROVE  CronInv'
<1> USE DEF store, starting
<1>1. /\ UNCHANGED <<crons, poller, timer, boot, selected, requests>>
      /\ UNCHANGED row \/ Elapse(t)
  BY DEF CronFires, Elapse, RunNow, DeleteRuns
<1>2. RowsKept
  <2>1. CASE UNCHANGED row
    BY <2>1 DEF RowsKept
  <2>2. CASE Elapse(t)
    <3>1. row \in [Task -> TaskRow] /\ row[t] \in TaskRow /\ row[t].at = "future"
      BY <2>2 DEF TypeOK, Elapse
    <3>2. row' = [row EXCEPT ![t] = [row[t] EXCEPT !.at = "due"]]
      BY <2>2, <3>1 DEF Elapse
    <3>3. /\ [row[t] EXCEPT !.at = "due"].state = row[t].state
          /\ [row[t] EXCEPT !.at = "due"].cron = row[t].cron
          /\ [row[t] EXCEPT !.at = "due"].at = "due"
          /\ [row[t] EXCEPT !.at = "due"].enabled = row[t].enabled
      BY <3>1 DEF TaskRow
    <3>4. /\ row'[t] = [row[t] EXCEPT !.at = "due"]
          /\ \A s \in Task \ {t} : row'[s] = row[s]
      BY <3>1, <3>2
    <3> QED BY <3>1, <3>3, <3>4 DEF RowsKept
  <2> QED BY <1>1, <2>1, <2>2
<1>3. /\ OneWayInv' /\ RequestInv' /\ MirrorInv' /\ SelectedInv'
      /\ \A s \in Task : OneOff(s) => OneOffNext(s)
  BY <1>1, <1>2, RowsKeptMirror
<1>4. UNCHANGED runner \/ BeginRun(t)
  BY DEF CronFires, Elapse, RunNow, DeleteRuns
<1>5. Early => UNCHANGED runner
  <2>1. Early => ~Serving /\ crons[t] = NoCron
    BY DEF CronInv, EarlyInv, Early, Serving
  <2> QED BY <2>1 DEF CronFires, Elapse, RunNow, DeleteRuns
<1>6. EarlyInv'
  BY <1>1, <1>5 DEF CronInv, EarlyInv, Early
<1>7. BootPollInv'
  BY <1>1 DEF CronInv, BootPollInv
<1>8. \A p \in Poller : /\ poller[p].due \subseteq Task
                        /\ poller[p].pc = "run" => poller[p].task \in Task
  BY DEF TypeOK, PollerState, IdlePoller
<1>9. \A p \in Poller : /\ \A s \in poller'[p].due : OneOffNext(s)
                        /\ poller'[p].pc = "run" => OneOffNext(poller'[p].task)
  BY <1>1, <1>3, <1>8 DEF CronInv, DisablerInv
<1>10. DisablerInv'
  BY <1>3, <1>4, <1>9, CronRunners DEF DisablerInv, OneOff, OneOffNext
<1> QED BY <1>3, <1>6, <1>7, <1>10 DEF CronInv

(* A request is served only when no other has a step to do.                *)
LEMMA Alone ==
  ASSUME MaxRequests <= 1, CronInv, NewRequest
  PROVE  requests = {}
<1>1. SUFFICES ASSUME requests # {} PROVE FALSE
  OBVIOUS
<1>2. PICK q : q \in requests
  BY <1>1
<1>3. requests = {q}
  BY <1>2 DEF CronInv, RequestInv
<1>4. Cardinality(requests) = 1
  BY <1>3, FS_Singleton
<1> QED BY <1>4, SchedulerAssumption DEF NewRequest

(* The rows of other tasks stay as they are, and so does who may disable   *)
(* them.                                                                   *)
LEMMA CronOthers ==
  ASSUME TypeOK, CronInv, NEW t \in Task,
         \A s \in Task \ {t} : row'[s] = row[s],
         UNCHANGED <<runner, poller>>,
         Taken(t) => OneOffNext(t) \/ ~OneOff(t)
  PROVE  DisablerInv'
<1>1. \A r \in Runner : runner[r].pc # "idle" => runner[r].task \in Task
  BY RunnerFields, TypeParts
<1>2. \A p \in Poller : /\ poller[p].due \subseteq Task
                        /\ poller[p].pc = "run" => poller[p].task \in Task
  BY DEF TypeOK, PollerState, IdlePoller
<1>3. \A s \in Task : OneOff(s) /\ Taken(s) => OneOffNext(s)
  BY DEF OneOff, OneOffNext
<1>4. ASSUME NEW r \in Runner, runner[r].pc \notin {"idle", "get"}, ~runner[r].recurring
      PROVE  OneOffNext(runner[r].task)
  <2>1. OneOff(runner[r].task) /\ Taken(runner[r].task)
    BY <1>4 DEF CronInv, DisablerInv, Taken
  <2> QED BY <1>1, <1>3, <1>4, <2>1
<1>5. ASSUME NEW p \in Poller
      PROVE  /\ \A s \in poller[p].due : OneOffNext(s)
             /\ poller[p].pc = "run" => OneOffNext(poller[p].task)
  <2>1. \A s \in poller[p].due : OneOff(s) /\ Taken(s)
    BY DEF CronInv, DisablerInv, Taken
  <2>2. poller[p].pc = "run" => OneOff(poller[p].task) /\ Taken(poller[p].task)
    BY DEF CronInv, DisablerInv, Taken
  <2> QED BY <1>2, <1>3, <2>1, <2>2
<1> QED BY <1>4, <1>5 DEF DisablerInv, OneOff, OneOffNext

(* A request writes a row, or stops the Cron object of one: what it has    *)
(* left to do makes the two agree.                                         *)
LEMMA CronRequest ==
  ASSUME TypeOK, CronInv, NEW t \in Task, NEW q,
         requests = {}, ~Early, requests' = {q}, q.task = t,
         UNCHANGED <<boot, timer, selected, runner, poller>>,
         \A s \in Task \ {t} : row'[s] = row[s] /\ crons'[s] = crons[s],
         row'[t].cron = NoCron \/ row'[t].at = "none",
         Taken(t) => OneOffNext(t) \/ ~OneOff(t),
         Agrees(q)'
  PROVE  CronInv'
<1>1. EarlyInv' /\ SelectedInv' /\ BootPollInv'
  BY DEF CronInv, EarlyInv, SelectedInv, BootPollInv, Early
<1>2. OneWayInv'
  BY DEF CronInv, OneWayInv
<1>3. DisablerInv'
  BY CronOthers
<1>4. RequestInv'
  BY DEF RequestInv
<1>5. MirrorInv'
  <2>1. SUFFICES ASSUME boot \in {"poll", "done"}, NEW s \in Task \ {t}
                 PROVE  crons'[s] = Wanted(s)'
    BY DEF MirrorInv
  <2>2. crons[s] = Wanted(s)
    BY <2>1 DEF CronInv, MirrorInv
  <2> QED BY <2>1, <2>2 DEF Wanted, Live
<1> QED BY <1>1, <1>2, <1>3, <1>4, <1>5 DEF CronInv

(* A new task.                                                             *)
LEMMA CronCreate ==
  ASSUME ~Mixed, ~EarlyRequests, MaxRequests <= 1, TypeOK, CronInv, NEW t \in Task,
         NEW cron \in Cron, NEW at \in {"none", "future"}, CreateTask(t, cron, at)
  PROVE  CronInv'
<1> USE DEF store, starting
<1>1. requests = {} /\ ~Early
  BY Alone DEF CreateTask, NewRequest, Serving, Early
<1>2. /\ UNCHANGED <<boot, timer, selected, runner, poller, crons>>
      /\ row[t].state = "none" /\ (cron = NoCron \/ at = "none")
      /\ row' = [row EXCEPT ![t] = [state |-> "live", cron |-> cron, at |-> at, enabled |-> TRUE]]
  BY DEF CreateTask
<1>3. /\ row'[t].state = "live" /\ row'[t].cron = cron /\ row'[t].at = at
      /\ row'[t].enabled = TRUE /\ \A s \in Task \ {t} : row'[s] = row[s]
  BY <1>2 DEF TypeOK
<1>4. ~OneOff(t)
  BY <1>2 DEF OneOff
<1>5. CASE cron = NoCron
  <2>1. UNCHANGED requests
    BY <1>5 DEF CreateTask
  <2>2. EarlyInv' /\ SelectedInv' /\ BootPollInv'
    BY <1>1, <1>2 DEF CronInv, EarlyInv, SelectedInv, BootPollInv, Early
  <2>3. OneWayInv'
    BY <1>3, <1>5 DEF CronInv, OneWayInv
  <2>4. DisablerInv'
    BY <1>2, <1>3, <1>4, CronOthers
  <2>5. RequestInv'
    BY <1>1, <2>1 DEF RequestInv
  <2>6. MirrorInv'
    <3>1. SUFFICES ASSUME boot \in {"poll", "done"}, NEW s \in Task
                   PROVE  crons'[s] = Wanted(s)'
      BY <1>2 DEF MirrorInv
    <3>2. crons[s] = Wanted(s)
      BY <1>1, <3>1 DEF CronInv, MirrorInv
    <3>3. CASE s # t
      BY <1>2, <1>3, <3>2, <3>3 DEF Wanted, Live
    <3>4. CASE s = t
      BY <1>2, <1>3, <1>5, <3>2, <3>4 DEF Wanted, Live
    <3> QED BY <3>3, <3>4
  <2> QED BY <2>2, <2>3, <2>4, <2>5, <2>6 DEF CronInv
<1>6. CASE cron # NoCron
  <2>1. PICK q : q = Apply(t, cron, TRUE)
    OBVIOUS
  <2>2. requests' = {q}
    BY <1>1, <1>6, <2>1 DEF CreateTask
  <2>3. q.step = "apply" /\ q.task = t /\ q.cron = cron /\ q.enabled = TRUE
    BY <2>1 DEF Apply
  <2>4. Agrees(q)'
    BY <1>3, <2>3 DEF Agrees, Live
  <2> QED BY <1>1, <1>2, <1>3, <1>4, <2>2, <2>3, <2>4, CronRequest
<1> QED BY <1>5, <1>6

(* An edit.                                                                *)
LEMMA CronEdit ==
  ASSUME ~Mixed, ~EarlyRequests, ~EditTaken, MaxRequests <= 1, TypeOK, CronInv, NEW t \in Task,
         NEW cron \in Cron, NEW at \in {"none", "future", row[t].at}, NEW enabled \in BOOLEAN,
         EditTask(t, cron, at, enabled)
  PROVE  CronInv'
<1> USE DEF store, starting
<1>1. requests = {} /\ ~Early
  BY Alone DEF EditTask, NewRequest, Serving, Early
<1>2. /\ UNCHANGED <<boot, timer, selected, runner, poller, crons>>
      /\ Live(t) /\ ~Taken(t) /\ (cron = NoCron \/ at = "none")
      /\ row' = [row EXCEPT ![t].cron = cron, ![t].at = at, ![t].enabled = enabled]
  BY DEF EditTask
<1>3. row \in [Task -> TaskRow] /\ row[t] \in TaskRow
  BY DEF TypeOK
<1>4. PICK x : x = [row[t] EXCEPT !.cron = cron, !.at = at, !.enabled = enabled]
  OBVIOUS
<1>5. x.state = "live" /\ x.cron = cron /\ x.at = at /\ x.enabled = enabled
  BY <1>2, <1>3, <1>4 DEF TaskRow, Live
<1>6. row' = [row EXCEPT ![t] = x]
  BY <1>2, <1>3, <1>4
<1>7. row'[t] = x /\ \A s \in Task \ {t} : row'[s] = row[s]
  BY <1>3, <1>6
<1>8. PICK q : q = Apply(t, cron, enabled)
  OBVIOUS
<1>9. requests' = {q}
  BY <1>1, <1>8 DEF EditTask
<1>10. q.step = "apply" /\ q.task = t /\ q.cron = cron /\ q.enabled = enabled
  BY <1>8 DEF Apply
<1>11. Agrees(q)'
  <2>1. row'[q.task].state = "live" /\ row'[q.task].cron = q.cron
    BY <1>5, <1>7, <1>10
  <2>2. row'[q.task].enabled = q.enabled
    BY <1>5, <1>7, <1>10
  <2> QED BY <1>10, <2>1, <2>2, Zenon DEF Agrees, Live
<1> QED BY <1>1, <1>2, <1>5, <1>7, <1>9, <1>10, <1>11, CronRequest

(* A deletion, first half.                                                 *)
LEMMA CronDelete ==
  ASSUME ~EarlyRequests, MaxRequests <= 1, TypeOK, CronInv, NEW t \in Task, DeleteTask(t)
  PROVE  CronInv'
<1> USE DEF store, starting
<1>1. requests = {} /\ ~Early
  BY Alone DEF DeleteTask, NewRequest, Serving, Early
<1>2. /\ UNCHANGED <<boot, timer, selected, runner, poller, row>>
      /\ crons' = [crons EXCEPT ![t] = NoCron]
  BY DEF DeleteTask
<1>3. crons'[t] = NoCron /\ \A s \in Task \ {t} : crons'[s] = crons[s]
  BY <1>2 DEF TypeOK
<1>4. PICK q : q = [step |-> "erase", task |-> t]
  OBVIOUS
<1>5. requests' = {q} /\ q.step = "erase" /\ q.task = t
  BY <1>1, <1>4 DEF DeleteTask
<1>6. Agrees(q)'
  BY <1>3, <1>5 DEF Agrees
<1>7. row[t].cron = NoCron \/ row[t].at = "none"
  BY DEF CronInv, OneWayInv
<1>8. OneOff(t) => OneOffNext(t)
  BY <1>2 DEF OneOff, OneOffNext
<1> QED BY <1>1, <1>2, <1>3, <1>5, <1>6, <1>7, <1>8, CronRequest

(* The second half of a request.                                           *)
LEMMA CronContinue ==
  ASSUME TypeOK, CronInv, NEW q \in requests, Continue(q)
  PROVE  CronInv'
<1> USE DEF store, starting
<1>1. q.task \in Task /\ requests = {q} /\ ~Early
  BY DEF CronInv, RequestInv, EarlyInv, TypeOK, Request
<1>2. UNCHANGED <<boot, timer, selected, runner, poller>> /\ requests' = {}
  BY <1>1 DEF Continue, ApplyRequest, EraseTask
<1>3. EarlyInv' /\ SelectedInv' /\ BootPollInv' /\ RequestInv'
  BY <1>1, <1>2 DEF CronInv, EarlyInv, SelectedInv, BootPollInv, RequestInv, Early
<1>4. \A s \in Task \ {q.task} : boot \in {"poll", "done"} => crons[s] = Wanted(s)
  BY <1>1 DEF CronInv, MirrorInv
<1>5. boot \in {"poll", "done"} => Agrees(q)
  BY DEF CronInv, RequestInv
<1>6. CASE ApplyRequest(q)
  <2>1. UNCHANGED row /\ q.step = "apply"
    BY <1>6 DEF ApplyRequest
  <2>2. crons' = [crons EXCEPT ![q.task] = IF q.enabled THEN q.cron ELSE NoCron]
    BY <1>6 DEF ApplyRequest, Scheduled
  <2>3. /\ crons'[q.task] = IF q.enabled THEN q.cron ELSE NoCron
        /\ \A s \in Task \ {q.task} : crons'[s] = crons[s]
    BY <1>1, <2>2 DEF TypeOK
  <2>4. OneWayInv' /\ DisablerInv'
    BY <1>2, <2>1 DEF CronInv, OneWayInv, DisablerInv, OneOff
  <2>5. \A s \in Task : Wanted(s)' = Wanted(s)
    BY <2>1 DEF Wanted, Live
  <2>6. ASSUME boot \in {"poll", "done"} PROVE crons'[q.task] = Wanted(q.task)
    <3>1. Live(q.task) /\ row[q.task].cron = q.cron
      BY <1>5, <2>1, <2>6 DEF Agrees
    <3>2. q.cron # NoCron => row[q.task].enabled = q.enabled
      BY <1>5, <2>1, <2>6, Zenon DEF Agrees
    <3>3. Wanted(q.task) = IF row[q.task].enabled THEN q.cron ELSE NoCron
      BY <3>1 DEF Wanted
    <3>4. CASE q.cron = NoCron
      BY <2>3, <3>3, <3>4
    <3>5. CASE q.cron # NoCron
      <4>1. row[q.task].enabled = q.enabled
        BY <3>2, <3>5
      <4> QED BY <2>3, <3>3, <4>1
    <3> QED BY <3>4, <3>5
  <2>7. MirrorInv'
    BY <1>1, <1>2, <1>4, <2>3, <2>5, <2>6 DEF MirrorInv
  <2> QED BY <1>3, <2>4, <2>7 DEF CronInv
<1>7. CASE EraseTask(q)
  <2>1. UNCHANGED crons /\ q.step = "erase" /\ row' = [row EXCEPT ![q.task].state = "gone"]
    BY <1>7 DEF EraseTask
  <2>2. row \in [Task -> TaskRow] /\ row[q.task] \in TaskRow
    BY <1>1 DEF TypeOK
  <2>3. PICK x : x = [row[q.task] EXCEPT !.state = "gone"]
    OBVIOUS
  <2>4. x.state = "gone" /\ x.cron = row[q.task].cron /\ x.at = row[q.task].at
    BY <2>2, <2>3 DEF TaskRow
  <2>5. row' = [row EXCEPT ![q.task] = x]
    BY <2>1, <2>2, <2>3
  <2>6. row'[q.task] = x /\ \A s \in Task \ {q.task} : row'[s] = row[s]
    BY <1>1, <2>2, <2>5
  <2>7. OneWayInv'
    BY <2>4, <2>6 DEF CronInv, OneWayInv
  <2>8. OneOff(q.task) => OneOffNext(q.task)
    BY <2>4, <2>6 DEF OneOff, OneOffNext
  <2>9. DisablerInv'
    BY <1>1, <1>2, <2>6, <2>8, CronOthers
  <2>10. MirrorInv'
    <3>1. SUFFICES ASSUME boot \in {"poll", "done"}, NEW s \in Task
                   PROVE  crons'[s] = Wanted(s)'
      BY <1>2 DEF MirrorInv
    <3>2. CASE s = q.task
      <4>1. crons[q.task] = NoCron
        BY <1>5, <2>1, <3>1 DEF Agrees
      <4> QED BY <2>1, <2>4, <2>6, <3>2, <4>1 DEF Wanted, Live
    <3>3. CASE s # q.task
      BY <1>4, <2>1, <2>6, <3>1, <3>3 DEF Wanted, Live
    <3> QED BY <3>2, <3>3
  <2> QED BY <1>3, <2>7, <2>9, <2>10 DEF CronInv
<1> QED BY <1>6, <1>7 DEF Continue

(* The startup makes the Cron objects from the rows it has read.           *)
LEMMA CronBoot ==
  ASSUME TypeOK, CronInv, Boot
  PROVE  CronInv'
<1> USE DEF store, starting
<1>1. Early
  BY DEF Boot, BootMark, BootSelect, BootArm, BootFails, Early
<1>2. /\ \A r \in Runner : runner[r].pc = "idle"
      /\ \A p \in Poller : poller[p].pc = "idle"
      /\ \A t \in Task : crons[t] = NoCron
      /\ timer = FALSE /\ requests = {}
  BY <1>1 DEF CronInv, EarlyInv
<1>3. UNCHANGED <<row, runner, timer, requests>>
  BY DEF Boot, BootMark, BootSelect, BootArm, BootFails
<1>4. OneWayInv'
  BY <1>3 DEF CronInv, OneWayInv
<1>5. RequestInv'
  BY <1>2, <1>3 DEF RequestInv
<1>6. CASE BootMark \/ BootSelect \/ BootFails
  <2>1. UNCHANGED <<crons, poller>> /\ boot' \in {"select", "arm", "failed"}
    BY <1>6 DEF BootMark, BootSelect, BootFails
  <2>2. EarlyInv'
    BY <1>2, <1>3, <2>1 DEF EarlyInv
  <2>3. SelectedInv'
    BY <1>6 DEF SelectedInv, BootMark, BootSelect, BootFails, Live
  <2>4. BootPollInv'
    <3>1. \A p \in Poller : ~poller[p].boot
      BY <1>1 DEF CronInv, BootPollInv, Early
    <3> QED BY <2>1, <3>1 DEF BootPollInv
  <2>5. DisablerInv'
    BY <1>3, <2>1 DEF CronInv, DisablerInv, OneOff
  <2>6. MirrorInv'
    BY <2>1 DEF MirrorInv
  <2> QED BY <1>4, <1>5, <2>2, <2>3, <2>4, <2>5, <2>6 DEF CronInv
<1>7. CASE BootArm
  <2>1. boot = "arm" /\ boot' = "poll"
    BY <1>7 DEF BootArm
  <2>2. PICK p \in Poller :
          poller' = [poller EXCEPT ![p] = [IdlePoller EXCEPT !.pc = "select", !.boot = TRUE]]
    BY <1>7 DEF BootArm
  <2>3. PICK x : x = [IdlePoller EXCEPT !.pc = "select", !.boot = TRUE]
    OBVIOUS
  <2>4. x.pc = "select" /\ x.due = {}
    BY <2>3 DEF IdlePoller
  <2>5. poller'[p] = x /\ \A q \in Poller \ {p} : poller'[q] = poller[q]
    BY <2>2, <2>3 DEF TypeOK
  <2>6. EarlyInv' /\ SelectedInv'
    BY <2>1 DEF EarlyInv, SelectedInv, Early
  <2>7. BootPollInv'
    <3>1. \A q \in Poller \ {p} : ~poller'[q].boot
      BY <1>1, <2>5 DEF CronInv, BootPollInv, Early
    <3> QED BY <2>1, <3>1 DEF BootPollInv
  <2>8. DisablerInv'
    <3>1. \A q \in Poller : /\ \A t \in poller'[q].due : OneOff(t)
                            /\ poller'[q].pc # "run"
      BY <1>2, <2>4, <2>5 DEF CronInv, DisablerInv
    <3>2. \A r \in Runner : runner'[r].pc = "idle"
      BY <1>2, <1>3
    <3> QED BY <1>3, <3>1, <3>2 DEF DisablerInv, OneOff
  <2>9. MirrorInv'
    <3>1. SUFFICES ASSUME NEW t \in Task PROVE crons'[t] = Wanted(t)
      BY <1>3 DEF MirrorInv, Wanted, Live
    <3>2. selected = {r \in Task \X Expr :
                        Live(r[1]) /\ row[r[1]].enabled /\ row[r[1]].cron = r[2]}
      BY <2>1 DEF CronInv, SelectedInv
    <3>3. \A e \in Expr : <<t, e>> \in selected <=> Live(t) /\ row[t].enabled /\ row[t].cron = e
      BY <3>2
    <3>4. crons'[t] = IF \E e \in Expr : <<t, e>> \in selected
                      THEN CHOOSE e \in Expr : <<t, e>> \in selected ELSE crons[t]
      BY <1>7 DEF BootArm
    <3>5. row[t].cron \in Cron
      BY DEF TypeOK, TaskRow
    <3>6. CASE \E e \in Expr : <<t, e>> \in selected
      <4>1. PICK e \in Expr : <<t, e>> \in selected
        BY <3>6
      <4>2. \A f \in Expr : <<t, f>> \in selected => f = e
        BY <3>3, <4>1
      <4>3. (CHOOSE f \in Expr : <<t, f>> \in selected) = e
        BY <4>1, <4>2
      <4> QED BY <3>3, <3>4, <3>6, <4>1, <4>3 DEF Wanted
    <3>7. CASE ~\E e \in Expr : <<t, e>> \in selected
      <4>1. crons'[t] = NoCron
        BY <1>2, <3>4, <3>7
      <4>2. ~(Live(t) /\ row[t].enabled) \/ row[t].cron = NoCron
        BY <3>3, <3>5, <3>7 DEF Cron
      <4> QED BY <4>1, <4>2 DEF Wanted
    <3> QED BY <3>6, <3>7
  <2> QED BY <1>4, <1>5, <2>6, <2>7, <2>8, <2>9 DEF CronInv
<1> QED BY <1>6, <1>7 DEF Boot

(* The end of the process, and what concerns neither rows nor Cron objects. *)
LEMMA CronStops ==
  ASSUME TypeOK, CronInv, Stop \/ Restart \/ (\E i \in Run : DeleteRun(i)) \/ UNCHANGED vars
  PROVE  CronInv'
<1> USE DEF store, starting
<1>1. CASE (\E i \in Run : DeleteRun(i)) \/ UNCHANGED vars
  <2>1. UNCHANGED <<row, crons, runner, poller, timer, boot, selected, requests>>
    BY <1>1 DEF DeleteRun, vars
  <2>2. EarlyInv' /\ SelectedInv' /\ BootPollInv' /\ OneWayInv' /\ DisablerInv'
    BY <2>1 DEF CronInv, EarlyInv, Early, SelectedInv, BootPollInv, OneWayInv, DisablerInv,
                OneOff, Live
  <2>3. RequestInv' /\ MirrorInv'
    BY <2>1 DEF CronInv, RequestInv, MirrorInv, Agrees, Wanted, Live
  <2> QED BY <2>2, <2>3 DEF CronInv
<1>2. CASE Stop
  <2>1. boot' = "stopped" /\ boot \in {"done", "failed"}
        /\ UNCHANGED <<row, runner, poller, selected, requests>>
    BY <1>2 DEF Stop
  <2>2. EarlyInv' /\ SelectedInv' /\ OneWayInv' /\ DisablerInv'
    BY <2>1 DEF CronInv, EarlyInv, Early, SelectedInv, OneWayInv, DisablerInv, OneOff
  <2>3. BootPollInv'
    BY <2>1 DEF CronInv, BootPollInv
  <2>4. RequestInv' /\ MirrorInv'
    BY <2>1 DEF CronInv, RequestInv, MirrorInv
  <2> QED BY <2>2, <2>3, <2>4 DEF CronInv
<1>3. CASE Restart
  <2>1. /\ crons' = [t \in Task |-> NoCron] /\ runner' = [r \in Runner |-> IdleRunner]
        /\ poller' = [p \in Poller |-> IdlePoller] /\ timer' = FALSE /\ boot' = "mark"
        /\ requests' = {} /\ UNCHANGED row
    BY <1>3 DEF Restart
  <2>2. /\ \A r \in Runner : runner'[r].pc = "idle"
        /\ \A p \in Poller : poller'[p].pc = "idle" /\ poller'[p].due = {} /\ ~poller'[p].boot
    BY <2>1 DEF IdleRunner, IdlePoller
  <2>3. EarlyInv' /\ SelectedInv' /\ BootPollInv' /\ DisablerInv'
    BY <2>1, <2>2 DEF EarlyInv, SelectedInv, BootPollInv, DisablerInv
  <2>4. OneWayInv' /\ RequestInv' /\ MirrorInv'
    BY <2>1 DEF CronInv, OneWayInv, RequestInv, MirrorInv
  <2> QED BY <2>3, <2>4 DEF CronInv
<1> QED BY <1>1, <1>2, <1>3

(* Together, the parts of CronInv are inductive.                           *)
LEMMA CronStep ==
  ASSUME ~Mixed, ~EarlyRequests, ~EditTaken, MaxRequests <= 1, TypeOK, CronInv, [Next]_vars
  PROVE  CronInv'
<1>1. ASSUME NEW t \in Task, Route(t) PROVE CronInv'
  <2>1. ASSUME NEW cron \in Cron, NEW at \in {"none", "future"}, CreateTask(t, cron, at)
        PROVE  CronInv'
    BY <2>1, CronCreate
  <2>2. ASSUME NEW cron \in Cron, NEW at \in {"none", "future", row[t].at},
               NEW enabled \in BOOLEAN, EditTask(t, cron, at, enabled)
        PROVE  CronInv'
    BY <2>2, CronEdit
  <2> QED BY <1>1, <2>1, <2>2, CronDelete, CronQuietStep DEF Route
<1>2. ASSUME NEW t \in Task, CronFires(t) \/ Elapse(t) PROVE CronInv'
  BY <1>2, CronQuietStep
<1> QED BY <1>1, <1>2, CronRunTask, CronPoll, CronContinue, CronBoot, CronStops DEF Next

(* When startup and requests are through, the Cron objects are what the    *)
(* rows say, after any edits, deletions, runs, failures and restarts.  The *)
(* assumptions leave out what breaks it: requests during the startup, two  *)
(* requests at once, a task with a cron expression and a date, and an edit *)
(* of a task that a run or a poll is about to disable.                     *)
THEOREM CronsFollowRows ==
  ASSUME ~Mixed, ~EarlyRequests, ~EditTaken, MaxRequests <= 1
  PROVE  Spec => []CronMirrors
<1>1. Init => CronInv
  <2>1. SUFFICES ASSUME Init PROVE CronInv
    OBVIOUS
  <2>2. /\ boot = "mark" /\ timer = FALSE /\ requests = {}
        /\ \A r \in Runner : runner[r].pc = "idle"
        /\ \A p \in Poller : poller[p].pc = "idle" /\ poller[p].due = {} /\ ~poller[p].boot
        /\ \A t \in Task : crons[t] = NoCron /\ row[t].cron = NoCron
    BY <2>1 DEF Init, IdleRunner, IdlePoller
  <2> QED BY <2>2 DEF CronInv, EarlyInv, SelectedInv, BootPollInv, OneWayInv, DisablerInv,
                      RequestInv, MirrorInv
<1>2. TypeOK /\ CronInv /\ [Next]_vars => CronInv'
  BY CronStep
<1>3. CronInv => CronMirrors
  BY DEF CronInv, MirrorInv, CronMirrors, Wanted
<1> QED BY <1>1, <1>2, <1>3, TypeCorrect, PTL DEF Spec

-----------------------------------------------------------------------------
(* A date starts its task once                                             *)

OnceInv ==
  /\ \A t \in Task : past[t] # "again"
  /\ \A t \in Task : past[t] = "started" =>
       /\ row[t].state # "none" /\ ~row[t].enabled
       /\ \A p \in Poller : t \notin poller[p].due /\ ~(poller[p].pc = "run" /\ poller[p].task = t)
  /\ \A p \in Poller : \A t \in poller[p].due : row[t].state # "none"
  /\ \A p \in Poller : poller[p].pc = "run" =>
       /\ row[poller[p].task].state # "none" /\ poller[p].task \notin poller[p].due
       /\ past[poller[p].task] = "waiting" => ~row[poller[p].task].enabled

(* One poll at a time does not start a task a second time.                 *)
LEMMA OncePoll ==
  ASSUME \A p, q \in Poller : p = q, TypeOK, OnceInv,
         NEW p \in Poller, PollBegin(p) \/ Poll(p)
  PROVE  OnceInv'
<1>1. RestOK /\ past \in [Task -> {"waiting", "started", "again", "edited"}]
  BY TypeParts DEF RestOK
<1>2. /\ UNCHANGED row \/ Disables(p)
      /\ Begins(p) \/ Selects(p) \/ Disables(p) \/ Starts(p) \/ Ends(p)
      /\ \/ UNCHANGED past
         \/ /\ poller[p].pc = "run"
            /\ past' = [past EXCEPT ![poller[p].task] = Started(@)]
  BY PollShapes
<1>3. /\ poller[p].due \subseteq Task
      /\ poller[p].pc = "run" => poller[p].task \in Task
  BY DEF TypeOK, PollerState, IdlePoller
<1>4. SUFFICES /\ \A t \in Task : past'[t] = "started" =>
                    /\ row'[t].state # "none" /\ ~row'[t].enabled
                    /\ t \notin poller'[p].due
                    /\ ~(poller'[p].pc = "run" /\ poller'[p].task = t)
               /\ \A t \in Task : past'[t] # "again"
               /\ \A t \in poller'[p].due : row'[t].state # "none"
               /\ poller'[p].pc = "run" =>
                    /\ row'[poller'[p].task].state # "none"
                    /\ poller'[p].task \notin poller'[p].due
                    /\ past'[poller'[p].task] = "waiting" => ~row'[poller'[p].task].enabled
  BY DEF OnceInv
<1>5. /\ \A t \in Task : past[t] = "started" =>
           /\ row[t].state # "none" /\ ~row[t].enabled
           /\ t \notin poller[p].due /\ ~(poller[p].pc = "run" /\ poller[p].task = t)
      /\ \A t \in Task : past[t] # "again"
      /\ \A t \in poller[p].due : row[t].state # "none"
      /\ poller[p].pc = "run" =>
           /\ row[poller[p].task].state # "none" /\ poller[p].task \notin poller[p].due
           /\ past[poller[p].task] = "waiting" => ~row[poller[p].task].enabled
  BY DEF OnceInv
<1>6. CASE Begins(p) \/ Selects(p)
  <2>1. UNCHANGED <<past, row>>
    BY <1>2, <1>6 DEF Begins, Selects, Disables
  <2> QED BY <1>5, <1>6, <2>1 DEF Begins, Selects, Due, Live
<1>7. CASE Disables(p)
  <2>1. PICK t \in poller[p].due :
          /\ t \in Task /\ row' = [row EXCEPT ![t].enabled = FALSE]
          /\ poller'[p].pc = "run" /\ poller'[p].due = poller[p].due \ {t} /\ poller'[p].task = t
    BY <1>7 DEF Disables
  <2>2. past' = past
    BY <1>2, <1>7 DEF Disables
  <2>3. /\ \A s \in Task : row'[s].state = row[s].state /\ (s # t => row'[s] = row[s])
        /\ ~row'[t].enabled
    BY <1>1, <2>1, DisabledRow
  <2>4. past[t] # "started"
    BY <1>5, <2>1
  <2>5. ASSUME NEW s \in Task, past[s] = "started"
        PROVE  /\ row'[s].state # "none" /\ ~row'[s].enabled
               /\ s \notin poller'[p].due /\ ~(poller'[p].pc = "run" /\ poller'[p].task = s)
    <3>1. s # t
      BY <2>4, <2>5
    <3>2. row'[s] = row[s]
      BY <2>3, <3>1
    <3>3. ~row[s].enabled /\ row[s].state # "none" /\ s \notin poller[p].due
      BY <1>5, <2>5
    <3>4. ~row'[s].enabled
      BY <3>2, <3>3, Zenon
    <3> QED BY <2>1, <3>1, <3>2, <3>3, <3>4
  <2>6. \A s \in poller'[p].due : row'[s].state # "none"
    BY <1>3, <1>5, <2>1, <2>3
  <2>7. row'[t].state # "none"
    BY <1>5, <2>1, <2>3
  <2>8. ~row'[poller'[p].task].enabled
    BY <2>1, <2>3
  <2>9. /\ row'[poller'[p].task].state # "none"
        /\ poller'[p].task \notin poller'[p].due
    BY <2>1, <2>7
  <2> QED BY <1>5, <2>2, <2>5, <2>6, <2>8, <2>9, Zenon
<1>8. CASE Starts(p) \/ Ends(p)
  <2>1. UNCHANGED row /\ poller'[p].due \subseteq poller[p].due /\ poller'[p].pc # "run"
    BY <1>2, <1>8 DEF Starts, Ends, Disables, IdlePoller
  <2>2. CASE UNCHANGED past
    BY <1>3, <1>5, <2>1, <2>2
  <2>3. CASE /\ poller[p].pc = "run"
             /\ past' = [past EXCEPT ![poller[p].task] = Started(@)]
    <3>1. PICK t \in Task : t = poller[p].task
      BY <1>3, <2>3
    <3>2. past' = [past EXCEPT ![t] = Started(past[t])]
      BY <2>3, <3>1
    <3>3. past'[t] = Started(past[t]) /\ \A s \in Task \ {t} : past'[s] = past[s]
      BY <1>1, <3>2
    <3>4. past[t] # "started" /\ past[t] # "again"
      BY <1>5, <2>3, <3>1
    <3>5. CASE past[t] = "waiting"
      <4>1. past'[t] = "started"
        BY <3>3, <3>5 DEF Started
      <4>2. ~row[t].enabled /\ row[t].state # "none" /\ t \notin poller[p].due
        BY <1>5, <2>3, <3>1, <3>5
      <4>3. ASSUME NEW s \in Task, past'[s] = "started"
            PROVE  row[s].state # "none" /\ ~row[s].enabled /\ s \notin poller[p].due
        <5>1. CASE s = t
          BY <4>2, <5>1
        <5>2. CASE s # t
          BY <1>5, <3>3, <4>3, <5>2
        <5> QED BY <5>1, <5>2
      <4>4. \A s \in Task : past'[s] # "again"
        BY <1>5, <3>3, <4>1
      <4> QED BY <1>5, <2>1, <4>3, <4>4
    <3>6. CASE past[t] = "edited"
      <4>1. past'[t] = past[t]
        BY <3>3, <3>6 DEF Started
      <4>2. \A s \in Task : past'[s] = past[s]
        BY <3>3, <4>1
      <4> QED BY <1>3, <1>5, <2>1, <4>2
    <3> QED BY <1>1, <3>4, <3>5, <3>6
  <2> QED BY <1>2, <2>2, <2>3
<1> QED BY <1>2, <1>6, <1>7, <1>8

(* Other steps: rows stay enabled or not, and there, unless they are       *)
(* edited or new.                                                          *)
LEMMA OnceKeeps ==
  ASSUME TypeOK, OnceInv,
         \A p \in Poller : \/ poller'[p] = poller[p]
                           \/ poller'[p].due = {} /\ poller'[p].pc # "run",
         \A t \in Task : \/ /\ past'[t] = past[t]
                            /\ row'[t].enabled => row[t].enabled
                            /\ row[t].state # "none" => row'[t].state # "none"
                         \/ past'[t] = "edited" /\ row'[t].state # "none"
                         \/ /\ past'[t] = past[t] /\ row[t].state = "none"
                            /\ row'[t].state # "none"
  PROVE  OnceInv'
<1>1. \A p \in Poller : /\ poller[p].due \subseteq Task
                        /\ poller[p].pc = "run" => poller[p].task \in Task
  BY DEF TypeOK, PollerState, IdlePoller
<1>2. ASSUME NEW t \in Task, past'[t] = "started"
      PROVE  /\ row'[t].state # "none" /\ ~row'[t].enabled
             /\ \A p \in Poller : /\ t \notin poller'[p].due
                                  /\ ~(poller'[p].pc = "run" /\ poller'[p].task = t)
  <2>1. past[t] = "started"
    BY <1>2
  <2>2. /\ row[t].state # "none" /\ ~row[t].enabled
        /\ \A p \in Poller : t \notin poller[p].due /\ ~(poller[p].pc = "run" /\ poller[p].task = t)
    BY <2>1 DEF OnceInv
  <2>3. row'[t].state # "none" /\ ~row'[t].enabled
    BY <1>2, <2>2
  <2> QED BY <2>2, <2>3
<1>3. \A t \in Task : row[t].state # "none" => row'[t].state # "none"
  OBVIOUS
<1>4. \A t \in Task : past'[t] # "again"
  BY DEF OnceInv
<1>5. ASSUME NEW p \in Poller, poller'[p] = poller[p]
      PROVE  /\ \A t \in poller[p].due : row'[t].state # "none"
             /\ poller[p].pc = "run" =>
                  /\ row'[poller[p].task].state # "none" /\ poller[p].task \notin poller[p].due
                  /\ past'[poller[p].task] = "waiting" => ~row'[poller[p].task].enabled
  <2>1. \A t \in poller[p].due : row'[t].state # "none"
    BY <1>1, <1>3 DEF OnceInv
  <2>2. ASSUME poller[p].pc = "run"
        PROVE  /\ row'[poller[p].task].state # "none" /\ poller[p].task \notin poller[p].due
               /\ past'[poller[p].task] = "waiting" => ~row'[poller[p].task].enabled
    <3>1. PICK t \in Task : t = poller[p].task
      BY <1>1, <2>2
    <3>2. /\ row[t].state # "none" /\ t \notin poller[p].due
          /\ past[t] = "waiting" => ~row[t].enabled
      BY <2>2, <3>1 DEF OnceInv
    <3>3. row'[t].state # "none"
      BY <1>3, <3>2
    <3>4. past'[t] = "waiting" => ~row'[t].enabled
      BY <3>2
    <3> QED BY <3>1, <3>2, <3>3, <3>4
  <2> QED BY <2>1, <2>2
<1>6. ASSUME NEW p \in Poller
      PROVE  /\ \A t \in poller'[p].due : row'[t].state # "none"
             /\ poller'[p].pc = "run" =>
                  /\ row'[poller'[p].task].state # "none"
                  /\ poller'[p].task \notin poller'[p].due
                  /\ past'[poller'[p].task] = "waiting" => ~row'[poller'[p].task].enabled
  <2>1. CASE poller'[p] = poller[p]
    BY <1>5, <2>1
  <2>2. CASE poller'[p].due = {} /\ poller'[p].pc # "run"
    BY <2>2
  <2> QED BY <2>1, <2>2
<1> QED BY <1>2, <1>4, <1>6 DEF OnceInv

(* Such are all steps that are not of a poll.                              *)
LEMMA OnceRest ==
  ASSUME TypeOK, Next, \A p \in Poller : ~(PollBegin(p) \/ Poll(p))
  PROVE  /\ \A p \in Poller : \/ poller'[p] = poller[p]
                              \/ poller'[p].due = {} /\ poller'[p].pc # "run"
         /\ \A t \in Task : \/ /\ past'[t] = past[t]
                               /\ row'[t].enabled => row[t].enabled
                               /\ row[t].state # "none" => row'[t].state # "none"
                            \/ past'[t] = "edited" /\ row'[t].state # "none"
                            \/ /\ past'[t] = past[t] /\ row[t].state = "none"
                               /\ row'[t].state # "none"
<1> USE DEF store, starting
<1>1. /\ RestOK /\ row \in [Task -> TaskRow]
      /\ past \in [Task -> {"waiting", "started", "again", "edited"}]
  BY TypeParts DEF RestOK
<1>2. CASE \E r \in Runner : RunTask(r)
  <2>1. UNCHANGED <<poller, past>>
    BY <1>2, RunTaskFrame
  <2>2. CASE UNCHANGED row
    BY <2>1, <2>2
  <2>3. CASE \E t \in Task : row' = [row EXCEPT ![t].enabled = FALSE]
    BY <1>1, <2>1, <2>3, DisabledRow
  <2> QED BY <1>2, <2>2, <2>3, RunTaskRow
<1>3. ASSUME NEW t \in Task, NEW cron \in Cron, NEW at \in {"none", "future"},
             CreateTask(t, cron, at)
      PROVE  /\ UNCHANGED <<poller, past>>
             /\ row[t].state = "none" /\ row'[t].state # "none"
             /\ \A s \in Task \ {t} : row'[s] = row[s]
  BY <1>1, <1>3 DEF CreateTask
<1>4. ASSUME NEW t \in Task, NEW cron \in Cron, NEW at \in {"none", "future", row[t].at},
             NEW enabled \in BOOLEAN, EditTask(t, cron, at, enabled)
      PROVE  /\ UNCHANGED poller
             /\ past'[t] = "edited" /\ row'[t].state # "none"
             /\ \A s \in Task \ {t} : row'[s] = row[s] /\ past'[s] = past[s]
  <2>1. PICK x : x = [row[t] EXCEPT !.cron = cron, !.at = at, !.enabled = enabled]
    OBVIOUS
  <2>2. row[t] \in TaskRow /\ row[t].state = "live"
    BY <1>1, <1>4 DEF EditTask, Live
  <2>3. x.state = "live"
    BY <2>1, <2>2 DEF TaskRow
  <2>4. row' = [row EXCEPT ![t] = x]
    BY <1>1, <1>4, <2>1 DEF EditTask
  <2>5. row'[t] = x /\ \A s \in Task \ {t} : row'[s] = row[s]
    BY <1>1, <2>4
  <2>6. past'[t] = "edited" /\ \A s \in Task \ {t} : past'[s] = past[s]
    BY <1>1, <1>4 DEF EditTask
  <2> QED BY <1>4, <2>3, <2>5, <2>6 DEF EditTask
<1>5. ASSUME NEW t \in Task, NEW x, row' = [row EXCEPT ![t] = x], UNCHANGED <<poller, past>>,
             x.enabled = row[t].enabled, x.state \in {row[t].state, "gone"}
      PROVE  /\ UNCHANGED <<poller, past>>
             /\ \A s \in Task : /\ row'[s].enabled = row[s].enabled
                                /\ row[s].state # "none" => row'[s].state # "none"
  <2>1. row'[t] = x /\ \A s \in Task \ {t} : row'[s] = row[s]
    BY <1>1, <1>5
  <2> QED BY <1>5, <2>1
<1>6. ASSUME NEW t \in Task, Elapse(t)
      PROVE  /\ UNCHANGED <<poller, past>>
             /\ \A s \in Task : /\ row'[s].enabled = row[s].enabled
                                /\ row[s].state # "none" => row'[s].state # "none"
  <2>1. PICK x : x = [row[t] EXCEPT !.at = "due"]
    OBVIOUS
  <2>2. x.enabled = row[t].enabled /\ x.state = row[t].state
    BY <1>1, <2>1 DEF TaskRow
  <2>3. row' = [row EXCEPT ![t] = x] /\ UNCHANGED <<poller, past>>
    BY <1>1, <1>6, <2>1 DEF Elapse
  <2> QED BY <1>5, <2>2, <2>3
<1>7. ASSUME NEW q \in requests, EraseTask(q)
      PROVE  /\ UNCHANGED <<poller, past>>
             /\ \A s \in Task : /\ row'[s].enabled = row[s].enabled
                                /\ row[s].state # "none" => row'[s].state # "none"
  <2>1. PICK t \in Task : t = q.task
    BY DEF TypeOK, Request
  <2>2. PICK x : x = [row[t] EXCEPT !.state = "gone"]
    OBVIOUS
  <2>3. x.enabled = row[t].enabled /\ x.state = "gone"
    BY <1>1, <2>2 DEF TaskRow
  <2>4. row' = [row EXCEPT ![t] = x] /\ UNCHANGED <<poller, past>>
    BY <1>1, <1>7, <2>1, <2>2 DEF EraseTask
  <2> QED BY <1>5, <2>3, <2>4
<1>8. CASE \E t \in Task : Route(t) \/ CronFires(t) \/ Elapse(t)
  <2>1. ASSUME NEW t \in Task, DeleteTask(t) \/ RunNow(t) \/ DeleteRuns(t) \/ CronFires(t)
        PROVE  UNCHANGED <<poller, past, row>>
    BY <2>1 DEF DeleteTask, RunNow, DeleteRuns, CronFires
  <2> QED BY <1>3, <1>4, <1>6, <1>8, <2>1 DEF Route
<1>9. CASE \E q \in requests : Continue(q)
  <2>1. ASSUME NEW q \in requests, ApplyRequest(q) PROVE UNCHANGED <<poller, past, row>>
    BY <2>1 DEF ApplyRequest
  <2> QED BY <1>7, <1>9, <2>1 DEF Continue
<1>10. CASE (\E i \in Run : DeleteRun(i)) \/ BootMark \/ BootSelect \/ BootFails \/ Stop
  <2>1. UNCHANGED <<poller, past, row>>
    BY <1>10 DEF DeleteRun, BootMark, BootSelect, BootFails, Stop
  <2> QED BY <2>1
<1>11. CASE BootArm
  <2>1. PICK p \in Poller :
          poller' = [poller EXCEPT ![p] = [IdlePoller EXCEPT !.pc = "select", !.boot = TRUE]]
    BY <1>11 DEF BootArm
  <2>2. PICK x : x = [IdlePoller EXCEPT !.pc = "select", !.boot = TRUE]
    OBVIOUS
  <2>3. x.pc = "select" /\ x.due = {}
    BY <2>2 DEF IdlePoller
  <2>4. poller'[p] = x /\ \A q \in Poller \ {p} : poller'[q] = poller[q]
    BY <2>1, <2>2 DEF TypeOK
  <2>5. UNCHANGED <<row, past>>
    BY <1>11 DEF BootArm
  <2> QED BY <2>3, <2>4, <2>5
<1>12. CASE Restart
  <2>1. UNCHANGED <<row, past>> /\ poller' = [p \in Poller |-> IdlePoller]
    BY <1>12 DEF Restart
  <2> QED BY <2>1 DEF IdlePoller
<1> QED BY <1>2, <1>8, <1>9, <1>10, <1>11, <1>12 DEF Next, Boot

(* A task that nobody edits is started by its date at most once, whatever  *)
(* fails and whenever the process restarts, because the row is disabled    *)
(* before the run begins: with one poll at a time, the case when polls     *)
(* take less than their interval.                                          *)
THEOREM DateStartsOnce ==
  ASSUME \A p, q \in Poller : p = q
  PROVE  Spec => []OneOffOnce
<1>1. Init => OnceInv
  BY DEF Init, OnceInv, IdlePoller
<1>2. TypeOK /\ OnceInv /\ [Next]_vars => OnceInv'
  <2>1. SUFFICES ASSUME TypeOK, OnceInv, [Next]_vars PROVE OnceInv'
    OBVIOUS
  <2>2. CASE UNCHANGED vars
    <3>1. UNCHANGED <<poller, past, row>>
      BY <2>2 DEF vars, store
    <3> QED BY <2>1, <3>1, OnceKeeps
  <2>3. CASE \E p \in Poller : PollBegin(p) \/ Poll(p)
    BY <2>1, <2>3, OncePoll
  <2>4. CASE Next /\ \A p \in Poller : ~(PollBegin(p) \/ Poll(p))
    BY <2>1, <2>4, OnceRest, OnceKeeps
  <2> QED BY <2>1, <2>2, <2>3, <2>4
<1>3. OnceInv => OneOffOnce
  BY DEF OnceInv, OneOffOnce
<1> QED BY <1>1, <1>2, <1>3, TypeCorrect, PTL DEF Spec
=============================================================================
