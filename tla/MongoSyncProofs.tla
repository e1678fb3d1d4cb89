--------------------------- MODULE MongoSyncProofs ---------------------------
(***************************************************************************)
(* The types of MongoSync, and that it implements Replica, whatever the    *)
(* keys, contents, flushes and bounds.                                     *)
(*                                                                         *)
(* The invariant: what a token or the consumer has passed is in the buffer,*)
(* in a flush or in the index, or noted as lost.  A step is framed when it *)
(* makes no new position to read from, and keeps when what it moves stays  *)
(* under way or is shown; the few that do not have lemmas of their own.    *)
(***************************************************************************)
EXTENDS MongoSync, SequenceTheorems, TLAPS

-----------------------------------------------------------------------------
(* The types, one per variable *)

DocsType == docs \in [Key -> Cell] /\ oplog \in Seq(Event) /\ Len(oplog) <= MaxEvents
RowType == row \in Row
IndexType == index \in [Key -> Cell]
ConsumerType == consumer \in Consumer /\ stream \in BOOLEAN
BufferType == buffer \in Buffer
FlusherType == flusher \in [Flusher -> FlusherState]
RequestType == requests \in SUBSET Request
CountType == faults \in 0 .. MaxFaults /\ lost \in SUBSET Key

(* The type invariant is the conjunction of these parts.                   *)
LEMMA TypeParts ==
  TypeOK <=> /\ DocsType /\ RowType /\ IndexType /\ ConsumerType
             /\ BufferType /\ FlusherType /\ RequestType /\ CountType
BY DEF TypeOK, DocsType, RowType, IndexType, ConsumerType, BufferType, FlusherType,
       RequestType, CountType

(* What the bounds are, and the positions of the oplog.                    *)
LEMMA Bounds ==
  /\ MaxEvents \in Nat /\ MaxRequests \in Nat /\ MaxFaults \in Nat
  /\ 0 \in Position /\ Absent \notin Val /\ Absent \in Cell
BY ConstantsAssumption DEF Position, Cell

(* The oplog is never longer than its bound.                               *)
LEMMA OplogLength == DocsType => Len(oplog) \in Position
BY Bounds DEF DocsType, Position

(* Nothing to send, no buffer, no flush.                                   *)
LEMMA Empty ==
  /\ NoWork \in Work /\ NoBuffer \in Buffer /\ NewBuffer \in Buffer
  /\ IdleFlusher \in FlusherState /\ Idle \in Consumer
  /\ NoBuffer.work = NoWork /\ NewBuffer.work = NoWork /\ Touched(NoWork) = {}
  /\ NewBuffer.open = TRUE /\ NewBuffer.timer = FALSE
<1>1. NoWork \in Work
  BY Bounds DEF NoWork, Work
<1>2. NoBuffer \in Buffer /\ NoBuffer.work = NoWork
  BY <1>1 DEF NoBuffer, Buffer
<1>3. /\ NewBuffer \in Buffer /\ NewBuffer.work = NoWork
      /\ NewBuffer.open = TRUE /\ NewBuffer.timer = FALSE
  BY <1>2 DEF NewBuffer, NoBuffer, Buffer
<1>4. IdleFlusher \in FlusherState
  BY <1>1 DEF IdleFlusher, FlusherState
<1>5. Idle \in Consumer
  BY Bounds DEF Idle, Consumer, Streaming
<1>6. Touched(NoWork) = {}
  BY DEF Touched, NoWork
<1> QED
  BY <1>1, <1>2, <1>3, <1>4, <1>5, <1>6

(* Only changes of the source touch documents and oplog.                   *)
LEMMA DocsTypeStep == TypeOK /\ [Next]_vars => DocsType'
<1> SUFFICES ASSUME TypeOK, [Next]_vars PROVE DocsType'
  OBVIOUS
<1>t. DocsType
  BY TypeParts
<1>1. ASSUME NEW k \in Key, NEW v \in Cell, Write(k, v) PROVE DocsType'
  <2> DEFINE e == [key |-> k, val |-> v,
                   kind |-> IF v = Absent THEN "delete"
                            ELSE IF docs[k] = Absent THEN "insert" ELSE "update"]
  <2>1. docs' = [docs EXCEPT ![k] = v] /\ oplog' = Append(oplog, e) /\ Len(oplog) < MaxEvents
    BY <1>1 DEF Write
  <2>2. e \in Event
    BY DEF Event
  <2>3. oplog' \in Seq(Event) /\ Len(oplog') = Len(oplog) + 1
    BY <1>t, <2>1, <2>2 DEF DocsType
  <2>4. Len(oplog') <= MaxEvents
    BY <1>t, <2>1, <2>3, Bounds DEF DocsType
  <2> QED
    BY <1>t, <2>1, <2>3, <2>4 DEF DocsType
<1>2. ASSUME UNCHANGED source PROVE DocsType'
  BY <1>t, <1>2 DEF DocsType, source
<1>3. CASE Ask \/ Finish
  BY <1>2, <1>3 DEF Ask, Finish, CreateCollection, Pause, Resume, ResyncOrDelete, Reset, Unindex,
     Erase, Reconnect
<1>4. CASE \E r \in requests : Serve(r)
  BY <1>2, <1>4 DEF Serve, RemoveBegin, RemoveEnd, AddIgnored, SaveLate
<1>5. CASE Copy
  BY <1>2, <1>5 DEF Copy, SyncBegin, SyncCopy, SyncFinish, SyncWatch, AddCopy, AddStream
<1>6. CASE Consume \/ TimerFires
  <2>1. UNCHANGED source
    BY <1>6 DEF Consume, StreamOpens, TakeEvent, SaveToken, TimerFires
  <2> QED
    BY <1>2, <2>1
<1>7. CASE \E f \in Flusher : Send(f)
  BY <1>2, <1>7 DEF Send, SendUpserts, SendDeletes, FlushDone
<1>8. CASE Failure
  BY <1>2, <1>8 DEF Failure, SyncFails, TokenFails, StreamFails, FlushFails, Crash, Stop
<1>9. CASE UNCHANGED vars
  BY <1>2, <1>9 DEF vars
<1> QED
  BY <1>1, <1>3, <1>4, <1>5, <1>6, <1>7, <1>8, <1>9 DEF Next

(* The fields that handlers write in the collection row.                   *)
LEMMA RowFields ==
  ASSUME NEW q \in Row, NEW b \in BOOLEAN, NEW p \in Position
  PROVE  /\ [q EXCEPT !.state = "live"] \in Row /\ [q EXCEPT !.state = "deleted"] \in Row
         /\ [q EXCEPT !.enabled = b] \in Row /\ [q EXCEPT !.failed = b] \in Row
         /\ [q EXCEPT !.token = p] \in Row /\ [q EXCEPT !.failed = b, !.token = p] \in Row
BY DEF Row

(* The row keeps its type: tokens and flags come from typed places.        *)
LEMMA RowTypeStep == TypeOK /\ [Next]_vars => RowType'
<1> SUFFICES ASSUME TypeOK, [Next]_vars PROVE RowType'
  OBVIOUS
<1>t. row \in Row /\ consumer.at \in Position /\ \A r \in requests : r.token \in Position
  BY TypeParts DEF RowType, ConsumerType, Consumer, RequestType, Request
<1>1. ASSUME \/ UNCHANGED row
             \/ SetRow([row EXCEPT !.failed = FALSE]) \/ SetRow([row EXCEPT !.failed = TRUE])
             \/ SetRow([row EXCEPT !.failed = FALSE, !.token = 0])
             \/ \E p \in Position : SetRow([row EXCEPT !.token = p])
      PROVE  RowType'
  BY <1>1, <1>t, RowFields, Bounds DEF SetRow, RowType
<1>2. CASE Ask
  BY <1>1, <1>2, <1>t, RowFields DEF Ask, CreateCollection, Pause, Resume, ResyncOrDelete, RowType
<1>3. CASE Finish
  BY <1>1, <1>3, <1>t, RowFields DEF Finish, Reset, Unindex, Erase, Reconnect, RowType
<1>4. CASE \E r \in requests : Serve(r)
  BY <1>1, <1>4, <1>t DEF Serve, RemoveBegin, RemoveEnd, AddIgnored, SaveLate
<1>5. CASE Copy
  BY <1>1, <1>5 DEF Copy, SyncBegin, SyncCopy, SyncFinish, SyncWatch, AddCopy, AddStream
<1>6. CASE Consume \/ TimerFires
  BY <1>1, <1>6, <1>t DEF Consume, StreamOpens, TakeEvent, SaveToken, TimerFires
<1>7. CASE \E f \in Flusher : Send(f)
  BY <1>1, <1>7 DEF Send, SendUpserts, SendDeletes, FlushDone
<1>8. CASE Failure
  BY <1>1, <1>8 DEF Failure, SyncFails, TokenFails, StreamFails, FlushFails, Crash, Stop
<1>9. CASE UNCHANGED vars \/ \E k \in Key, v \in Cell : Write(k, v)
  BY <1>1, <1>9 DEF vars, Write
<1> QED
  BY <1>2, <1>3, <1>4, <1>5, <1>6, <1>7, <1>8, <1>9 DEF Next

(* Documents of the index are those of the source or of work sent.         *)
LEMMA IndexTypeStep == TypeOK /\ [Next]_vars => IndexType'
<1> SUFFICES ASSUME TypeOK, [Next]_vars PROVE IndexType'
  OBVIOUS
<1>t. /\ index \in [Key -> Cell] /\ docs \in [Key -> Cell] /\ buffer.work \in Work
      /\ \A f \in Flusher : flusher[f].work \in Work
  BY TypeParts DEF IndexType, DocsType, BufferType, Buffer, FlusherType, FlusherState
<1>1. ASSUME NEW w \in Work, NEW ix \in [Key -> Cell]
      PROVE  WithUpserts(ix, w) \in [Key -> Cell] /\ WithDeletes(ix, w) \in [Key -> Cell]
  BY Bounds DEF WithUpserts, WithDeletes, Work
<1>2. ASSUME \/ UNCHANGED index \/ index' \in [Key -> Cell] PROVE IndexType'
  BY <1>2, <1>t DEF IndexType
<1>3. CASE Ask \/ Finish
  BY <1>2, <1>3, Bounds DEF Ask, Finish, CreateCollection, Pause, Resume, ResyncOrDelete,
     Reset, Unindex, Erase, Reconnect
<1>4. CASE \E r \in requests : Serve(r)
  BY <1>2, <1>4 DEF Serve, RemoveBegin, RemoveEnd, AddIgnored, SaveLate
<1>5. CASE Copy
  BY <1>2, <1>5, <1>t DEF Copy, SyncBegin, SyncCopy, SyncFinish, SyncWatch, AddCopy, AddStream
<1>6. CASE Consume \/ TimerFires
  BY <1>2, <1>6 DEF Consume, StreamOpens, TakeEvent, SaveToken, TimerFires
<1>7. CASE \E f \in Flusher : Send(f)
  BY <1>1, <1>2, <1>7, <1>t DEF Send, SendUpserts, SendDeletes, FlushDone
<1>8. CASE Failure
  BY <1>1, <1>2, <1>8, <1>t DEF Failure, SyncFails, TokenFails, StreamFails, FlushFails, Crash, Stop
<1>9. CASE UNCHANGED vars \/ \E k \in Key, v \in Cell : Write(k, v)
  BY <1>2, <1>9 DEF vars, Write
<1> QED
  BY <1>3, <1>4, <1>5, <1>6, <1>7, <1>8, <1>9 DEF Next

(* The next step of the consumer, and where it stands.                     *)
LEMMA ConsumerStep ==
  ASSUME NEW q \in Consumer, NEW s \in {"idle", "sync", "copy", "finish"} \cup Streaming
  PROVE  [q EXCEPT !.pc = s] \in Consumer
BY DEF Consumer

(* The consumer moves to a position.                                       *)
LEMMA ConsumerAt ==
  ASSUME NEW q \in Consumer, NEW p \in Position,
         NEW s \in {"idle", "sync", "copy", "finish"} \cup Streaming
  PROVE  [q EXCEPT !.pc = s, !.at = p] \in Consumer
BY DEF Consumer

(* The consumer gets other keys to copy.                                   *)
LEMMA ConsumerTodo ==
  ASSUME NEW q \in Consumer, NEW D \in SUBSET Key
  PROVE  /\ [q EXCEPT !.pc = "copy", !.todo = D] \in Consumer
         /\ [q EXCEPT !.todo = D] \in Consumer
BY DEF Consumer

(* The consumer keeps its type.                                            *)
LEMMA ConsumerTypeStep == TypeOK /\ [Next]_vars => ConsumerType'
<1> SUFFICES ASSUME TypeOK, [Next]_vars PROVE ConsumerType'
  OBVIOUS
<1>t. /\ ConsumerType /\ consumer \in Consumer /\ stream \in BOOLEAN
      /\ \A r \in requests : r.token \in Position
      /\ consumer.todo \in SUBSET Key /\ consumer.at \in Position
      /\ Len(oplog) \in Position
  BY TypeParts, OplogLength DEF ConsumerType, Consumer, RequestType, Request
<1>1. ASSUME consumer' \in Consumer, stream' \in BOOLEAN PROVE ConsumerType'
  BY <1>1 DEF ConsumerType
<1>2. ASSUME UNCHANGED <<consumer, stream>> PROVE ConsumerType'
  BY <1>2, <1>t DEF ConsumerType
<1>3. CASE Ask \/ Finish
  BY <1>2, <1>3 DEF Ask, Finish, CreateCollection, Pause, Resume, ResyncOrDelete, Reset,
                    Unindex, Erase, Reconnect
<1>4. CASE \E r \in requests : Serve(r)
  BY <1>1, <1>2, <1>4, <1>t, Empty DEF Serve, RemoveBegin, RemoveEnd, AddIgnored, SaveLate
<1>5. CASE Copy
  <2>1. CASE SyncBegin \/ SyncFinish \/ \E r \in requests : AddCopy(r)
    <3>1. UNCHANGED stream /\ \/ consumer' = [consumer EXCEPT !.pc = "finish"]
                              \/ consumer' = [consumer EXCEPT !.pc = "sync"]
                              \/ consumer' = [consumer EXCEPT !.pc = "copy", !.todo = Key]
      BY <2>1 DEF SyncBegin, SyncFinish, AddCopy, Goto
    <3> QED
      BY <1>1, <1>t, <3>1, ConsumerStep, ConsumerTodo
  <2>2. CASE SyncCopy
    <3>1. PICK D \in SUBSET consumer.todo : consumer' = [consumer EXCEPT !.todo = @ \ D]
      BY <2>2 DEF SyncCopy
    <3>2. consumer.todo \ D \in SUBSET Key /\ stream' = stream
      BY <2>2, <1>t DEF SyncCopy
    <3> QED
      BY <1>1, <1>t, <3>1, <3>2, ConsumerTodo
  <2>3. CASE SyncWatch
    BY <1>1, <2>3, Empty, ConsumerStep DEF SyncWatch, Streaming
  <2>4. ASSUME NEW r \in requests, AddStream(r) PROVE ConsumerType'
    BY <1>1, <2>4, <1>t, Empty, ConsumerAt DEF AddStream, Streaming
  <2> QED
    BY <1>5, <2>1, <2>2, <2>3, <2>4 DEF Copy
<1>6. CASE StreamOpens
  <2>1. /\ UNCHANGED stream
        /\ consumer' = [consumer EXCEPT !.pc = "open", !.at = IF @ = 0 THEN Len(oplog) ELSE @]
    BY <1>6 DEF StreamOpens
  <2>2. (IF consumer.at = 0 THEN Len(oplog) ELSE consumer.at) \in Position
    BY <1>t
  <2> QED
    BY <1>1, <1>t, <2>1, <2>2, ConsumerAt DEF Streaming
<1>7. CASE TakeEvent
  <2>1. /\ UNCHANGED stream /\ consumer.at < Len(oplog)
        /\ consumer' = [consumer EXCEPT !.pc = "token", !.at = consumer.at + 1]
    BY <1>7 DEF TakeEvent
  <2>2. consumer.at + 1 \in Position
    BY <1>t, <2>1, Bounds DEF Position
  <2> QED
    BY <1>1, <1>t, <2>1, <2>2, ConsumerAt DEF Streaming
<1>8. CASE SaveToken
  BY <1>1, <1>8, <1>t, ConsumerStep DEF SaveToken, Goto, Streaming
<1>9. CASE TimerFires \/ UNCHANGED vars \/ \E k \in Key, v \in Cell : Write(k, v)
  BY <1>2, <1>9 DEF TimerFires, vars, Write
<1>10. ASSUME NEW f \in Flusher, Send(f) \/ FlushFails(f) PROVE ConsumerType'
  BY <1>1, <1>10, <1>t, ConsumerStep, ZenonT(60)
     DEF Send, SendUpserts, SendDeletes, FlushDone, FlushFails, Done, Streaming
<1>11. CASE SyncFails \/ TokenFails \/ StreamFails \/ Crash \/ Stop
  BY <1>1, <1>11, <1>t, Empty, ConsumerStep, ZenonT(60)
     DEF SyncFails, TokenFails, StreamFails, Crash, Stop, StartAgain, Goto, Streaming
<1> QED
  BY <1>3, <1>4, <1>5, <1>6, <1>7, <1>8, <1>9, <1>10, <1>11 DEF Next, Consume, Failure

(* What a handler does to a buffer.                                        *)
LEMMA BufferFields ==
  ASSUME NEW q \in Buffer, NEW b \in BOOLEAN, NEW w \in Work
  PROVE  [q EXCEPT !.timer = b] \in Buffer /\ [q EXCEPT !.work = w] \in Buffer
BY DEF Buffer

(* An event that is put into work leaves work.                             *)
LEMMA BufferedWork ==
  ASSUME NEW w \in Work, NEW e \in Event, NEW v \in Cell
  PROVE  Buffered(w, e, v) \in Work
BY DEF Buffered, Work, Event

(* The content that an event is delivered with is one that the oplog has.  *)
LEMMA DeliveredCell ==
  ASSUME oplog \in Seq(Event), NEW i \in 1 .. Len(oplog)
  PROVE  Delivered(i) \subseteq Cell
<1>1. \A j \in 1 .. Len(oplog) : oplog[j] \in Event
  BY ElementOfSeq
<1>2. \A j \in i .. Len(oplog) : j \in 1 .. Len(oplog)
  BY LenProperties
<1> QED
  BY <1>1, <1>2 DEF Delivered, Event

(* Work that goes back into the buffer merges with what is there.          *)
LEMMA MergedWork ==
  ASSUME NEW w \in Work, NEW new \in Work
  PROVE  Merged(w, new) \in Work
BY DEF Merged, Work

(* The buffer keeps its type.                                              *)
LEMMA BufferTypeStep == TypeOK /\ [Next]_vars => BufferType'
<1> SUFFICES ASSUME TypeOK, [Next]_vars PROVE BufferType'
  OBVIOUS
<1>t. /\ BufferType /\ buffer \in Buffer /\ buffer.open \in BOOLEAN /\ buffer.work \in Work
      /\ oplog \in Seq(Event) /\ consumer.at \in Position
      /\ \A f \in Flusher : flusher[f].work \in Work
  BY TypeParts DEF BufferType, Buffer, DocsType, FlusherType, FlusherState,
     ConsumerType, Consumer
<1>1. ASSUME UNCHANGED buffer \/ buffer' \in Buffer PROVE BufferType'
  BY <1>1, <1>t DEF BufferType
<1>2. ASSUME Flush(TRUE) \/ Flush(FALSE) \/ ArmTimer PROVE BufferType'
  BY <1>1, <1>2, <1>t, Empty, BufferFields DEF Flush, ArmTimer
<1>3. CASE Ask \/ Finish
  BY <1>1, <1>3 DEF Ask, Finish, CreateCollection, Pause, Resume, ResyncOrDelete, Reset,
                    Unindex, Erase, Reconnect
<1>4. CASE \E r \in requests : Serve(r)
  BY <1>1, <1>2, <1>4, Empty DEF Serve, RemoveBegin, RemoveEnd, AddIgnored, SaveLate, ReplaceBuffer
<1>5. CASE Copy
  BY <1>1, <1>5, Empty
     DEF Copy, SyncBegin, SyncCopy, SyncFinish, SyncWatch, AddCopy, AddStream, ReplaceBuffer
<1>6. CASE StreamOpens \/ SaveToken \/ TimerFires
  BY <1>1, <1>2, <1>6 DEF StreamOpens, SaveToken, TimerFires
<1>7. CASE TakeEvent
  <2> DEFINE i == consumer.at + 1
  <2>1. /\ consumer.at < Len(oplog)
        /\ \E v \in Delivered(i) : buffer' = [buffer EXCEPT !.work = Buffered(@, oplog[i], v)]
    BY <1>7 DEF TakeEvent
  <2>2. i \in 1 .. Len(oplog) /\ oplog[i] \in Event
    BY <1>t, <2>1, LenProperties DEF Position
  <2>3. PICK v \in Cell : buffer' = [buffer EXCEPT !.work = Buffered(@, oplog[i], v)]
    BY <1>t, <2>1, <2>2, DeliveredCell
  <2>4. Buffered(buffer.work, oplog[i], v) \in Work
    BY <1>t, <2>2, BufferedWork
  <2> QED
    BY <1>1, <1>t, <2>3, <2>4, BufferFields
<1>8. ASSUME NEW f \in Flusher, FlushFails(f) PROVE BufferType'
  BY <1>1, <1>8, <1>t, MergedWork, BufferFields, ZenonT(60) DEF FlushFails
<1>9. CASE \E f \in Flusher : Send(f)
  BY <1>1, <1>9 DEF Send, SendUpserts, SendDeletes, FlushDone
<1>10. CASE SyncFails \/ TokenFails \/ StreamFails \/ Crash \/ Stop
  BY <1>1, <1>10, Empty DEF SyncFails, TokenFails, StreamFails, Crash, Stop, StartAgain
<1>11. CASE UNCHANGED vars \/ \E k \in Key, v \in Cell : Write(k, v)
  BY <1>1, <1>11 DEF vars, Write
<1> QED
  BY <1>3, <1>4, <1>5, <1>6, <1>7, <1>8, <1>9, <1>10, <1>11 DEF Next, Consume, Failure

(* What a step does to a flush.                                            *)
LEMMA FlusherFields ==
  ASSUME NEW q \in FlusherState, NEW b \in BOOLEAN, NEW w \in Work
  PROVE  /\ [q EXCEPT !.alive = FALSE, !.awaited = FALSE] \in FlusherState
         /\ [q EXCEPT !.awaited = FALSE] \in FlusherState
         /\ \A s \in {"upserts", "deletes", "status"} : [q EXCEPT !.pc = s] \in FlusherState
         /\ \A s \in {"upserts", "deletes"} :
              [pc |-> s, work |-> w, alive |-> TRUE, awaited |-> b] \in FlusherState
BY DEF FlusherState

(* Flushes keep their types, and take over typed work.                     *)
LEMMA FlusherTypeStep == TypeOK /\ [Next]_vars => FlusherType'
<1> SUFFICES ASSUME TypeOK, [Next]_vars PROVE FlusherType'
  OBVIOUS
<1>t. flusher \in [Flusher -> FlusherState] /\ buffer.work \in Work
  BY TypeParts DEF FlusherType, BufferType, Buffer
<1>1. ASSUME UNCHANGED flusher \/ flusher' \in [Flusher -> FlusherState] PROVE FlusherType'
  BY <1>1, <1>t DEF FlusherType
<1>2. ASSUME NEW f \in Flusher, NEW q \in FlusherState, flusher' = [flusher EXCEPT ![f] = q]
      PROVE  FlusherType'
  BY <1>1, <1>2, <1>t
<1>3. ASSUME NEW b, NEW passed, ReplaceBuffer(b, passed) PROVE FlusherType'
  BY <1>1, <1>3, <1>t, FlusherFields DEF ReplaceBuffer
<1>4. ASSUME NEW b \in BOOLEAN, Flush(b) PROVE FlusherType'
  <2>1. CASE UNCHANGED flusher
    BY <1>1, <2>1
  <2>2. CASE ~UNCHANGED flusher
    <3>1. PICK s \in {"upserts", "deletes"}, f \in Flusher :
            flusher' = [flusher EXCEPT ![f] =
              [pc |-> s, work |-> buffer.work, alive |-> TRUE, awaited |-> b]]
      BY <1>4, <2>2 DEF Flush
    <3> QED
      BY <1>2, <1>t, <3>1, FlusherFields
  <2> QED
    BY <2>1, <2>2
<1>5. CASE Ask \/ Finish
  BY <1>1, <1>5 DEF Ask, Finish, CreateCollection, Pause, Resume, ResyncOrDelete, Reset,
                    Unindex, Erase, Reconnect
<1>6. ASSUME NEW r \in requests, Serve(r) PROVE FlusherType'
  <2>1. CASE RemoveBegin(r)
    <3>1. \/ \E b, passed : ReplaceBuffer(b, passed)
          \/ flusher' = [f \in Flusher |-> [flusher[f] EXCEPT !.awaited = FALSE]]
      BY <2>1 DEF RemoveBegin
    <3> QED
      BY <1>1, <1>3, <1>t, <3>1, FlusherFields, ZenonT(60)
  <2>2. CASE RemoveEnd(r)
    BY <1>3, <2>2 DEF RemoveEnd
  <2>3. CASE AddIgnored(r)
    BY <1>1, <2>3 DEF AddIgnored
  <2>4. CASE SaveLate(r)
    BY <1>1, <1>4, <2>4 DEF SaveLate, ArmTimer
  <2> QED
    BY <1>6, <2>1, <2>2, <2>3, <2>4 DEF Serve
<1>7. CASE Copy
  BY <1>1, <1>3, <1>7 DEF Copy, SyncBegin, SyncCopy, SyncFinish, SyncWatch, AddCopy, AddStream
<1>8. CASE Consume \/ TimerFires
  BY <1>1, <1>4, <1>8 DEF Consume, StreamOpens, TakeEvent, SaveToken, TimerFires, ArmTimer
<1>9. ASSUME NEW f \in Flusher, Send(f) \/ FlushFails(f) PROVE FlusherType'
  <2>1. flusher[f] \in FlusherState
    BY <1>t
  <2>2. \/ flusher' = [flusher EXCEPT ![f] = IdleFlusher]
        \/ \E s \in {"status", "deletes"} :
             flusher' = [flusher EXCEPT ![f] = [flusher[f] EXCEPT !.pc = s]]
    BY <1>9, <1>t DEF Send, SendUpserts, SendDeletes, FlushDone, FlushFails, Done
  <2> QED
    BY <1>2, <2>1, <2>2, FlusherFields, Empty
<1>10. CASE SyncFails \/ TokenFails \/ StreamFails \/ Crash \/ Stop
  BY <1>1, <1>10, Empty DEF SyncFails, TokenFails, StreamFails, Crash, Stop, StartAgain
<1>11. CASE UNCHANGED vars \/ \E k \in Key, v \in Cell : Write(k, v)
  BY <1>1, <1>11 DEF vars, Write
<1> QED
  BY <1>5, <1>6, <1>7, <1>8, <1>9, <1>10, <1>11 DEF Next, Failure

(* The requests there are.                                                 *)
LEMMA RequestKinds ==
  /\ \A s \in {"add", "remove", "close", "reset", "unindex", "erase", "reconnect", "late"} :
       At(s) \in Request /\ At(s).token = 0 /\ At(s).step = s /\ At(s).then = "done"
  /\ \A p \in Position : /\ Add(p) \in Request /\ Add(p).token = p /\ Add(p).step = "add"
                         /\ Late(p) \in Request /\ Late(p).token = p /\ Late(p).step = "late"
                         /\ Add(p).then = "done" /\ Late(p).then = "done"
  /\ \A s \in {"done", "reset", "unindex"} :
       /\ Remove(s) \in Request /\ Remove(s).token = 0
       /\ Remove(s).step = "remove" /\ Remove(s).then = s
<1>1. \A s \in {"add", "remove", "close", "reset", "unindex", "erase", "reconnect", "late"} :
        At(s) \in Request /\ At(s).token = 0 /\ At(s).step = s /\ At(s).then = "done"
  BY Bounds DEF At, Request
<1>2. \A p \in Position : /\ Add(p) \in Request /\ Add(p).token = p /\ Add(p).step = "add"
                          /\ Late(p) \in Request /\ Late(p).token = p /\ Late(p).step = "late"
                          /\ Add(p).then = "done" /\ Late(p).then = "done"
  BY Bounds DEF Add, Late, At, Request
<1>3. \A s \in {"done", "reset", "unindex"} :
        /\ Remove(s) \in Request /\ Remove(s).token = 0
        /\ Remove(s).step = "remove" /\ Remove(s).then = s
  BY Bounds DEF Remove, At, Request
<1> QED
  BY <1>1, <1>2, <1>3

(* A request that goes on to its next step is a request.                   *)
LEMMA RequestStep ==
  ASSUME NEW r \in Request
  PROVE  /\ [r EXCEPT !.step = "close"] \in Request
         /\ [r EXCEPT !.step = "close"].token = r.token /\ [r EXCEPT !.step = "close"].then = r.then
         /\ After(r) \subseteq Request /\ \A q \in After(r) : q.token = 0
<1>1. /\ [r EXCEPT !.step = "close"] \in Request
      /\ [r EXCEPT !.step = "close"].token = r.token /\ [r EXCEPT !.step = "close"].then = r.then
  BY DEF Request
<1>2. r.then = "done" \/ r.then = "reset" \/ r.then = "unindex"
  BY DEF Request
<1>3. After(r) \subseteq Request /\ \A q \in After(r) : q.token = 0
  BY <1>2, RequestKinds DEF After
<1> QED
  BY <1>1, <1>3

(* Requests keep their types.                                              *)
LEMMA RequestTypeStep == TypeOK /\ [Next]_vars => RequestType'
<1> SUFFICES ASSUME TypeOK, [Next]_vars PROVE RequestType'
  OBVIOUS
<1>t. /\ requests \subseteq Request /\ row.token \in Position /\ consumer.at \in Position
  BY TypeParts DEF RequestType, RowType, Row, ConsumerType, Consumer
<1>1. ASSUME NEW new \in SUBSET Request, requests' \subseteq requests \cup new PROVE RequestType'
  BY <1>1, <1>t DEF RequestType
<1>2. ASSUME NEW old, NEW new \in SUBSET Request, Become(old, new) PROVE RequestType'
  BY <1>1, <1>2 DEF Become
<1>3. CASE Ask
  <2>1. \E r \in {Add(0), Remove("done"), Add(row.token), Remove("reset"), Remove("unindex"),
                  At("unindex")} : requests' = requests \cup {r}
    BY <1>3 DEF Ask, CreateCollection, Pause, Resume, ResyncOrDelete
  <2>2. {Add(0), Remove("done"), Add(row.token), Remove("reset"), Remove("unindex"),
         At("unindex")} \subseteq Request
    BY <1>t, RequestKinds, Bounds
  <2> QED
    BY <1>t, <2>1, <2>2 DEF RequestType
<1>4. CASE Finish
  <2>1. \E old, new : Become(old, new) /\ new \in {{}, {Add(0)}, {At("erase")}, {Add(row.token)}}
    BY <1>4 DEF Finish, Reset, Unindex, Erase, Reconnect
  <2>2. \A new \in {{}, {Add(0)}, {At("erase")}, {Add(row.token)}} : new \in SUBSET Request
    BY <1>t, RequestKinds, Bounds
  <2> QED
    BY <1>2, <2>1, <2>2
<1>5. ASSUME NEW r \in requests, Serve(r) PROVE RequestType'
  <2>1. CASE RemoveBegin(r)
    <3>1. \E late \in {{}, {Late(consumer.at)}} :
            Become(r, late \cup {[r EXCEPT !.step = "close"]}) \/ Become(r, late \cup After(r))
      BY <2>1 DEF RemoveBegin
    <3>2. {Late(consumer.at)} \subseteq Request /\ {[r EXCEPT !.step = "close"]} \subseteq Request
          /\ After(r) \subseteq Request
      BY <1>t, RequestKinds, RequestStep
    <3> QED
      BY <1>2, <3>1, <3>2
  <2>2. CASE RemoveEnd(r)
    BY <1>2, <1>t, <2>2, RequestStep DEF RemoveEnd
  <2>3. CASE AddIgnored(r) \/ SaveLate(r)
    BY <1>2, <2>3 DEF AddIgnored, SaveLate
  <2> QED
    BY <1>5, <2>1, <2>2, <2>3 DEF Serve
<1>6. CASE Copy
  <2>1. requests' \subseteq requests
    BY <1>6 DEF Copy, SyncBegin, SyncCopy, SyncFinish, SyncWatch, AddCopy, AddStream, Become
  <2> QED
    BY <1>1, <2>1
<1>7. CASE UNCHANGED requests
  BY <1>t, <1>7 DEF RequestType
<1>8. CASE Consume \/ TimerFires
  BY <1>7, <1>8 DEF Consume, StreamOpens, TakeEvent, SaveToken, TimerFires
<1>9. ASSUME NEW f \in Flusher, Send(f) \/ FlushFails(f) PROVE RequestType'
  BY <1>7, <1>9 DEF Send, SendUpserts, SendDeletes, FlushDone, FlushFails
<1>10. CASE SyncFails \/ TokenFails
  BY <1>7, <1>10 DEF SyncFails, TokenFails
<1>11. CASE StreamFails
  <2>1. requests' = requests \cup {At("reconnect")} \/ requests' = requests \cup {Remove("reset")}
    BY <1>11 DEF StreamFails
  <2>2. At("reconnect") \in Request /\ Remove("reset") \in Request
    BY RequestKinds
  <2> QED
    BY <1>t, <2>1, <2>2 DEF RequestType
<1>12. CASE Crash \/ Stop
  <2>1. requests' = {Add(row.token)} \/ requests' = {}
    BY <1>12 DEF Crash, Stop, StartAgain
  <2> QED
    BY <1>t, <2>1, RequestKinds DEF RequestType
<1>13. CASE UNCHANGED vars \/ \E k \in Key, v \in Cell : Write(k, v)
  BY <1>7, <1>13 DEF vars, Write
<1> QED
  BY <1>3, <1>4, <1>5, <1>6, <1>8, <1>9, <1>10, <1>11, <1>12, <1>13 DEF Next, Failure

(* Failures stay within their bound, and lost keys are keys.               *)
LEMMA CountTypeStep == TypeOK /\ [Next]_vars => CountType'
<1> SUFFICES ASSUME TypeOK, [Next]_vars PROVE CountType'
  OBVIOUS
<1>t. /\ faults \in 0 .. MaxFaults /\ lost \subseteq Key /\ oplog \in Seq(Event)
      /\ buffer.work \in Work /\ \A f \in Flusher : flusher[f].work \in Work
      /\ consumer.todo \subseteq Key /\ consumer.at \in Position
  BY TypeParts DEF CountType, DocsType, BufferType, Buffer, FlusherType, FlusherState,
     ConsumerType, Consumer
<1>w. \A w \in Work : Touched(w) \subseteq Key /\ w.dels \subseteq Key
  BY DEF Work, Touched
<1>h. InHand \subseteq Key
  BY <1>t, <1>w DEF InHand
<1>l. \A i \in 1 .. Len(oplog) : oplog[i].key \in Key
  <2>1. \A i \in 1 .. Len(oplog) : oplog[i] \in Event
    BY <1>t, ElementOfSeq
  <2> QED
    BY <2>1 DEF Event
<1>1. ASSUME UNCHANGED faults \/ Fault, lost' \subseteq Key PROVE CountType'
  BY <1>1, <1>t, Bounds DEF CountType, Fault
<1>2. ASSUME NEW b, NEW passed \in SUBSET Key, ReplaceBuffer(b, passed) PROVE lost' \subseteq Key
  BY <1>2, <1>t, <1>w DEF ReplaceBuffer
<1>3. ASSUME NEW b, Flush(b) PROVE lost' \subseteq Key
  BY <1>3, <1>t, <1>w DEF Flush
<1>4. CASE Ask \/ Finish
  BY <1>1, <1>4, <1>t DEF Ask, Finish, CreateCollection, Pause, Resume, ResyncOrDelete, Reset,
                          Unindex, Erase, Reconnect
<1>5. CASE \E r \in requests : Serve(r)
  BY <1>1, <1>2, <1>3, <1>5, <1>t DEF Serve, RemoveBegin, RemoveEnd, AddIgnored, SaveLate, ArmTimer
<1>6. CASE Copy
  <2>1. ASSUME NEW r \in requests, AddStream(r) PROVE CountType'
    <3>1. Passed(r.token) \subseteq Key
      BY <1>l DEF Passed
    <3> QED
      BY <1>1, <1>2, <2>1, <3>1 DEF AddStream
  <2>2. CASE SyncCopy
    <3>1. PICK D \in SUBSET consumer.todo :
            /\ lost' = (lost \ D) \cup
                 {k \in D : index'[k] # docs[k] \/ k \in Touched(buffer.work) \cup InHand}
            /\ UNCHANGED faults
      BY <2>2 DEF SyncCopy
    <3> QED
      BY <1>1, <1>t, <3>1
  <2>3. CASE SyncWatch
    BY <1>1, <1>2, <2>3 DEF SyncWatch
  <2>4. CASE SyncBegin \/ SyncFinish \/ \E r \in requests : AddCopy(r)
    BY <1>1, <1>t, <2>4 DEF SyncBegin, SyncFinish, AddCopy
  <2> QED
    BY <1>6, <2>1, <2>2, <2>3, <2>4 DEF Copy
<1>7. CASE TakeEvent
  <2>1. /\ UNCHANGED faults /\ consumer.at < Len(oplog)
        /\ lost' \subseteq lost \cup {oplog[consumer.at + 1].key}
    BY <1>7 DEF TakeEvent
  <2>2. consumer.at + 1 \in 1 .. Len(oplog)
    BY <1>t, <2>1, LenProperties DEF Position
  <2> QED
    BY <1>1, <1>t, <1>l, <2>1, <2>2
<1>8. CASE StreamOpens \/ SaveToken \/ TimerFires
  BY <1>1, <1>3, <1>8, <1>t DEF StreamOpens, SaveToken, TimerFires, ArmTimer
<1>9. ASSUME NEW f \in Flusher, Send(f) PROVE CountType'
  BY <1>1, <1>9, <1>t DEF Send, SendUpserts, SendDeletes, FlushDone
<1>10. ASSUME NEW f \in Flusher, FlushFails(f) PROVE CountType'
  BY <1>1, <1>10, <1>t, <1>w DEF FlushFails
<1>11. CASE SyncFails \/ TokenFails \/ StreamFails \/ Crash \/ Stop
  BY <1>1, <1>11, <1>t, <1>w, <1>h DEF SyncFails, TokenFails, StreamFails, Crash, Stop
<1>12. CASE UNCHANGED vars \/ \E k \in Key, v \in Cell : Write(k, v)
  BY <1>1, <1>12, <1>t, ZenonT(60) DEF vars, Write
<1> QED
  BY <1>4, <1>5, <1>6, <1>7, <1>8, <1>9, <1>10, <1>11, <1>12 DEF Next, Consume, Failure

(* Every variable keeps its type, for any keys, contents and flushes.      *)
THEOREM TypeCorrect == Spec => []TypeOK
<1>1. Init => TypeOK
  <2> SUFFICES ASSUME Init PROVE TypeOK
    OBVIOUS
  <2>1. oplog \in Seq(Event) /\ Len(oplog) <= MaxEvents
    BY Bounds, EmptySeq DEF Init
  <2>2. row \in Row /\ faults \in 0 .. MaxFaults
    BY Bounds DEF Init, Row
  <2> QED
    BY <2>1, <2>2, Bounds, Empty DEF Init, TypeOK
<1>2. TypeOK /\ [Next]_vars => TypeOK'
  BY DocsTypeStep, RowTypeStep, IndexTypeStep, ConsumerTypeStep, BufferTypeStep, FlusherTypeStep,
     RequestTypeStep, CountTypeStep
     DEF TypeOK, DocsType, RowType, IndexType, ConsumerType, BufferType, FlusherType,
         RequestType, CountType
<1> QED
  BY <1>1, <1>2, PTL DEF Spec

-----------------------------------------------------------------------------
(* The invariant: whatever a token or the consumer has passed is shown, on *)
(* its way in a buffer or a flush, or lost.                                *)

(* What the index holds for a key once work w has been sent.               *)
Value(w, k) == IF k \in w.dels THEN Absent ELSE w.ups[k]

(* Does the consumer know where in the oplog it stands; is it copying, or  *)
(* between the copy and the opening of the stream.                         *)
Knows == consumer.pc \in Streaming /\ (consumer.pc = "watch" => consumer.at # 0)
Copying == consumer.pc \in {"copy", "finish"} \/ (consumer.pc = "watch" /\ consumer.at = 0)

(* The positions from which a stream reads on, or may once.                *)
Positions == Tokens \cup {p \in {consumer.at} : Knows}
ReadTo(k, p) == \A i \in 1 .. Len(oplog) : oplog[i].key = k => i <= p
Covered(k) == \E p \in Positions : ReadTo(k, p)

(* What is under way for k ends with the document of k.                    *)
BufferShows(k) == k \in Touched(buffer.work) => Value(buffer.work, k) = docs[k]
FlushShows(k) ==
  k \notin Touched(buffer.work) =>
    \A f \in Flusher : k \in Touched(flusher[f].work) =>
      /\ Value(flusher[f].work, k) = docs[k]
      /\ \/ flusher[f].pc = "upserts"
         \/ flusher[f].pc = "deletes" /\ k \in flusher[f].work.dels
         \/ index[k] = docs[k]
      /\ \A g \in Flusher : k \in Touched(flusher[g].work) => g = f
Still(k) == k \notin Touched(buffer.work) /\ \A f \in Flusher : k \notin Touched(flusher[f].work)
Shows(k) == BufferShows(k) /\ FlushShows(k) /\ (Still(k) => index[k] = docs[k])
Quiet(k) == index[k] = docs[k] /\ Still(k)

(* The last event of a key carries its document.                           *)
OplogInv ==
  \A i \in 1 .. Len(oplog) :
    /\ oplog[i].kind = "delete" <=> oplog[i].val = Absent
    /\ ReadTo(oplog[i].key, i) => oplog[i].val = docs[oplog[i].key]

ControlInv ==
  /\ row.state = "none" => requests = {} /\ consumer.pc = "idle" /\ row.token = 0
  /\ consumer.pc \in {"finish", "watch"} => consumer.todo = {}
  /\ \A f \in Flusher :
       /\ flusher[f].pc = "idle" => flusher[f].work = NoWork
       /\ flusher[f].awaited => /\ consumer.pc = "flush"
                                /\ \A g \in Flusher : flusher[g].awaited => g = f

PositionInv == \A p \in Positions : p <= Len(oplog)

(* Nothing is read twice that is not lost, or changed again since.         *)
RereadInv ==
  Knows => \A k \in Key \ lost, p \in Positions, i \in 1 .. Len(oplog) :
             i <= p /\ oplog[i].key = k /\ ReadTo(k, p) => i <= consumer.at

CopyInv == Copying => \A k \in Key \ (consumer.todo \cup lost) : Quiet(k)

ShowInv == Live => \A k \in Key \ lost : Covered(k) => Shows(k)

IInv == OplogInv /\ ControlInv /\ PositionInv /\ RereadInv /\ CopyInv /\ ShowInv

(* The oplog holds events.                                                 *)
LEMMA OplogTypes == TypeOK => \A i \in 1 .. Len(oplog) : oplog[i] \in Event
BY ElementOfSeq, TypeParts DEF DocsType

(* How most steps move the consumer, the tokens and the row.               *)
Frame ==
  /\ UNCHANGED source /\ (Live' => Live)
  /\ Positions' \subseteq Positions
  /\ Knows' => Knows /\ consumer'.at = consumer.at
  /\ Copying' => (Copying /\ consumer.todo \subseteq consumer'.todo) \/ Key \subseteq consumer'.todo

(* No new position, when tokens come from positions that are there.        *)
LEMMA PositionsKept ==
  ASSUME Knows' => Knows /\ consumer'.at = consumer.at,
         row'.token \in Positions \cup {0},
         \A r \in requests' : r.token \in Positions \cup {0}
  PROVE  Positions' \subseteq Positions
BY DEF Positions, Tokens

(* Tokens that are held, and the place of the consumer, are positions.     *)
LEMMA OldTokens ==
  /\ row.token \in Positions \cup {0}
  /\ \A r \in requests : r.token \in Positions \cup {0}
  /\ Knows => consumer.at \in Positions
BY DEF Positions, Tokens

(* A write to the row changes no state, and at most stores a given token.  *)
LEMMA SetRowFields ==
  ASSUME RowType, NEW b, NEW p
  PROVE  /\ SetRow([row EXCEPT !.failed = b]) => row'.token = row.token /\ row'.state = row.state
         /\ SetRow([row EXCEPT !.failed = b, !.token = p]) =>
              row'.token \in {row.token, p} /\ row'.state = row.state
         /\ SetRow([row EXCEPT !.token = p]) =>
              row'.token \in {row.token, p} /\ row'.state = row.state
BY DEF SetRow, RowType, Row

(* Requests only come with tokens that are there already.                  *)
LEMMA AskFrame ==
  ASSUME TypeOK, Pause \/ Resume \/ ResyncOrDelete
  PROVE  Frame
<1>t. RowType /\ row.token \in Position
  BY TypeParts DEF RowType, Row
<1>1. UNCHANGED <<source, consumer>>
  BY DEF Pause, Resume, ResyncOrDelete
<1>2. row'.token = row.token /\ row'.state = row.state
  BY <1>t DEF Pause, Resume, ResyncOrDelete, RowType, Row
<1>3. \A r \in requests' : r \in requests \/ r.token \in {0, row.token}
  BY <1>t, RequestKinds DEF Pause, Resume, ResyncOrDelete
<1>4. (Knows' <=> Knows) /\ (Copying' <=> Copying)
  BY <1>1 DEF Knows, Copying
<1>5. Positions' \subseteq Positions
  BY <1>1, <1>2, <1>3, <1>4, PositionsKept, OldTokens
<1> QED
  BY <1>1, <1>2, <1>4, <1>5 DEF Frame, Live

(* The later steps of requests hand on tokens that are there.              *)
LEMMA FinishFrame ==
  ASSUME TypeOK, Finish
  PROVE  Frame
<1>t. RowType /\ row.token \in Position
  BY TypeParts DEF RowType, Row
<1>1. UNCHANGED <<source, consumer>>
  BY DEF Finish, Reset, Unindex, Erase, Reconnect
<1>2. row'.token \in {row.token, 0} /\ (row'.state = "live" => row.state = "live")
  <2>1. CASE Reset
    BY <2>1, <1>t, SetRowFields DEF Reset
  <2>2. CASE Erase
    BY <2>2, <1>t DEF Erase, RowType, Row
  <2>3. CASE Unindex \/ Reconnect
    BY <2>3 DEF Unindex, Reconnect
  <2> QED
    BY <2>1, <2>2, <2>3 DEF Finish
<1>3. \A r \in requests' : r \in requests \/ r.token \in {0, row.token}
  <2>1. Add(0).token = 0 /\ Add(row.token).token = row.token /\ At("erase").token = 0
    BY <1>t, RequestKinds, Bounds
  <2>2. \E old : requests' \subseteq (requests \ {old}) \cup {Add(0), Add(row.token), At("erase")}
    BY DEF Finish, Reset, Unindex, Erase, Reconnect, Become
  <2> QED
    BY <2>1, <2>2
<1>4. (Knows' <=> Knows) /\ (Copying' <=> Copying)
  BY <1>1 DEF Knows, Copying
<1>5. Positions' \subseteq Positions
  BY <1>1, <1>2, <1>3, <1>4, PositionsKept, OldTokens
<1> QED
  BY <1>1, <1>2, <1>4, <1>5 DEF Frame, Live

(* Removing a stream may leave its token to an old handler.                *)
LEMMA ServeFrame ==
  ASSUME TypeOK, NEW r \in requests, Serve(r)
  PROVE  Frame
<1>t. /\ RowType /\ ConsumerType /\ requests \subseteq Request
      /\ consumer.at \in Position
  BY TypeParts DEF RequestType, ConsumerType, Consumer
<1>1. UNCHANGED source
  BY DEF Serve, RemoveBegin, RemoveEnd, AddIgnored, SaveLate
<1>2. row'.token \in {row.token, r.token} /\ row'.state = row.state
  BY <1>t, SetRowFields DEF Serve, RemoveBegin, RemoveEnd, AddIgnored, SaveLate
<1>3. UNCHANGED consumer \/ consumer' = Idle
  BY DEF Serve, RemoveBegin, RemoveEnd, AddIgnored, SaveLate
<1>4. Idle.pc = "idle"
  BY DEF Idle
<1>5. /\ Knows' => Knows /\ consumer'.at = consumer.at
      /\ Copying' => Copying /\ consumer'.todo = consumer.todo
  BY <1>3, <1>4 DEF Knows, Copying, Streaming
<1>6. \A q \in requests' : q.token \in Positions \cup {0}
  <2>1. /\ [r EXCEPT !.step = "close"].token = r.token /\ \A q \in After(r) : q.token = 0
        /\ Late(consumer.at).token = consumer.at
    BY <1>t, RequestStep, RequestKinds
  <2>2. CASE RemoveBegin(r)
    <3>1. \A q \in requests' : \/ q \in requests \/ q \in After(r)
                               \/ q = [r EXCEPT !.step = "close"]
                               \/ consumer.pc = "token" /\ q = Late(consumer.at)
      BY <2>2 DEF RemoveBegin, Become
    <3>2. consumer.pc = "token" => Knows
      BY DEF Knows, Streaming
    <3> QED
      BY <3>1, <3>2, <2>1, OldTokens
  <2>3. CASE RemoveEnd(r) \/ AddIgnored(r) \/ SaveLate(r)
    <3>1. \A q \in requests' : q \in requests \/ q \in After(r)
      BY <2>3 DEF RemoveEnd, AddIgnored, SaveLate, Become
    <3> QED
      BY <3>1, <2>1, OldTokens
  <2> QED
    BY <2>2, <2>3 DEF Serve
<1>7. Positions' \subseteq Positions
  BY <1>2, <1>5, <1>6, PositionsKept, OldTokens
<1> QED
  BY <1>1, <1>2, <1>5, <1>7 DEF Frame, Live

(* A copy that begins has every key still to reach.                        *)
LEMMA CopyFrame ==
  ASSUME TypeOK, ControlInv, SyncBegin \/ SyncFinish \/ SyncWatch \/ \E r \in requests : AddCopy(r)
  PROVE  Frame
<1>t. RowType /\ consumer \in Consumer
  BY TypeParts DEF ConsumerType
<1>1. UNCHANGED source /\ requests' \subseteq requests
  BY DEF SyncBegin, SyncFinish, SyncWatch, AddCopy, Become
<1>2. row'.token = row.token /\ row'.state = row.state
  BY <1>t, SetRowFields DEF SyncBegin, SyncFinish, SyncWatch, AddCopy
<1>3. /\ ~Knows'
      /\ Copying' => \/ Copying /\ consumer.todo \subseteq consumer'.todo
                     \/ Key \subseteq consumer'.todo
  <2>1. CASE SyncBegin
    <3>1. consumer'.pc = "copy" /\ consumer'.todo = Key
      BY <2>1, <1>t DEF SyncBegin, Consumer
    <3> QED
      BY <3>1 DEF Knows, Streaming
  <2>2. CASE SyncFinish
    <3>1. consumer'.pc = "finish" /\ consumer'.todo = consumer.todo /\ consumer.pc = "copy"
      BY <2>2, <1>t DEF SyncFinish, Goto, Consumer
    <3> QED
      BY <3>1 DEF Knows, Copying, Streaming
  <2>3. CASE SyncWatch
    <3>1. consumer'.pc = "watch" /\ consumer'.at = 0 /\ consumer.pc = "finish"
      BY <2>3 DEF SyncWatch, Idle
    <3> QED
      BY <3>1 DEF Knows, Copying, ControlInv
  <2>4. CASE \E r \in requests : AddCopy(r)
    <3>1. consumer'.pc = "sync"
      BY <2>4, <1>t DEF AddCopy, Goto, Consumer
    <3> QED
      BY <3>1 DEF Knows, Copying, Streaming
  <2> QED
    BY <2>1, <2>2, <2>3, <2>4
<1>4. Positions' \subseteq Positions
  BY <1>1, <1>2, <1>3, PositionsKept, OldTokens
<1> QED
  BY <1>1, <1>2, <1>3, <1>4 DEF Frame, Live

(* The token stored is where the consumer stands.                          *)
LEMMA SaveFrame ==
  ASSUME TypeOK, SaveToken \/ TimerFires
  PROVE  Frame
<1>t. RowType /\ consumer \in Consumer
  BY TypeParts DEF ConsumerType
<1>1. UNCHANGED <<source, requests>>
  BY DEF SaveToken, TimerFires
<1>2. CASE TimerFires
  <2>1. UNCHANGED <<row, consumer>>
    BY <1>2 DEF TimerFires
  <2>2. (Knows' <=> Knows) /\ (Copying' <=> Copying)
    BY <2>1 DEF Knows, Copying
  <2>3. Positions' \subseteq Positions
    BY <1>1, <2>1, <2>2, PositionsKept, OldTokens
  <2> QED
    BY <1>1, <2>1, <2>2, <2>3 DEF Frame, Live
<1>3. CASE SaveToken
  <2>1. consumer.pc = "token" /\ row'.token \in {row.token, consumer.at} /\ row'.state = row.state
    BY <1>3, <1>t, SetRowFields DEF SaveToken
  <2>2. consumer'.pc \in {"flush", "open"} /\ consumer'.at = consumer.at
    BY <1>3, <1>t DEF SaveToken, Goto, Consumer
  <2>3. Knows /\ ~Copying'
    BY <2>1, <2>2 DEF Knows, Copying, Streaming
  <2>4. Positions' \subseteq Positions
    BY <1>1, <2>1, <2>2, <2>3, PositionsKept, OldTokens
  <2> QED
    BY <1>1, <2>1, <2>2, <2>3, <2>4 DEF Frame, Live
<1> QED
  BY <1>2, <1>3

(* A flush that ends lets the consumer go on where it was.                 *)
LEMMA FlushFrame ==
  ASSUME TypeOK, ControlInv, NEW f \in Flusher, Send(f) \/ FlushFails(f)
  PROVE  Frame
<1>t. consumer \in Consumer
  BY TypeParts DEF ConsumerType
<1>1. UNCHANGED <<source, requests, row>>
  BY DEF Send, SendUpserts, SendDeletes, FlushDone, FlushFails
<1>2. UNCHANGED consumer \/ (flusher[f].awaited /\ consumer' = [consumer EXCEPT !.pc = "open"])
  BY DEF Send, SendUpserts, SendDeletes, FlushDone, FlushFails, Done
<1>3. \/ UNCHANGED consumer
      \/ consumer.pc = "flush" /\ consumer'.pc = "open" /\ consumer'.at = consumer.at
  BY <1>2, <1>t DEF ControlInv, Consumer
<1>4. /\ Knows' => Knows /\ consumer'.at = consumer.at
      /\ Copying' => Copying /\ consumer'.todo = consumer.todo
  BY <1>3 DEF Knows, Copying, Streaming
<1>5. Positions' \subseteq Positions
  BY <1>1, <1>4, PositionsKept, OldTokens
<1> QED
  BY <1>1, <1>4, <1>5 DEF Frame, Live

(* Failures and restarts go back to the stored token.                      *)
LEMMA FailureFrame ==
  ASSUME TypeOK, SyncFails \/ TokenFails \/ StreamFails \/ Crash \/ Stop
  PROVE  Frame
<1>t. RowType /\ consumer \in Consumer /\ row.token \in Position
  BY TypeParts DEF ConsumerType, RowType, Row
<1>1. UNCHANGED source
  BY DEF SyncFails, TokenFails, StreamFails, Crash, Stop
<1>2. row'.token = row.token /\ row'.state = row.state
  BY <1>t, SetRowFields DEF SyncFails, TokenFails, StreamFails, Crash, Stop
<1>3. \A r \in requests' : r \in requests \/ r.token \in {0, row.token}
  <2>1. Remove("reset").token = 0 /\ At("reconnect").token = 0 /\ Add(row.token).token = row.token
    BY <1>t, RequestKinds
  <2>2. requests' \subseteq requests \cup {Remove("reset"), At("reconnect"), Add(row.token)}
    BY DEF SyncFails, TokenFails, StreamFails, Crash, Stop, StartAgain
  <2> QED
    BY <2>1, <2>2
<1>4. /\ Knows' => Knows /\ consumer'.at = consumer.at
      /\ ~Copying'
  <2>1. CASE TokenFails
    <3>1. consumer.pc = "token" /\ consumer'.pc = "open" /\ consumer'.at = consumer.at
      BY <2>1, <1>t DEF TokenFails, Goto, Consumer
    <3> QED
      BY <3>1 DEF Knows, Copying, Streaming
  <2>2. CASE ~TokenFails
    <3>1. consumer'.pc = "idle"
      BY <2>2 DEF SyncFails, StreamFails, Crash, Stop, StartAgain, Idle
    <3> QED
      BY <3>1 DEF Knows, Copying, Streaming
  <2> QED
    BY <2>1, <2>2
<1>5. Positions' \subseteq Positions
  BY <1>2, <1>3, <1>4, PositionsKept, OldTokens
<1> QED
  BY <1>1, <1>2, <1>4, <1>5 DEF Frame, Live

(* Work under way that is not lost stays under way, or is shown.           *)
Kept ==
  /\ lost \subseteq lost'
  /\ \A k \in Key \ lost' : (Live /\ Shows(k) => Shows(k)') /\ (Quiet(k) => Quiet(k)')

(* A framed step that keeps what is under way keeps the invariant.         *)
LEMMA FramedInv ==
  ASSUME IInv, Frame, Kept
  PROVE  OplogInv' /\ PositionInv' /\ RereadInv' /\ CopyInv' /\ ShowInv'
<1>s. docs' = docs /\ oplog' = oplog
  BY DEF Frame, source
<1>r. \A k, p : ReadTo(k, p)' <=> ReadTo(k, p)
  BY <1>s DEF ReadTo
<1>1. OplogInv'
  BY <1>s, <1>r DEF IInv, OplogInv
<1>2. PositionInv'
  BY <1>s DEF IInv, PositionInv, Frame
<1>3. RereadInv'
  BY <1>s, <1>r DEF IInv, RereadInv, Frame, Kept
<1>4. CopyInv'
  BY DEF IInv, CopyInv, Frame, Kept
<1>5. ShowInv'
  BY <1>r DEF IInv, ShowInv, Covered, Frame, Kept
<1> QED
  BY <1>1, <1>2, <1>3, <1>4, <1>5

(* A step that moves no work and no document keeps what is under way.      *)
LEMMA StillKept ==
  ASSUME UNCHANGED <<docs, index>>, buffer'.work = buffer.work, lost \subseteq lost',
         \A f \in Flusher : flusher'[f].pc = flusher[f].pc /\ flusher'[f].work = flusher[f].work
  PROVE  Kept
<1>1. ASSUME NEW k \in Key PROVE (Shows(k) => Shows(k)') /\ (Quiet(k) => Quiet(k)')
  <2>1. Still(k)' <=> Still(k)
    BY DEF Still
  <2>2. BufferShows(k) => BufferShows(k)'
    BY DEF BufferShows
  <2>3. FlushShows(k) => FlushShows(k)'
    BY DEF FlushShows
  <2> QED
    BY <2>1, <2>2, <2>3 DEF Shows, Quiet
<1> QED
  BY <1>1 DEF Kept

(* What a replaced buffer held is noted as lost; flushes go on.            *)
LEMMA ReplaceKept ==
  ASSUME TypeOK, UNCHANGED <<docs, index>>, NEW b, b.work = NoWork, NEW passed,
         ReplaceBuffer(b, passed)
  PROVE  Kept
<1>1. /\ lost \subseteq lost' /\ Touched(buffer.work) \subseteq lost' /\ Touched(buffer'.work) = {}
  BY Empty DEF ReplaceBuffer
<1>2. \A f \in Flusher : flusher'[f].pc = flusher[f].pc /\ flusher'[f].work = flusher[f].work
  BY TypeParts DEF ReplaceBuffer, FlusherType, FlusherState
<1>3. ASSUME NEW k \in Key \ lost' PROVE (Shows(k) => Shows(k)') /\ (Quiet(k) => Quiet(k)')
  <2>1. k \notin Touched(buffer.work) /\ k \notin Touched(buffer'.work)
    BY <1>1
  <2>2. Still(k)' <=> Still(k)
    BY <2>1, <1>2 DEF Still
  <2>3. BufferShows(k)'
    BY <2>1 DEF BufferShows
  <2>4. FlushShows(k) => FlushShows(k)'
    BY <2>1, <1>2 DEF FlushShows
  <2> QED
    BY <2>2, <2>3, <2>4 DEF Shows, Quiet
<1> QED
  BY <1>1, <1>3 DEF Kept

(* A flush takes over what the buffer had, and its promise.                *)
LEMMA FlushKept ==
  ASSUME TypeOK, ControlInv, UNCHANGED <<docs, index>>, NEW b \in BOOLEAN, Flush(b)
  PROVE  Kept
<1> DEFINE w == buffer.work
<1>t. buffer \in Buffer /\ w \in Work /\ flusher \in [Flusher -> FlusherState]
  BY TypeParts DEF BufferType, Buffer, FlusherType
<1>1. CASE ~buffer.open \/ w = NoWork
  <2>1. buffer' = [buffer EXCEPT !.timer = FALSE] /\ UNCHANGED <<flusher, lost>>
    BY <1>1 DEF Flush
  <2>2. buffer'.work = buffer.work
    BY <2>1, <1>t DEF Buffer
  <2> QED
    BY <2>1, <2>2, StillKept
<1>2. CASE ~(~buffer.open \/ w = NoWork)
  <2> DEFINE s == IF \E k \in Key : w.ups[k] # Absent THEN "upserts" ELSE "deletes"
             new == [pc |-> s, work |-> w, alive |-> TRUE, awaited |-> b]
  <2>1. PICK f \in Flusher :
          /\ flusher[f].pc = "idle" /\ flusher' = [flusher EXCEPT ![f] = new]
          /\ buffer' = NewBuffer /\ lost' = lost \cup (Touched(w) \cap InHand)
    BY <1>2 DEF Flush
  <2>2. /\ flusher'[f].work = w /\ flusher'[f].pc = s
        /\ \A g \in Flusher \ {f} : flusher'[g] = flusher[g]
    BY <2>1, <1>t
  <2>3. Touched(flusher[f].work) = {} /\ Touched(buffer'.work) = {}
    BY <2>1, Empty DEF ControlInv
  <2>4. ASSUME NEW k \in Key \ lost', k \in Touched(w)
        PROVE  (Shows(k) => Shows(k)') /\ ~Quiet(k)
    <3>1. \A g \in Flusher : k \notin Touched(flusher[g].work)
      BY <2>1, <2>4 DEF InHand
    <3>2. ~Quiet(k) /\ ~Still(k)'
      BY <2>2, <2>4 DEF Quiet, Still
    <3>3. s = "upserts" \/ (s = "deletes" /\ k \in w.dels)
      BY <2>4 DEF Touched
    <3>4. BufferShows(k)'
      BY <2>3 DEF BufferShows
    <3>5. ASSUME Shows(k) PROVE FlushShows(k)'
      <4>1. Value(w, k) = docs'[k]
        BY <2>4, <3>5 DEF Shows, BufferShows
      <4>2. \A g \in Flusher : k \in Touched(flusher'[g].work) => g = f
        BY <2>2, <3>1
      <4> QED
        BY <2>2, <3>3, <4>1, <4>2 DEF FlushShows
    <3> QED
      BY <3>2, <3>4, <3>5 DEF Shows
  <2>5. ASSUME NEW k \in Key \ lost', k \notin Touched(w)
        PROVE  (Shows(k) => Shows(k)') /\ (Quiet(k) => Quiet(k)')
    <3>1. \A g \in Flusher : \/ /\ g = f /\ k \notin Touched(flusher'[g].work)
                                /\ k \notin Touched(flusher[g].work)
                             \/ flusher'[g] = flusher[g]
      BY <2>2, <2>3, <2>5
    <3>2. Still(k)' <=> Still(k)
      BY <2>3, <2>5, <3>1 DEF Still
    <3>3. BufferShows(k)'
      BY <2>3 DEF BufferShows
    <3>4. FlushShows(k) => FlushShows(k)'
      BY <2>3, <2>5, <3>1 DEF FlushShows
    <3> QED
      BY <3>2, <3>3, <3>4 DEF Shows, Quiet
  <2> QED
    BY <2>1, <2>4, <2>5 DEF Kept
<1> QED
  BY <1>1, <1>2

(* What work holds for a key.                                              *)
LEMMA WorkTouched ==
  ASSUME NEW w \in Work, NEW k \in Key
  PROVE  /\ k \notin Touched(w) => w.ups[k] = Absent /\ k \notin w.dels
         /\ k \in Touched(w) /\ k \notin w.dels => w.ups[k] # Absent /\ Value(w, k) = w.ups[k]
BY DEF Touched, Value

(* Sent upserts are shown, unless their delete is still to come.           *)
LEMMA SendUpsertsKept ==
  ASSUME TypeOK, NEW f \in Flusher, SendUpserts(f)
  PROVE  Kept
<1> DEFINE w == flusher[f].work
<1>t. w \in Work /\ flusher \in [Flusher -> FlusherState]
  BY TypeParts DEF FlusherType, FlusherState
<1>1. /\ UNCHANGED <<docs, buffer, lost>>
      /\ flusher'[f].work = w
      /\ flusher'[f].pc = IF w.dels = {} THEN "status" ELSE "deletes"
      /\ \A g \in Flusher \ {f} : flusher'[g] = flusher[g]
  <2>1. flusher' = [flusher EXCEPT ![f] = [flusher[f] EXCEPT !.pc =
                      IF w.dels = {} THEN "status" ELSE "deletes"]]
    BY <1>t DEF SendUpserts
  <2>2. flusher'[f] = [flusher[f] EXCEPT !.pc = IF w.dels = {} THEN "status" ELSE "deletes"]
    BY <2>1, <1>t
  <2>3. flusher[f] \in FlusherState
    BY <1>t
  <2>4. flusher'[f].work = w /\ flusher'[f].pc = IF w.dels = {} THEN "status" ELSE "deletes"
    BY <2>2, <2>3 DEF FlusherState
  <2> QED
    BY <2>1, <2>4, <1>t DEF SendUpserts, source
<1>2. \A g \in Flusher : flusher'[g].work = flusher[g].work
  BY <1>1
<1>3. ASSUME NEW k \in Key PROVE (Shows(k) => Shows(k)') /\ (Quiet(k) => Quiet(k)')
  <2>1. index'[k] = IF w.ups[k] # Absent THEN w.ups[k] ELSE index[k]
    BY DEF SendUpserts, WithUpserts
  <2>2. k \notin Touched(w) => index'[k] = index[k]
    BY <2>1, <1>t, WorkTouched
  <2>3. Still(k)' <=> Still(k)
    BY <1>1, <1>2 DEF Still
  <2>4. BufferShows(k) => BufferShows(k)'
    BY <1>1 DEF BufferShows
  <2>5. ASSUME FlushShows(k), k \notin Touched(buffer.work) PROVE FlushShows(k)'
    <3>1. ASSUME NEW g \in Flusher, k \in Touched(flusher[g].work)
          PROVE  /\ Value(flusher[g].work, k) = docs[k]
                 /\ \/ flusher'[g].pc = "upserts"
                    \/ flusher'[g].pc = "deletes" /\ k \in flusher[g].work.dels
                    \/ index'[k] = docs[k]
                 /\ \A h \in Flusher : k \in Touched(flusher[h].work) => h = g
      <4>1. /\ Value(flusher[g].work, k) = docs[k]
            /\ \/ flusher[g].pc = "upserts"
               \/ flusher[g].pc = "deletes" /\ k \in flusher[g].work.dels
               \/ index[k] = docs[k]
            /\ \A h \in Flusher : k \in Touched(flusher[h].work) => h = g
        BY <2>5, <3>1 DEF FlushShows
      <4>2. CASE g = f /\ k \in w.dels
        BY <4>1, <4>2, <1>1
      <4>3. CASE g = f /\ k \notin w.dels
        BY <4>1, <4>3, <3>1, <2>1, <1>t, WorkTouched
      <4>4. CASE g # f
        BY <4>1, <4>4, <2>2, <1>1
      <4> QED
        BY <4>2, <4>3, <4>4
    <3> QED
      BY <3>1, <1>1, <1>2 DEF FlushShows
  <2>6. FlushShows(k) => FlushShows(k)'
    BY <2>5, <1>1 DEF FlushShows
  <2>7. Still(k) => index'[k] = index[k]
    BY <2>2 DEF Still
  <2> QED
    BY <2>3, <2>4, <2>6, <2>7, <1>1 DEF Shows, Quiet
<1> QED
  BY <1>1, <1>3 DEF Kept

(* Sent deletes are shown.                                                 *)
LEMMA SendDeletesKept ==
  ASSUME TypeOK, NEW f \in Flusher, SendDeletes(f)
  PROVE  Kept
<1> DEFINE w == flusher[f].work
<1>t. w \in Work /\ flusher \in [Flusher -> FlusherState]
  BY TypeParts DEF FlusherType, FlusherState
<1>1. /\ UNCHANGED <<docs, buffer, lost>>
      /\ flusher'[f].work = w /\ flusher[f].pc = "deletes"
      /\ \A g \in Flusher \ {f} : flusher'[g] = flusher[g]
  <2>1. flusher' = [flusher EXCEPT ![f] = [flusher[f] EXCEPT !.pc = "status"]]
    BY <1>t DEF SendDeletes
  <2>2. flusher'[f] = [flusher[f] EXCEPT !.pc = "status"] /\ flusher[f] \in FlusherState
    BY <2>1, <1>t
  <2>3. flusher'[f].work = w
    BY <2>2 DEF FlusherState
  <2> QED
    BY <2>1, <2>3, <1>t DEF SendDeletes, source
<1>2. \A g \in Flusher : flusher'[g].work = flusher[g].work
  BY <1>1
<1>3. ASSUME NEW k \in Key PROVE (Shows(k) => Shows(k)') /\ (Quiet(k) => Quiet(k)')
  <2>1. index'[k] = IF k \in w.dels THEN Absent ELSE index[k]
    BY DEF SendDeletes, WithDeletes
  <2>2. k \notin Touched(w) => index'[k] = index[k]
    BY <2>1, <1>t, WorkTouched
  <2>3. Still(k)' <=> Still(k)
    BY <1>1, <1>2 DEF Still
  <2>4. BufferShows(k) => BufferShows(k)'
    BY <1>1 DEF BufferShows
  <2>5. ASSUME FlushShows(k), k \notin Touched(buffer.work) PROVE FlushShows(k)'
    <3>1. ASSUME NEW g \in Flusher, k \in Touched(flusher[g].work)
          PROVE  /\ Value(flusher[g].work, k) = docs[k]
                 /\ \/ flusher'[g].pc = "upserts"
                    \/ flusher'[g].pc = "deletes" /\ k \in flusher[g].work.dels
                    \/ index'[k] = docs[k]
                 /\ \A h \in Flusher : k \in Touched(flusher[h].work) => h = g
      <4>1. /\ Value(flusher[g].work, k) = docs[k]
            /\ \/ flusher[g].pc = "upserts"
               \/ flusher[g].pc = "deletes" /\ k \in flusher[g].work.dels
               \/ index[k] = docs[k]
            /\ \A h \in Flusher : k \in Touched(flusher[h].work) => h = g
        BY <2>5, <3>1 DEF FlushShows
      <4>2. CASE g = f /\ k \in w.dels
        BY <4>1, <4>2, <2>1 DEF Value
      <4>3. CASE g = f /\ k \notin w.dels
        BY <4>1, <4>3, <2>1, <1>1
      <4>4. CASE g # f
        BY <4>1, <4>4, <2>2, <1>1
      <4> QED
        BY <4>2, <4>3, <4>4
    <3> QED
      BY <3>1, <1>1, <1>2 DEF FlushShows
  <2>6. FlushShows(k) => FlushShows(k)'
    BY <2>5, <1>1 DEF FlushShows
  <2>7. Still(k) => index'[k] = index[k]
    BY <2>2 DEF Still
  <2> QED
    BY <2>3, <2>4, <2>6, <2>7, <1>1 DEF Shows, Quiet
<1> QED
  BY <1>1, <1>3 DEF Kept

(* A flush that has sent everything leaves it shown.                       *)
LEMMA FlushDoneKept ==
  ASSUME TypeOK, NEW f \in Flusher, FlushDone(f)
  PROVE  Kept
<1>t. flusher \in [Flusher -> FlusherState]
  BY TypeParts DEF FlusherType
<1>1. /\ UNCHANGED <<docs, index, buffer, lost>> /\ flusher[f].pc = "status"
      /\ \A g \in Flusher \ {f} : flusher'[g] = flusher[g]
      /\ Touched(flusher'[f].work) = {}
  BY <1>t, Empty DEF FlushDone, Done, IdleFlusher, source
<1>2. ASSUME NEW k \in Key PROVE (Shows(k) => Shows(k)') /\ (Quiet(k) => Quiet(k)')
  <2>1. BufferShows(k) => BufferShows(k)'
    BY <1>1 DEF BufferShows
  <2>2. FlushShows(k) => FlushShows(k)'
    BY <1>1 DEF FlushShows
  <2>3. Shows(k) /\ Still(k)' => index[k] = docs[k]
    BY <1>1 DEF Shows, FlushShows, Still
  <2>4. Still(k) => Still(k)'
    BY <1>1 DEF Still
  <2> QED
    BY <2>1, <2>2, <2>3, <2>4, <1>1 DEF Shows, Quiet
<1> QED
  BY <1>1, <1>2 DEF Kept

(* What a failed flush puts back ends as it would have, except for a       *)
(* delete that goes in front of a later insert.                            *)
LEMMA FlushFailsKept ==
  ASSUME TypeOK, NEW f \in Flusher, FlushFails(f)
  PROVE  Kept
<1> DEFINE w == flusher[f].work
<1>t. /\ flusher \in [Flusher -> FlusherState] /\ w \in Work
      /\ buffer \in Buffer /\ buffer.work \in Work
  BY TypeParts DEF FlusherType, FlusherState, BufferType, Buffer
<1>1. /\ UNCHANGED <<docs, index>> /\ lost \subseteq lost'
      /\ \A g \in Flusher \ {f} : flusher'[g] = flusher[g]
      /\ Touched(flusher'[f].work) = {}
  BY <1>t, Empty DEF FlushFails, Done, IdleFlusher, source
<1>2. CASE ~flusher[f].alive
  <2>1. UNCHANGED buffer /\ Touched(w) \subseteq lost'
    BY <1>2 DEF FlushFails
  <2>2. ASSUME NEW k \in Key \ lost' PROVE (Shows(k) => Shows(k)') /\ (Quiet(k) => Quiet(k)')
    <3>1. k \notin Touched(w)
      BY <2>1
    <3>2. Still(k)' <=> Still(k)
      BY <1>1, <2>1, <3>1 DEF Still
    <3>3. BufferShows(k) => BufferShows(k)'
      BY <1>1, <2>1 DEF BufferShows
    <3>4. FlushShows(k) => FlushShows(k)'
      BY <1>1, <2>1 DEF FlushShows
    <3> QED
      BY <3>2, <3>3, <3>4, <1>1 DEF Shows, Quiet
  <2> QED
    BY <1>1, <2>2 DEF Kept
<1>3. CASE flusher[f].alive
  <2> DEFINE m == Merged(w, buffer.work)
  <2>1. buffer'.work = m /\ lost' = lost \cup {k \in w.dels : buffer.work.ups[k] # Absent}
    BY <1>3, <1>t DEF FlushFails, Buffer
  <2>2. ASSUME NEW k \in Key \ lost' PROVE (Shows(k) => Shows(k)') /\ (Quiet(k) => Quiet(k)')
    <3>1. k \in Touched(m) <=> k \in Touched(w) \/ k \in Touched(buffer.work)
      BY <1>t DEF Touched, Merged
    <3>2. k \in Touched(buffer.work) => Value(m, k) = Value(buffer.work, k)
      BY <2>1, <1>t DEF Touched, Merged, Value
    <3>3. k \notin Touched(buffer.work) => Value(m, k) = Value(w, k)
      BY <1>t DEF Touched, Merged, Value
    <3>4. Still(k)' <=> Still(k)
      BY <1>1, <2>1, <3>1 DEF Still
    <3>5. Shows(k) => BufferShows(k)'
      BY <1>1, <2>1, <3>1, <3>2, <3>3 DEF Shows, BufferShows, FlushShows
    <3>6. FlushShows(k) => FlushShows(k)'
      BY <1>1, <2>1, <3>1 DEF FlushShows
    <3> QED
      BY <3>4, <3>5, <3>6, <1>1 DEF Shows, Quiet
  <2> QED
    BY <1>1, <2>2 DEF Kept
<1> QED
  BY <1>2, <1>3

(* At the end of the process all that is under way is lost, or flushed.    *)
LEMMA EndKept ==
  ASSUME TypeOK, Crash \/ Stop
  PROVE  Kept
<1>t. buffer.work \in Work
  BY TypeParts DEF BufferType, Buffer
<1>1. /\ UNCHANGED docs /\ lost \subseteq lost' /\ InHand \subseteq lost'
      /\ Touched(buffer'.work) = {} /\ \A f \in Flusher : Touched(flusher'[f].work) = {}
  BY Empty DEF Crash, Stop, StartAgain, source, IdleFlusher
<1>2. ASSUME NEW k \in Key \ lost'
      PROVE  (Live /\ Shows(k) => Shows(k)') /\ (Quiet(k) => Quiet(k)')
  <2>1. Still(k)' /\ BufferShows(k)' /\ FlushShows(k)'
    BY <1>1 DEF Still, BufferShows, FlushShows
  <2>2. \A f \in Flusher : k \notin Touched(flusher[f].work)
    BY <1>1 DEF InHand
  <2>3. CASE k \notin Touched(buffer.work)
    <3>1. Still(k)
      BY <2>2, <2>3 DEF Still
    <3>2. index'[k] = index[k]
      BY <2>3, <1>t, WorkTouched DEF Crash, Stop, WithUpserts, WithDeletes
    <3> QED
      BY <3>1, <3>2, <2>1, <1>1 DEF Shows, Quiet
  <2>4. CASE k \in Touched(buffer.work)
    <3>1. ~Quiet(k)
      BY <2>4 DEF Quiet, Still
    <3>2. CASE Crash
      BY <2>4, <3>2 DEF Crash
    <3>3. CASE Stop
      <4>1. Live => index'[k] = Value(buffer.work, k)
        BY <2>4, <3>3, <1>t, WorkTouched DEF Stop, WithUpserts, WithDeletes, Value
      <4> QED
        BY <4>1, <3>1, <2>1, <2>4, <1>1 DEF Shows, BufferShows
    <3> QED
      BY <3>2, <3>3
  <2> QED
    BY <2>3, <2>4
<1> QED
  BY <1>1, <1>2 DEF Kept

(* A change is after every position, so nobody has read it.                *)
LEMMA WriteInv ==
  ASSUME TypeOK, IInv, NEW k \in Key, NEW v \in Cell, Write(k, v)
  PROVE  OplogInv' /\ PositionInv' /\ RereadInv' /\ CopyInv' /\ ShowInv'
<1> DEFINE n == Len(oplog)
           e == [key |-> k, val |-> v,
                 kind |-> IF v = Absent THEN "delete"
                          ELSE IF docs[k] = Absent THEN "insert" ELSE "update"]
<1>t. docs \in [Key -> Cell] /\ oplog \in Seq(Event) /\ n \in Nat
  BY TypeParts, LenProperties DEF DocsType
<1>1. /\ docs' = [docs EXCEPT ![k] = v] /\ oplog' = Append(oplog, e)
      /\ UNCHANGED <<row, index, consumer, buffer, flusher, requests>>
      /\ lost' = IF InGap(k) THEN lost \cup {k} ELSE lost \ {k}
  BY DEF Write
<1>2. e.key = k /\ e.val = v /\ (e.kind = "delete" <=> v = Absent)
  OBVIOUS
<1>3. /\ Len(oplog') = n + 1 /\ oplog'[n + 1] = e
      /\ \A i \in 1 .. n : oplog'[i] = oplog[i]
  BY <1>1, <1>t, AppendProperties
<1>4. 1 .. Len(oplog') = 1 .. n \cup {n + 1} /\ n + 1 \in 1 .. Len(oplog')
  BY <1>3, <1>t
<1>5. Positions' = Positions /\ (Knows' <=> Knows) /\ (Copying' <=> Copying)
  BY <1>1 DEF Positions, Tokens, Knows, Copying
<1>6. \A p \in Positions : p <= n /\ p \in Nat
  <2>1. Positions \subseteq Nat
    BY TypeParts, Bounds
       DEF Positions, Tokens, RowType, Row, RequestType, Request, ConsumerType, Consumer, Position
  <2> QED
    BY <2>1 DEF IInv, PositionInv
<1>7. \A j, p : ReadTo(j, p)' => ReadTo(j, p)
  BY <1>3, <1>4 DEF ReadTo
<1>8. \A p : ReadTo(k, p)' => n + 1 <= p
  BY <1>2, <1>3, <1>4 DEF ReadTo
<1>9. \A p \in Positions : ~ReadTo(k, p)'
  BY <1>6, <1>8, <1>t
<1>10. OplogInv'
  <2>1. ASSUME NEW i \in 1 .. n, NEW j \in Key, oplog[i].key = j
        PROVE  /\ oplog'[i] = oplog[i] /\ (oplog[i].kind = "delete" <=> oplog[i].val = Absent)
               /\ ReadTo(j, i)' => oplog[i].val = docs'[j]
    <3>1. oplog'[i] = oplog[i] /\ i \in 1 .. Len(oplog)
      BY <1>3
    <3>2. ReadTo(j, i)' => j # k
      BY <1>8, <1>t
    <3>3. ReadTo(j, i)' => ReadTo(j, i)
      BY <1>7
    <3>4. /\ oplog[i].kind = "delete" <=> oplog[i].val = Absent
          /\ ReadTo(j, i) => oplog[i].val = docs[j]
      BY <2>1, <3>1 DEF IInv, OplogInv
    <3> QED
      BY <3>1, <3>2, <3>3, <3>4, <1>1, <1>t
  <2>2. oplog'[n + 1].val = docs'[oplog'[n + 1].key]
    BY <1>1, <1>2, <1>3, <1>t
  <2>3. \A i \in 1 .. n : oplog[i].key \in Key
    BY OplogTypes DEF Event
  <2> SUFFICES ASSUME NEW i \in 1 .. Len(oplog')
               PROVE  /\ oplog'[i].kind = "delete" <=> oplog'[i].val = Absent
                      /\ (\A j \in 1 .. Len(oplog') : oplog'[j].key = oplog'[i].key => j <= i)
                           => oplog'[i].val = docs'[oplog'[i].key]
    BY DEF OplogInv, ReadTo
  <2>4. CASE i = n + 1
    BY <2>2, <2>4, <1>2, <1>3
  <2>5. CASE i \in 1 .. n
    <3> DEFINE j == oplog[i].key
    <3>1. /\ oplog'[i] = oplog[i] /\ (oplog[i].kind = "delete" <=> oplog[i].val = Absent)
          /\ j \in Key
      BY <2>1, <2>3, <2>5
    <3>2. (\A m \in 1 .. Len(oplog') : oplog'[m].key = j => m <= i) => oplog[i].val = docs'[j]
      BY <2>1, <2>3, <2>5 DEF ReadTo
    <3> QED
      BY <3>1, <3>2
  <2> QED
    BY <2>4, <2>5, <1>4
<1>11. PositionInv'
  BY <1>3, <1>5, <1>6, <1>t DEF PositionInv
<1>12. RereadInv'
  <2> SUFFICES ASSUME Knows, NEW j \in Key \ lost', NEW p \in Positions, NEW i \in 1 .. Len(oplog'),
                      i <= p, oplog'[i].key = j, ReadTo(j, p)'
               PROVE  i <= consumer.at
    BY <1>1, <1>5 DEF RereadInv
  <2>1. j # k /\ j \notin lost
    BY <1>1, <1>9
  <2>2. i \in 1 .. n
    BY <1>4, <1>6, <1>t
  <2> QED
    BY <2>1, <2>2, <1>3, <1>7 DEF IInv, RereadInv
<1>13. CopyInv'
  <2> SUFFICES ASSUME Copying, NEW j \in Key \ (consumer.todo \cup lost') PROVE Quiet(j)'
    BY <1>1, <1>5 DEF CopyInv
  <2>1. j # k
    <3>1. SUFFICES ASSUME j = k PROVE FALSE
      OBVIOUS
    <3>2. ~InGap(k)
      BY <1>1, <3>1
    <3> QED
      BY <3>1, <3>2 DEF InGap, Copying
  <2>2. Quiet(j)
    BY <2>1, <1>1 DEF IInv, CopyInv
  <2> QED
    BY <2>1, <2>2, <1>1, <1>t DEF Quiet, Still
<1>14. ShowInv'
  <2> SUFFICES ASSUME Live, NEW j \in Key \ lost', Covered(j)' PROVE Shows(j)'
    BY <1>1 DEF ShowInv, Live
  <2>1. j # k /\ Covered(j)
    BY <1>5, <1>7, <1>9 DEF Covered
  <2>2. Shows(j) /\ docs'[j] = docs[j]
    BY <2>1, <1>1, <1>t DEF IInv, ShowInv
  <2>3. BufferShows(j)' /\ FlushShows(j)' /\ (Still(j)' => Still(j))
    BY <2>2, <1>1 DEF Shows, BufferShows, FlushShows, Still
  <2> QED
    BY <2>2, <2>3, <1>1 DEF Shows
<1> QED
  BY <1>10, <1>11, <1>12, <1>13, <1>14

(* A new collection has no token.                                          *)
LEMMA CreateInv ==
  ASSUME TypeOK, IInv, CreateCollection
  PROVE  OplogInv' /\ PositionInv' /\ RereadInv' /\ CopyInv' /\ ShowInv'
<1>1. /\ requests = {} /\ consumer.pc = "idle" /\ row.token = 0
      /\ UNCHANGED <<docs, oplog, consumer>> /\ requests' = {Add(0)}
  BY DEF IInv, ControlInv, CreateCollection, source
<1>2. row'.token = 0
  BY <1>1, TypeParts DEF CreateCollection, RowType, Row
<1>3. Add(0).token = 0
  BY RequestKinds, Bounds
<1>4. ~Knows' /\ ~Copying'
  BY <1>1 DEF Knows, Copying, Streaming
<1>5. Positions' = {}
  BY <1>1, <1>2, <1>3, <1>4 DEF Positions, Tokens
<1>6. OplogInv'
  BY <1>1 DEF IInv, OplogInv, ReadTo
<1> QED
  BY <1>4, <1>5, <1>6 DEF PositionInv, RereadInv, CopyInv, ShowInv, Covered

(* A stream that starts at a token reads again only what is noted as lost. *)
LEMMA AddStreamInv ==
  ASSUME TypeOK, IInv, NEW r \in requests, AddStream(r)
  PROVE  OplogInv' /\ PositionInv' /\ RereadInv' /\ CopyInv' /\ ShowInv'
<1>1. /\ UNCHANGED <<docs, oplog, row, index>> /\ requests' = requests \ {r}
      /\ r.token # 0 /\ consumer.pc = "idle"
      /\ ReplaceBuffer(NewBuffer, Passed(r.token))
  BY DEF AddStream, source, Become
<1>2. consumer'.pc = "watch" /\ consumer'.at = r.token
  BY DEF AddStream, Idle
<1>3. Knows' /\ ~Copying' /\ ~Knows
  BY <1>1, <1>2 DEF Knows, Copying, Streaming
<1>4. Positions' \subseteq Positions /\ Positions = Tokens
  BY <1>1, <1>2, <1>3 DEF Positions, Tokens
<1>5. Kept
  BY <1>1, Empty, ReplaceKept
<1>6. \A k, p : ReadTo(k, p)' <=> ReadTo(k, p)
  BY <1>1 DEF ReadTo
<1>7. OplogInv' /\ PositionInv'
  BY <1>1, <1>4, <1>6 DEF IInv, OplogInv, PositionInv
<1>8. RereadInv'
  <2> SUFFICES ASSUME NEW k \in Key \ lost', NEW p \in Positions', NEW i \in 1 .. Len(oplog),
                      i <= p, oplog[i].key = k
               PROVE  i <= r.token
    BY <1>1, <1>2 DEF RereadInv
  <2>1. Passed(r.token) \subseteq lost' /\ p \in Tokens
    BY <1>1, <1>4 DEF ReplaceBuffer
  <2>2. ~(i > r.token)
    BY <2>1 DEF Passed
  <2>3. r.token \in Nat
    BY TypeParts, Bounds DEF RequestType, Request, Position
  <2> QED
    BY <2>2, <2>3
<1>9. CopyInv'
  BY <1>3 DEF CopyInv
<1>10. ShowInv'
  <2> SUFFICES ASSUME Live', NEW k \in Key \ lost', Covered(k)' PROVE Shows(k)'
    BY DEF ShowInv
  <2>1. Live /\ Covered(k) /\ k \notin lost
    BY <1>1, <1>4, <1>5, <1>6 DEF Covered, Live, Kept
  <2> QED
    BY <2>1, <1>5 DEF IInv, ShowInv, Kept
<1> QED
  BY <1>7, <1>8, <1>9, <1>10

(* A stream that opens after a copy starts at the end of the oplog.        *)
LEMMA StreamOpensInv ==
  ASSUME TypeOK, IInv, StreamOpens
  PROVE  OplogInv' /\ PositionInv' /\ RereadInv' /\ CopyInv' /\ ShowInv'
<1>t. consumer \in Consumer /\ Len(oplog) \in Nat
  BY TypeParts, LenProperties DEF ConsumerType, DocsType
<1>1. /\ UNCHANGED <<docs, oplog, row, index, buffer, flusher, requests, lost>>
      /\ consumer.pc = "watch"
      /\ consumer' = [consumer EXCEPT !.pc = "open",
                                      !.at = IF consumer.at = 0 THEN Len(oplog) ELSE consumer.at]
  BY DEF StreamOpens, source
<1>2. /\ consumer'.pc = "open" /\ consumer'.at = IF consumer.at = 0 THEN Len(oplog) ELSE consumer.at
  BY <1>1, <1>t DEF Consumer
<1>3. Knows' /\ ~Copying'
  BY <1>2 DEF Knows, Copying, Streaming
<1>4. Kept
  BY <1>1, StillKept
<1>5. CASE consumer.at # 0
  <2>1. Knows
    BY <1>1, <1>5 DEF Knows, Streaming
  <2>2. Positions' \subseteq Positions
    BY <1>1, <1>2, <1>5, <2>1, OldTokens, PositionsKept
  <2>3. Frame
    BY <1>1, <1>2, <1>3, <1>5, <2>1, <2>2 DEF Frame, source, Live
  <2> QED
    BY <1>4, <2>3, FramedInv
<1>6. CASE consumer.at = 0
  <2>1. Copying /\ consumer.todo = {}
    BY <1>1, <1>6 DEF Copying, IInv, ControlInv
  <2>2. \A k \in Key \ lost : Quiet(k)
    BY <2>1 DEF IInv, CopyInv
  <2>3. \A p \in Positions' : p \in Positions \/ p = Len(oplog)
    BY <1>1, <1>2, <1>6 DEF Positions, Tokens
  <2>4. \A k, p : ReadTo(k, p)' <=> ReadTo(k, p)
    BY <1>1 DEF ReadTo
  <2>5. OplogInv' /\ PositionInv'
    BY <1>1, <1>t, <2>3, <2>4 DEF IInv, OplogInv, PositionInv
  <2>6. RereadInv'
    BY <1>1, <1>2, <1>6, <1>t DEF RereadInv
  <2>7. ShowInv'
    <3>1. \A k \in Key \ lost' : Quiet(k)'
      BY <1>4, <2>2 DEF Kept
    <3>2. ASSUME NEW k \in Key, Quiet(k)' PROVE Shows(k)'
      BY <3>2 DEF Quiet, Still, Shows, BufferShows, FlushShows
    <3> QED
      BY <3>1, <3>2 DEF ShowInv
  <2> QED
    BY <1>3, <2>5, <2>6, <2>7 DEF CopyInv
<1> QED
  BY <1>5, <1>6

(* An event is put into the buffer: the last of its key with the document. *)
LEMMA TakeEventInv ==
  ASSUME TypeOK, IInv, TakeEvent
  PROVE  OplogInv' /\ PositionInv' /\ RereadInv' /\ CopyInv' /\ ShowInv'
<1> DEFINE i == consumer.at + 1
           e == oplog[i]
           w == buffer.work
<1>t. /\ consumer \in Consumer /\ Len(oplog) \in Nat /\ buffer \in Buffer /\ w \in Work
      /\ oplog \in Seq(Event) /\ consumer.at \in Nat /\ docs \in [Key -> Cell]
  BY TypeParts, LenProperties, Bounds
     DEF ConsumerType, Consumer, Position, DocsType, BufferType, Buffer
<1>1. /\ UNCHANGED <<docs, oplog, row, index, flusher, requests>>
      /\ consumer.pc = "open" /\ consumer.at < Len(oplog)
      /\ consumer' = [consumer EXCEPT !.pc = "token", !.at = i]
      /\ lost' = IF e.kind # "delete" /\ e.key \in w.dels THEN lost \cup {e.key} ELSE lost
  BY DEF TakeEvent, source
<1>2. PICK v \in Delivered(i) : buffer' = [buffer EXCEPT !.work = Buffered(@, e, v)]
  BY DEF TakeEvent
<1>3. consumer'.pc = "token" /\ consumer'.at = i /\ buffer'.work = Buffered(w, e, v)
  BY <1>1, <1>2, <1>t DEF Consumer, Buffer
<1>4. i \in 1 .. Len(oplog) /\ e \in Event
  BY <1>1, <1>t, OplogTypes
<1>5. Knows /\ Knows' /\ ~Copying'
  BY <1>1, <1>3 DEF Knows, Copying, Streaming
<1>6. consumer.at \in Positions /\ \A p \in Positions' : p \in Positions \/ p = i
  BY <1>1, <1>3, <1>5 DEF Positions, Tokens
<1>7. \A k, p : ReadTo(k, p)' <=> ReadTo(k, p)
  BY <1>1 DEF ReadTo
<1>8. OplogInv' /\ PositionInv'
  BY <1>1, <1>4, <1>6, <1>7, <1>t DEF IInv, OplogInv, PositionInv
<1>9. RereadInv'
  <2> SUFFICES ASSUME NEW k \in Key \ lost', NEW p \in Positions', NEW j \in 1 .. Len(oplog),
                      j <= p, oplog[j].key = k, ReadTo(k, p)
               PROVE  j <= i
    BY <1>1, <1>3, <1>7 DEF RereadInv
  <2>1. CASE p = i
    BY <2>1
  <2>2. CASE p \in Positions
    <3>1. j <= consumer.at
      BY <2>2, <1>1, <1>5 DEF IInv, RereadInv
    <3> QED
      BY <3>1, <1>t
  <2> QED
    BY <2>1, <2>2, <1>6
<1>10. ShowInv'
  <2> SUFFICES ASSUME Live, NEW k \in Key \ lost', Covered(k)' PROVE Shows(k)'
    BY <1>1 DEF ShowInv, Live
  <2>1. k \notin lost
    BY <1>1
  <2>2. PICK p \in Positions' : ReadTo(k, p)
    BY <1>7 DEF Covered
  <2>3. CASE k # e.key
    <3>1. Covered(k)
      <4>1. CASE p \in Positions
        BY <2>2, <4>1 DEF Covered
      <4>2. CASE p = i
        <5>1. ReadTo(k, consumer.at)
          BY <2>2, <2>3, <4>2, <1>t, LenProperties DEF ReadTo
        <5> QED
          BY <5>1, <1>6 DEF Covered
      <4> QED
        BY <4>1, <4>2, <1>6
    <3>2. Shows(k)
      BY <2>1, <3>1 DEF IInv, ShowInv
    <3>3. /\ k \in Touched(buffer'.work) <=> k \in Touched(w)
          /\ Value(buffer'.work, k) = Value(w, k)
      BY <1>3, <1>4, <1>t, <2>3 DEF Buffered, Touched, Value, Work, Event
    <3>4. BufferShows(k)' /\ FlushShows(k)' /\ (Still(k)' => Still(k))
      BY <3>2, <3>3, <1>1 DEF Shows, BufferShows, FlushShows, Still
    <3> QED
      BY <3>2, <3>4, <1>1 DEF Shows
  <2>4. CASE k = e.key
    <3>1. p = i
      <4>1. i <= p
        BY <2>2, <2>4, <1>4 DEF ReadTo
      <4>2. SUFFICES ASSUME p \in Positions PROVE FALSE
        BY <1>6
      <4>3. i <= consumer.at
        BY <4>1, <4>2, <2>1, <2>2, <2>4, <1>4, <1>5 DEF IInv, RereadInv
      <4> QED
        BY <4>3, <1>t
    <3>2. e.val = docs[k] /\ (e.kind = "delete" <=> e.val = Absent)
      BY <3>1, <2>2, <2>4, <1>4 DEF IInv, OplogInv
    <3>3. v = e.val
      <4>1. \A j \in i .. Len(oplog) : oplog[j].key = k => j = i
        BY <3>1, <2>2, <1>4, <1>t DEF ReadTo
      <4> QED
        BY <4>1, <2>4, <1>2 DEF Delivered
    <3>4. k \in Touched(buffer'.work) /\ Value(buffer'.work, k) = docs[k]
      <4>1. CASE e.kind = "delete"
        BY <4>1, <2>4, <3>2, <1>3, <1>t DEF Buffered, Touched, Value, Work
      <4>2. CASE e.kind # "delete"
        <5>1. v # Absent /\ k \notin w.dels
          BY <4>2, <3>2, <3>3, <2>4, <1>1
        <5> QED
          BY <4>2, <5>1, <2>4, <3>2, <3>3, <1>3, <1>t DEF Buffered, Touched, Value, Work
      <4> QED
        BY <4>1, <4>2
    <3> QED
      BY <3>4, <1>1 DEF Shows, BufferShows, FlushShows, Still
  <2> QED
    BY <2>3, <2>4
<1> QED
  BY <1>5, <1>8, <1>9, <1>10 DEF CopyInv

(* Documents that are copied are shown, unless the copy found otherwise.   *)
LEMMA SyncCopyInv ==
  ASSUME TypeOK, IInv, SyncCopy
  PROVE  OplogInv' /\ PositionInv' /\ RereadInv' /\ CopyInv' /\ ShowInv'
<1>t. consumer \in Consumer /\ index \in [Key -> Cell]
  BY TypeParts DEF ConsumerType, IndexType
<1>1. PICK D \in SUBSET consumer.todo :
        /\ index' = [k \in Key |-> IF k \in D /\ docs[k] # Absent THEN docs[k] ELSE index[k]]
        /\ consumer' = [consumer EXCEPT !.todo = @ \ D]
        /\ lost' = (lost \ D) \cup
             {k \in D : index'[k] # docs[k] \/ k \in Touched(buffer.work) \cup InHand}
  BY DEF SyncCopy
<1>2. /\ UNCHANGED <<docs, oplog, row, buffer, flusher, requests>> /\ consumer.pc = "copy"
      /\ consumer'.pc = "copy" /\ consumer'.todo = consumer.todo \ D
  BY <1>1, <1>t DEF SyncCopy, source, Consumer
<1>3. ~Knows /\ ~Knows' /\ Copying
  BY <1>2 DEF Knows, Copying, Streaming
<1>4. Positions' = Positions
  BY <1>2, <1>3 DEF Positions, Tokens
<1>5. \A k, p : ReadTo(k, p)' <=> ReadTo(k, p)
  BY <1>2 DEF ReadTo
<1>6. \A k : Still(k)' <=> Still(k)
  BY <1>2 DEF Still
<1>7. ASSUME NEW k \in Key \ lost', k \in D PROVE Quiet(k)' /\ Shows(k)'
  <2>1. Quiet(k)'
    BY <1>1, <1>2, <1>7 DEF Quiet, Still, InHand
  <2> QED
    BY <2>1 DEF Quiet, Still, Shows, BufferShows, FlushShows
<1>8. ASSUME NEW k \in Key \ lost', k \notin D
      PROVE  k \notin lost /\ (Quiet(k) => Quiet(k)') /\ (Shows(k) => Shows(k)')
  <2>1. k \notin lost /\ index'[k] = index[k]
    BY <1>1, <1>8
  <2> QED
    BY <2>1, <1>2, <1>6 DEF Quiet, Shows, BufferShows, FlushShows
<1>9. OplogInv' /\ PositionInv' /\ RereadInv'
  BY <1>2, <1>3, <1>4, <1>5 DEF IInv, OplogInv, PositionInv, RereadInv
<1>10. CopyInv'
  <2> SUFFICES ASSUME NEW k \in Key \ (consumer'.todo \cup lost') PROVE Quiet(k)'
    BY DEF CopyInv
  <2>1. CASE k \in D
    BY <2>1, <1>7
  <2>2. CASE k \notin D
    BY <2>2, <1>2, <1>3, <1>8 DEF IInv, CopyInv
  <2> QED
    BY <2>1, <2>2
<1>11. ShowInv'
  <2> SUFFICES ASSUME Live, NEW k \in Key \ lost', Covered(k)' PROVE Shows(k)'
    BY <1>2 DEF ShowInv, Live
  <2>1. Covered(k)
    BY <1>4, <1>5 DEF Covered
  <2>2. CASE k \in D
    BY <2>2, <1>7
  <2>3. CASE k \notin D
    BY <2>1, <2>3, <1>8 DEF IInv, ShowInv
  <2> QED
    BY <2>2, <2>3
<1> QED
  BY <1>9, <1>10, <1>11

(* The control: who waits for whom.                                        *)

FlusherInv ==
  \A f \in Flusher :
    /\ flusher[f].pc = "idle" => flusher[f].work = NoWork
    /\ flusher[f].awaited => /\ consumer.pc = "flush"
                             /\ \A g \in Flusher : flusher[g].awaited => g = f

(* Arming the timer moves no work.                                         *)
LEMMA ArmTimerFields ==
  TypeOK /\ ArmTimer => buffer'.work = buffer.work /\ UNCHANGED <<flusher, lost>>
BY TypeParts DEF BufferType, Buffer, ArmTimer

(* A flush that starts is the only one awaited, if it is.                  *)
LEMMA FlushControl ==
  ASSUME TypeOK, FlusherInv, NEW b \in BOOLEAN, Flush(b),
         IF b THEN consumer.pc # "flush" /\ consumer'.pc = "flush" ELSE UNCHANGED consumer
  PROVE  FlusherInv'
<1> DEFINE w == buffer.work
<1>t. flusher \in [Flusher -> FlusherState]
  BY TypeParts DEF FlusherType
<1>1. CASE ~buffer.open \/ w = NoWork
  BY <1>1 DEF Flush, FlusherInv
<1>2. CASE ~(~buffer.open \/ w = NoWork)
  <2> DEFINE s == IF \E k \in Key : w.ups[k] # Absent THEN "upserts" ELSE "deletes"
             new == [pc |-> s, work |-> w, alive |-> TRUE, awaited |-> b]
  <2>1. PICK f \in Flusher : flusher[f].pc = "idle" /\ flusher' = [flusher EXCEPT ![f] = new]
    BY <1>2 DEF Flush
  <2>2. /\ flusher'[f].pc # "idle" /\ flusher'[f].awaited = b
        /\ \A g \in Flusher \ {f} : flusher'[g] = flusher[g]
    BY <2>1, <1>t
  <2>3. b => \A g \in Flusher : ~flusher[g].awaited
    BY <1>t DEF FlusherInv, FlusherState
  <2> QED
    BY <2>2, <2>3 DEF FlusherInv
<1> QED
  BY <1>1, <1>2

(* When no flush is awaited or moves, the consumer may go anywhere.        *)
LEMMA UnawaitedControl ==
  ASSUME FlusherInv, UNCHANGED flusher, consumer.pc # "flush" \/ UNCHANGED consumer
  PROVE  FlusherInv'
BY DEF FlusherInv

(* Nobody waits for a flush of a buffer that is replaced.                  *)
LEMMA ReplaceControl ==
  ASSUME TypeOK, FlusherInv,
         flusher' = [f \in Flusher |-> [flusher[f] EXCEPT !.alive = FALSE, !.awaited = FALSE]] \/
         flusher' = [f \in Flusher |-> [flusher[f] EXCEPT !.awaited = FALSE]]
  PROVE  FlusherInv'
<1>1. \A f \in Flusher : /\ flusher'[f].pc = flusher[f].pc /\ flusher'[f].work = flusher[f].work
                         /\ flusher'[f].awaited = FALSE
  BY TypeParts, ZenonT(60) DEF FlusherType, FlusherState
<1> QED
  BY <1>1 DEF FlusherInv

(* A flush that ends lets the consumer go on that waits for it.            *)
LEMMA DoneControl ==
  ASSUME TypeOK, FlusherInv, NEW f \in Flusher, Done(f)
  PROVE  FlusherInv'
<1>t. flusher \in [Flusher -> FlusherState]
  BY TypeParts DEF FlusherType
<1>1. /\ flusher'[f].work = NoWork /\ flusher'[f].awaited = FALSE
      /\ \A g \in Flusher \ {f} : flusher'[g] = flusher[g]
  BY <1>t DEF Done, IdleFlusher
<1>2. flusher[f].awaited => \A g \in Flusher \ {f} : ~flusher[g].awaited
  BY <1>t DEF FlusherInv, FlusherState
<1>3. ~flusher[f].awaited => UNCHANGED consumer
  BY DEF Done
<1> QED
  BY <1>1, <1>2, <1>3 DEF FlusherInv

(* A flush that goes on stays as awaited as it was.                        *)
LEMMA SendControl ==
  ASSUME TypeOK, FlusherInv, NEW f \in Flusher, SendUpserts(f) \/ SendDeletes(f)
  PROVE  FlusherInv'
<1>t. flusher \in [Flusher -> FlusherState] /\ flusher[f] \in FlusherState
  BY TypeParts DEF FlusherType
<1>1. PICK s \in {"status", "deletes"} :
        flusher' = [flusher EXCEPT ![f] = [flusher[f] EXCEPT !.pc = s]]
  BY <1>t DEF SendUpserts, SendDeletes
<1>2. /\ flusher'[f].pc = s /\ flusher'[f].awaited = flusher[f].awaited
      /\ \A g \in Flusher \ {f} : flusher'[g] = flusher[g]
  BY <1>1, <1>t DEF FlusherState
<1>3. UNCHANGED consumer
  BY DEF SendUpserts, SendDeletes
<1> QED
  BY <1>2, <1>3 DEF FlusherInv

(* At most one flush is awaited, by a consumer that waits.                 *)
LEMMA FlusherStep ==
  ASSUME TypeOK, FlusherInv, [Next]_vars
  PROVE  FlusherInv'
<1>t. consumer \in Consumer
  BY TypeParts DEF ConsumerType
<1>1. CASE UNCHANGED vars \/ (\E k \in Key, v \in Cell : Write(k, v)) \/ Ask \/ Finish
  <2>1. UNCHANGED <<consumer, flusher>>
    BY <1>1 DEF vars, Write, Ask, CreateCollection, Pause, Resume, ResyncOrDelete,
                Finish, Reset, Unindex, Erase, Reconnect
  <2> QED
    BY <2>1, UnawaitedControl
<1>2. ASSUME NEW r \in requests, Serve(r) PROVE FlusherInv'
  <2>1. CASE RemoveBegin(r) \/ RemoveEnd(r)
    BY <2>1, ReplaceControl DEF RemoveBegin, RemoveEnd, ReplaceBuffer
  <2>2. CASE AddIgnored(r)
    BY <2>2, UnawaitedControl DEF AddIgnored
  <2>3. CASE SaveLate(r)
    <3>1. UNCHANGED consumer /\ (Flush(FALSE) \/ UNCHANGED flusher)
      BY <2>3 DEF SaveLate, ArmTimer
    <3> QED
      BY <3>1, FlushControl, UnawaitedControl
  <2> QED
    BY <1>2, <2>1, <2>2, <2>3 DEF Serve
<1>3. CASE Copy
  <2>1. CASE SyncWatch \/ \E r \in requests : AddStream(r)
    BY <2>1, ReplaceControl DEF SyncWatch, AddStream, ReplaceBuffer
  <2>2. CASE SyncBegin \/ SyncCopy \/ SyncFinish \/ \E r \in requests : AddCopy(r)
    <3>1. UNCHANGED flusher /\ consumer.pc # "flush"
      BY <2>2 DEF SyncBegin, SyncCopy, SyncFinish, AddCopy
    <3> QED
      BY <3>1, UnawaitedControl
  <2> QED
    BY <1>3, <2>1, <2>2 DEF Copy
<1>4. CASE StreamOpens \/ TakeEvent \/ SyncFails \/ TokenFails \/ StreamFails
  <2>1. UNCHANGED flusher /\ consumer.pc # "flush"
    BY <1>4 DEF StreamOpens, TakeEvent, SyncFails, TokenFails, StreamFails
  <2> QED
    BY <2>1, UnawaitedControl
<1>5. CASE SaveToken
  <2>1. consumer.pc = "token" /\ (UNCHANGED flusher \/ (Flush(TRUE) /\ consumer'.pc = "flush"))
    BY <1>5, <1>t DEF SaveToken, ArmTimer, Goto, Consumer
  <2> QED
    BY <2>1, FlushControl, UnawaitedControl
<1>6. CASE TimerFires
  BY <1>6, FlushControl DEF TimerFires
<1>7. ASSUME NEW f \in Flusher, Send(f) \/ FlushFails(f) PROVE FlusherInv'
  BY <1>7, SendControl, DoneControl DEF Send, FlushDone, FlushFails
<1>8. CASE Crash \/ Stop
  <2>1. flusher' = [f \in Flusher |-> IdleFlusher]
    BY <1>8 DEF Crash, Stop, StartAgain
  <2> QED
    BY <2>1 DEF FlusherInv, IdleFlusher
<1> QED
  BY <1>1, <1>2, <1>3, <1>4, <1>5, <1>6, <1>7, <1>8 DEF Next, Consume, Failure

(* A copy that is over has no key to reach.                                *)
LEMMA TodoStep ==
  ASSUME TypeOK, ControlInv, [Next]_vars
  PROVE  consumer'.pc \in {"finish", "watch"} => consumer'.todo = {}
<1>t. consumer \in Consumer
  BY TypeParts DEF ConsumerType
<1>1. CASE UNCHANGED consumer
  BY <1>1 DEF ControlInv
<1>2. CASE consumer' \in {Idle, [consumer EXCEPT !.pc = "open"]}
  BY <1>2, <1>t DEF Idle, Consumer
<1>3. CASE Copy \/ Consume
  <2>1. CASE SyncBegin \/ SyncCopy
    <3>1. consumer'.pc = "copy"
      BY <2>1, <1>t DEF SyncBegin, SyncCopy, Consumer
    <3> QED
      BY <3>1
  <2>2. CASE SyncFinish
    BY <2>2, <1>t DEF SyncFinish, Goto, Consumer
  <2>3. CASE SyncWatch \/ \E r \in requests : AddStream(r)
    BY <2>3 DEF SyncWatch, AddStream, Idle
  <2>4. CASE Consume \/ \E r \in requests : AddCopy(r)
    <3>1. consumer'.pc \in {"sync", "open", "token", "flush"}
      BY <2>4, <1>t DEF Consume, StreamOpens, TakeEvent, SaveToken, AddCopy, Goto, Consumer
    <3> QED
      BY <3>1
  <2> QED
    BY <1>3, <2>1, <2>2, <2>3, <2>4 DEF Copy
<1>4. CASE ~(Copy \/ Consume)
  <2>1. CASE UNCHANGED vars \/ TimerFires \/ Ask \/ Finish
             \/ \E k \in Key, v \in Cell : Write(k, v)
    BY <1>1, <2>1 DEF vars, Write, Ask, CreateCollection, Pause, Resume, ResyncOrDelete,
                      Finish, Reset, Unindex, Erase, Reconnect, TimerFires
  <2>2. CASE \E r \in requests : Serve(r)
    BY <1>1, <1>2, <2>2 DEF Serve, RemoveBegin, RemoveEnd, AddIgnored, SaveLate
  <2>3. CASE (\E f \in Flusher : Send(f)) \/ Failure
    BY <1>1, <1>2, <2>3 DEF Send, SendUpserts, SendDeletes, FlushDone, Done, Failure, FlushFails,
                            SyncFails, TokenFails, StreamFails, Goto, Crash, Stop, StartAgain
  <2> QED
    BY <1>4, <2>1, <2>2, <2>3 DEF Next
<1> QED
  BY <1>3, <1>4

(* Before the collection exists nothing asks for it.                       *)
LEMMA NoneStep ==
  ASSUME TypeOK, ControlInv, [Next]_vars, row'.state = "none"
  PROVE  requests' = {} /\ consumer'.pc = "idle" /\ row'.token = 0
<1>t. RowType /\ row \in Row
  BY TypeParts DEF RowType
<1>n. row.state = "none" => requests = {} /\ consumer.pc = "idle" /\ row.token = 0 /\ ~Live
  BY DEF ControlInv, Live
<1>1. CASE UNCHANGED vars \/ TimerFires \/ \E k \in Key, v \in Cell : Write(k, v)
  BY <1>1, <1>n DEF vars, Write, TimerFires
<1>2. CASE Ask
  <2>1. CASE CreateCollection
    <3>1. row'.state = "live"
      BY <2>1, <1>t DEF CreateCollection, Row
    <3> QED
      BY <3>1
  <2>2. CASE Pause \/ Resume \/ ResyncOrDelete
    <3>1. row'.state = "live"
      BY <2>2, <1>t DEF Pause, Resume, ResyncOrDelete, Live, Row
    <3> QED
      BY <3>1
  <2> QED
    BY <1>2, <2>1, <2>2 DEF Ask
<1>3. CASE Finish \/ \E r \in requests : Serve(r)
  <2>1. requests # {}
    BY <1>3 DEF Finish, Reset, Unindex, Erase, Reconnect
  <2>2. row.state # "none"
    BY <2>1, <1>n
  <2>3. row'.state \in {row.state, "deleted"}
    BY <1>3, <1>t, SetRowFields DEF Finish, Reset, Unindex, Erase, Reconnect, Row,
       Serve, RemoveBegin, RemoveEnd, AddIgnored, SaveLate
  <2> QED
    BY <2>2, <2>3
<1>4. CASE Copy \/ Consume
  <2>1. requests # {} \/ consumer.pc # "idle"
    BY <1>4 DEF Copy, SyncBegin, SyncCopy, SyncFinish, SyncWatch, AddCopy, AddStream,
                Consume, StreamOpens, TakeEvent, SaveToken
  <2>2. row.state # "none"
    BY <2>1, <1>n
  <2>3. row'.state = row.state
    BY <1>4, <1>t, SetRowFields DEF Copy, SyncBegin, SyncCopy, SyncFinish, SyncWatch, AddCopy,
                AddStream, Consume, StreamOpens, TakeEvent, SaveToken
  <2> QED
    BY <2>2, <2>3
<1>5. ASSUME NEW f \in Flusher, Send(f) \/ FlushFails(f)
      PROVE  requests' = {} /\ consumer'.pc = "idle" /\ row'.token = 0
  <2>1. UNCHANGED <<row, requests>>
    BY <1>5 DEF Send, SendUpserts, SendDeletes, FlushDone, FlushFails
  <2>2. consumer.pc = "idle"
    BY <2>1, <1>n
  <2>3. ~flusher[f].awaited
    BY <2>2, TypeParts DEF ControlInv, FlusherType, FlusherState
  <2>4. UNCHANGED consumer
    BY <2>3, <1>5 DEF Send, SendUpserts, SendDeletes, FlushDone, FlushFails, Done
  <2> QED
    BY <2>1, <2>4, <1>n
<1>6. CASE SyncFails \/ TokenFails \/ StreamFails
  <2>1. row'.state = row.state /\ consumer.pc # "idle"
    BY <1>6, <1>t, SetRowFields DEF SyncFails, TokenFails, StreamFails
  <2> QED
    BY <2>1, <1>n
<1>7. CASE Crash \/ Stop
  BY <1>7, <1>n DEF Crash, Stop, StartAgain, Idle
<1> QED
  BY <1>1, <1>2, <1>3, <1>4, <1>5, <1>6, <1>7 DEF Next, Failure

(* The control part is inductive by itself, given the types.               *)
LEMMA ControlStep ==
  ASSUME TypeOK, ControlInv, [Next]_vars
  PROVE  ControlInv'
<1>1. FlusherInv
  BY DEF ControlInv, FlusherInv
<1>2. FlusherInv'
  BY <1>1, FlusherStep
<1> QED
  BY <1>2, NoneStep, TodoStep DEF ControlInv, FlusherInv

(* The steps that keep what is under way.                                  *)
LEMMA Keeping ==
  ASSUME TypeOK, ControlInv,
         \/ Pause \/ Resume \/ ResyncOrDelete \/ Finish \/ (\E r \in requests : Serve(r))
         \/ SyncBegin \/ SyncFinish \/ SyncWatch \/ (\E r \in requests : AddCopy(r))
         \/ SaveToken \/ TimerFires \/ (\E f \in Flusher : Send(f) \/ FlushFails(f))
         \/ SyncFails \/ TokenFails \/ StreamFails \/ Crash \/ Stop
  PROVE  Kept
<1>1. CASE Pause \/ Resume \/ ResyncOrDelete \/ Reset \/ Erase \/ Reconnect
           \/ SyncBegin \/ SyncFinish \/ (\E r \in requests : AddCopy(r))
           \/ SyncFails \/ TokenFails \/ StreamFails
  <2>1. UNCHANGED <<docs, index, buffer, flusher, lost>>
    BY <1>1 DEF Pause, Resume, ResyncOrDelete, Reset, Erase, Reconnect, SyncBegin, SyncFinish,
                AddCopy, SyncFails, TokenFails, StreamFails, source
  <2> QED
    BY <2>1, StillKept
<1>2. CASE Unindex
  <2>1. lost' = Key /\ lost \subseteq Key
    BY <1>2, TypeParts DEF Unindex, CountType
  <2> QED
    BY <2>1 DEF Kept
<1>3. ASSUME NEW r \in requests, Serve(r) PROVE Kept
  <2>1. CASE RemoveBegin(r)
    <3>1. UNCHANGED <<docs, index>>
      BY <2>1 DEF RemoveBegin, source
    <3>2. CASE stream
      <4>1. /\ UNCHANGED <<buffer, lost>>
            /\ flusher' = [f \in Flusher |-> [flusher[f] EXCEPT !.awaited = FALSE]]
        BY <2>1, <3>2 DEF RemoveBegin
      <4>2. \A f \in Flusher : flusher'[f].pc = flusher[f].pc /\ flusher'[f].work = flusher[f].work
        BY <4>1, TypeParts DEF FlusherType, FlusherState
      <4> QED
        BY <3>1, <4>1, <4>2, StillKept
    <3>3. CASE ~stream
      BY <2>1, <3>1, <3>3, ReplaceKept, Empty DEF RemoveBegin
    <3> QED
      BY <3>2, <3>3
  <2>2. CASE RemoveEnd(r)
    BY <2>2, ReplaceKept, Empty DEF RemoveEnd, source
  <2>3. CASE AddIgnored(r)
    BY <2>3, StillKept DEF AddIgnored, source
  <2>4. CASE SaveLate(r)
    <3>1. UNCHANGED <<docs, index>>
      BY <2>4 DEF SaveLate, source
    <3> QED
      BY <2>4, <3>1, FlushKept, ArmTimerFields, StillKept DEF SaveLate
  <2> QED
    BY <1>3, <2>1, <2>2, <2>3, <2>4 DEF Serve
<1>4. CASE SyncWatch
  BY <1>4, ReplaceKept, Empty DEF SyncWatch, source
<1>5. CASE SaveToken \/ TimerFires
  <2>1. UNCHANGED <<docs, index>>
    BY <1>5 DEF SaveToken, TimerFires, source
  <2>2. Flush(TRUE) \/ Flush(FALSE) \/ ArmTimer
    BY <1>5 DEF SaveToken, TimerFires
  <2> QED
    BY <2>1, <2>2, FlushKept, ArmTimerFields, StillKept
<1>6. ASSUME NEW f \in Flusher, Send(f) \/ FlushFails(f) PROVE Kept
  BY <1>6, SendUpsertsKept, SendDeletesKept, FlushDoneKept, FlushFailsKept DEF Send
<1>7. CASE Crash \/ Stop
  BY <1>7, EndKept
<1> QED
  BY <1>1, <1>2, <1>3, <1>4, <1>5, <1>6, <1>7 DEF Finish

(* The invariant is inductive, given the types.                            *)
LEMMA InvStep ==
  ASSUME TypeOK, IInv, [Next]_vars
  PROVE  IInv'
<1>c. ControlInv /\ ControlInv'
  BY ControlStep DEF IInv
<1> SUFFICES OplogInv' /\ PositionInv' /\ RereadInv' /\ CopyInv' /\ ShowInv'
  BY <1>c DEF IInv
<1>1. CASE UNCHANGED vars
  BY <1>1 DEF vars, source, IInv, OplogInv, PositionInv, RereadInv, CopyInv, ShowInv, Positions,
              Tokens, Knows, Copying, ReadTo, Covered, Quiet, Shows, Still, BufferShows,
              FlushShows, Live
<1>2. CASE \E k \in Key, v \in Cell : Write(k, v)
  BY <1>2, WriteInv
<1>3. CASE Ask
  BY <1>3, <1>c, CreateInv, AskFrame, Keeping, FramedInv DEF Ask
<1>4. CASE Finish
  BY <1>4, <1>c, FinishFrame, Keeping, FramedInv
<1>5. CASE \E r \in requests : Serve(r)
  BY <1>5, <1>c, ServeFrame, Keeping, FramedInv
<1>6. CASE Copy
  <2>1. CASE SyncBegin \/ SyncFinish \/ SyncWatch \/ \E r \in requests : AddCopy(r)
    BY <2>1, <1>c, CopyFrame, Keeping, FramedInv
  <2> QED
    BY <1>6, <2>1, SyncCopyInv, AddStreamInv DEF Copy
<1>7. CASE Consume
  <2>1. CASE SaveToken
    BY <2>1, <1>c, SaveFrame, Keeping, FramedInv
  <2> QED
    BY <1>7, <2>1, StreamOpensInv, TakeEventInv DEF Consume
<1>8. CASE TimerFires
  BY <1>8, <1>c, SaveFrame, Keeping, FramedInv
<1>9. ASSUME NEW f \in Flusher, Send(f) \/ FlushFails(f)
      PROVE  OplogInv' /\ PositionInv' /\ RereadInv' /\ CopyInv' /\ ShowInv'
  BY <1>9, <1>c, FlushFrame, Keeping, FramedInv
<1>10. CASE SyncFails \/ TokenFails \/ StreamFails \/ Crash \/ Stop
  BY <1>10, <1>c, FailureFrame, Keeping, FramedInv
<1> QED
  BY <1>1, <1>2, <1>3, <1>4, <1>5, <1>6, <1>7, <1>8, <1>9, <1>10 DEF Next, Failure

(* Initially nothing is read and nothing is live.                          *)
LEMMA InitInv == Init => IInv
<1> SUFFICES ASSUME Init PROVE IInv
  OBVIOUS
<1>1. /\ consumer.pc = "idle" /\ requests = {} /\ row.token = 0 /\ row.state = "none"
      /\ 1 .. Len(oplog) = {}
      /\ \A f \in Flusher : flusher[f].work = NoWork /\ flusher[f].awaited = FALSE
  BY EmptySeq DEF Init, Idle, IdleFlusher
<1>2. ~Knows /\ ~Copying /\ ~Live
  BY <1>1 DEF Knows, Copying, Streaming, Live
<1>3. Positions = {}
  BY <1>1, <1>2 DEF Positions, Tokens
<1> QED
  BY <1>1, <1>2, <1>3 DEF IInv, OplogInv, ControlInv, PositionInv, RereadInv, CopyInv, ShowInv

-----------------------------------------------------------------------------
(* The refinement *)

(* Open keys are keys.                                                     *)
LEMMA OpenKeys == TypeOK => Open \subseteq Key
<1> SUFFICES ASSUME TypeOK PROVE Underway \cup lost \subseteq Key
  BY DEF Open
<1>1. buffer.work \in Work /\ \A f \in Flusher : flusher[f].work \in Work
  BY TypeParts DEF BufferType, Buffer, FlusherType, FlusherState
<1>2. \A w \in Work : Touched(w) \subseteq Key
  BY DEF Touched, Work
<1>3. consumer.at \in Nat /\ lost \subseteq Key
  BY TypeParts, Bounds DEF ConsumerType, Consumer, Position, CountType
<1>4. \A i \in consumer.at + 1 .. Len(oplog) : oplog[i].key \in Key
  <2>1. \A i \in consumer.at + 1 .. Len(oplog) : i \in 1 .. Len(oplog)
    BY <1>3
  <2> QED
    BY <2>1, OplogTypes DEF Event
<1> QED
  BY <1>1, <1>2, <1>3, <1>4 DEF Underway, InHand

(* A key that is not open has been read to the end, and nothing of it is   *)
(* under way.                                                              *)
LEMMA SettledKeys == TypeOK /\ IInv => R!Settled
<1> SUFFICES ASSUME TypeOK, IInv, NEW k \in Key \ Open PROVE index[k] = docs[k]
  BY DEF R!Settled
<1>1. Live /\ Knows /\ k \notin Underway \cup lost
  BY DEF Open, Served, Knows
<1>2. Still(k)
  BY <1>1 DEF Underway, InHand, Still
<1>3. ReadTo(k, consumer.at)
  <2>1. consumer.at \in Nat /\ Len(oplog) \in Nat
    BY TypeParts, Bounds, LenProperties DEF ConsumerType, Consumer, Position, DocsType
  <2>2. \A i \in consumer.at + 1 .. Len(oplog) : oplog[i].key # k
    BY <1>1 DEF Underway
  <2> QED
    BY <2>1, <2>2 DEF ReadTo
<1>4. Shows(k)
  BY <1>1, <1>3, OldTokens DEF IInv, ShowInv, Covered
<1> QED
  BY <1>2, <1>4 DEF Shows

(* Initial states map to initial states.                                   *)
LEMMA InitReplica == Init /\ TypeOK /\ IInv => R!Init
BY OpenKeys, SettledKeys, TypeParts DEF R!Init, DocsType, IndexType

(* A change opens its key.                                                 *)
LEMMA ChangeStep ==
  ASSUME TypeOK, TypeOK', IInv, NEW k \in Key, NEW v \in Cell, Write(k, v)
  PROVE  R!Change
<1>t. /\ docs \in [Key -> Cell] /\ docs' \in [Key -> Cell] /\ oplog \in Seq(Event)
      /\ consumer.at \in Nat /\ Len(oplog) \in Nat
  BY TypeParts, Bounds, LenProperties DEF TypeOK, DocsType, ConsumerType, Consumer, Position
<1>1. /\ docs' = [docs EXCEPT ![k] = v]
      /\ UNCHANGED <<row, index, consumer, buffer, flusher, requests>>
      /\ lost \ {k} \subseteq lost'
  BY DEF Write
<1>2. PICK e : oplog' = Append(oplog, e) /\ e.key = k
  BY DEF Write
<1>3. Served' <=> Served
  BY <1>1 DEF Served, Live
<1>4. (Open \subseteq Key)'
  BY OpenKeys, PTL
<1>5. CASE ~Served
  <2>1. Open = Key /\ Open' = Key
    BY <1>3, <1>5 DEF Open
  <2> QED
    BY <2>1, <1>1, <1>t DEF R!Change
<1>6. CASE Served
  <2>1. Open = Underway \cup lost /\ Open' = Underway' \cup lost'
    BY <1>3, <1>6 DEF Open
  <2>2. consumer.at <= Len(oplog)
    BY <1>6, OldTokens DEF IInv, PositionInv, Served, Knows
  <2>3. /\ Len(oplog') = Len(oplog) + 1 /\ oplog'[Len(oplog) + 1].key = k
        /\ \A i \in 1 .. Len(oplog) : oplog'[i] = oplog[i]
    BY <1>2, <1>t, AppendProperties
  <2>4. k \in Underway'
    BY <2>2, <2>3, <1>1, <1>t DEF Underway
  <2>5. Underway \subseteq Underway'
    BY <2>3, <1>1, <1>t DEF Underway, InHand
  <2> QED
    BY <2>1, <2>4, <2>5, <1>1, <1>4, <1>t DEF R!Change
<1> QED
  BY <1>5, <1>6

(* Only open keys are written to the index.                                *)
LEMMA ShownKeys ==
  ASSUME TypeOK, [Next]_vars
  PROVE  \A k \in Key \ Open : index'[k] = index[k]
<1>w. /\ buffer.work \in Work /\ \A f \in Flusher : flusher[f].work \in Work
      /\ index \in [Key -> Cell]
  BY TypeParts DEF BufferType, Buffer, FlusherType, FlusherState, IndexType
<1>u. Served => Touched(buffer.work) \subseteq Open /\ InHand \subseteq Open
  BY DEF Open, Underway
<1>s. ~Served => Open = Key
  BY DEF Open
<1>1. CASE Unindex
  <2>1. ~Served
    BY <1>1, RequestKinds DEF Unindex, Served
  <2> QED
    BY <2>1, <1>s
<1>2. CASE SyncCopy
  <2>1. ~Served
    BY <1>2 DEF SyncCopy, Served, Streaming
  <2> QED
    BY <2>1, <1>s
<1>3. ASSUME NEW f \in Flusher, SendUpserts(f) \/ SendDeletes(f), NEW k \in Key \ Open
      PROVE  index'[k] = index[k]
  <2>1. k \notin Touched(flusher[f].work)
    BY <1>s, <1>u DEF InHand
  <2>2. flusher[f].work.ups[k] = Absent /\ k \notin flusher[f].work.dels
    BY <2>1, <1>w, WorkTouched
  <2> QED
    BY <2>2, <1>3 DEF SendUpserts, SendDeletes, WithUpserts, WithDeletes
<1>4. ASSUME Stop, NEW k \in Key \ Open
      PROVE  index'[k] = index[k]
  <2>1. buffer.work.ups[k] = Absent /\ k \notin buffer.work.dels
    BY <1>s, <1>u, <1>w, WorkTouched
  <2> QED
    BY <2>1, <1>4 DEF Stop, WithUpserts, WithDeletes
<1>5. CASE UNCHANGED index
  BY <1>5
<1>6. CASE Finish
  BY <1>1, <1>5, <1>6 DEF Finish, Reset, Erase, Reconnect
<1>7. CASE UNCHANGED vars \/ (\E k \in Key, v \in Cell : Write(k, v)) \/ Ask
           \/ (\E r \in requests : Serve(r))
  BY <1>5, <1>7 DEF vars, Write, Ask, CreateCollection, Pause, Resume, ResyncOrDelete,
                    Serve, RemoveBegin, RemoveEnd, AddIgnored, SaveLate
<1>8. CASE Copy \/ Consume \/ TimerFires
  BY <1>2, <1>5, <1>8 DEF Copy, SyncBegin, SyncFinish, SyncWatch, AddCopy, AddStream,
                          Consume, StreamOpens, TakeEvent, SaveToken, TimerFires
<1>9. CASE \E f \in Flusher : Send(f) \/ FlushFails(f)
  BY <1>3, <1>5, <1>9 DEF Send, FlushDone, FlushFails
<1>10. CASE SyncFails \/ TokenFails \/ StreamFails \/ Crash \/ Stop
  BY <1>4, <1>5, <1>10 DEF SyncFails, TokenFails, StreamFails, Crash
<1> QED
  BY <1>6, <1>7, <1>8, <1>9, <1>10 DEF Next, Failure

(* Every step other than a change of the source is a Show of Replica.      *)
LEMMA ShowStep ==
  ASSUME TypeOK, TypeOK', IInv', [Next]_vars, ~\E k \in Key, v \in Cell : Write(k, v)
  PROVE  R!Show
<1>1. UNCHANGED docs
  BY DEF Next, vars, source, Ask, CreateCollection, Pause, Resume, ResyncOrDelete,
     Finish, Reset, Unindex, Erase, Reconnect, Serve, RemoveBegin, RemoveEnd, AddIgnored, SaveLate,
     Copy, SyncBegin, SyncCopy, SyncFinish, SyncWatch, AddCopy, AddStream,
     Consume, StreamOpens, TakeEvent, SaveToken, TimerFires, Send, SendUpserts, SendDeletes,
     FlushDone, Failure, SyncFails, TokenFails, StreamFails, FlushFails, Crash, Stop
<1>2. index' \in [Key -> Cell]
  BY DEF TypeOK
<1>3. (Open \subseteq Key)'
  BY OpenKeys, PTL
<1>4. R!Settled'
  BY SettledKeys, PTL
<1> QED
  BY <1>1, <1>2, <1>3, <1>4, ShownKeys DEF R!Show

(* MongoSync implements Replica (worker.ts): along every behaviour the     *)
(* documents of all keys that are not open are those of the source, and    *)
(* no step moves them.                                                     *)
THEOREM ImplementsReplica == Spec => Mirrors
<1>1. Init => IInv
  BY InitInv
<1>2. TypeOK /\ IInv /\ [Next]_vars => IInv'
  BY InvStep
<1>3. Init /\ TypeOK /\ IInv => R!Init
  BY InitReplica
<1>4. TypeOK /\ TypeOK' /\ IInv /\ IInv' /\ [Next]_vars => [R!Next]_(R!vars)
  <2> SUFFICES ASSUME TypeOK, TypeOK', IInv, IInv', [Next]_vars PROVE R!Next
    OBVIOUS
  <2>1. CASE \E k \in Key, v \in Cell : Write(k, v)
    BY <2>1, ChangeStep DEF R!Next
  <2>2. CASE ~\E k \in Key, v \in Cell : Write(k, v)
    BY <2>2, ShowStep DEF R!Next
  <2> QED
    BY <2>1, <2>2
<1>5. Spec => []TypeOK
  BY TypeCorrect
<1> QED
  BY <1>1, <1>2, <1>3, <1>4, <1>5, PTL DEF Spec, Mirrors, R!Spec
================================================================================
