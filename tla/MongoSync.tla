------------------------------- MODULE MongoSync -------------------------------
(***************************************************************************)
(* MongoDB collection -> change stream -> search index.                    *)
(*                                                                         *)
(* For a collection with a MongoDB source the SyncWorker (worker.ts) copies *)
(* the documents once, opens a change stream, puts every event into a      *)
(* buffer, stores the event's resume token in the collection row, and      *)
(* flushes the buffer when it is full or its timer fires.  Collections     *)
(* share nothing, so there is one.                                         *)
(*                                                                         *)
(* The consumer is the call of addCollection: the initial copy and then    *)
(* the loop over the stream.  A flusher is a call of flushBuffer.  An      *)
(* action is what happens between two awaits.  An event is its position in *)
(* the oplog, and so is a resume token; 0 is no token.                     *)
(*                                                                         *)
(* Several paths of this code lose a change for good.  The model takes     *)
(* them and notes the keys in "lost", until the next change of the key:    *)
(* the properties say that nothing else is ever lost.  One bound is not a  *)
(* number: a second addCollection starts when the first is over, while the *)
(* code lets two overlap and then forgets the stream of one.               *)
(***************************************************************************)
EXTENDS Integers, Sequences, FiniteSets

CONSTANTS
  Key,           \* _id of a document
  Val,           \* contents of a document
  Absent,        \* no document
  Flusher,       \* calls of flushBuffer that may be alive at once
  MaxEvents,     \* bound: changes of the source
  MaxRequests,   \* bound: admin requests in progress
  MaxFaults      \* bound: failing calls, and restarts

ASSUME ConstantsAssumption ==
  /\ Absent \notin Val
  /\ MaxEvents \in Nat /\ MaxRequests \in Nat /\ MaxFaults \in Nat

VARIABLES
  docs,      \* the source collection
  oplog,     \* its changes
  row,       \* row of project_collections
  index,     \* documents of the Meilisearch index
  consumer,  \* the call of addCollection
  stream,    \* streams: is one registered
  buffer,    \* buffers: the registered buffer
  flusher,   \* calls of flushBuffer
  requests,  \* steps that requests, start(), reconnect() and old handlers are at
  faults,    \* failures so far
  lost       \* keys whose latest change no part of the system holds

source == <<docs, oplog>>
vars == <<source, row, index, consumer, stream, buffer, flusher, requests, faults, lost>>

(***************************************************************************)
(* Types and helpers                                                       *)
(***************************************************************************)

Cell == Val \cup {Absent}
Position == 0 .. MaxEvents

Event == [kind : {"insert", "update", "delete"}, key : Key, val : Cell]

(* failed: syncStatus is "error"; nothing asks what else it may be.         *)
Row == [state : {"none", "live", "deleted"}, enabled : BOOLEAN,
        failed : BOOLEAN, token : Position]

(* What waits to be sent: the last upsert of each key, and the deletes.    *)
Work == [ups : [Key -> Cell], dels : SUBSET Key]
NoWork == [ups |-> [k \in Key |-> Absent], dels |-> {}]
Touched(w) == {k \in Key : w.ups[k] # Absent} \cup w.dels

(* at: the last event taken; todo: keys the copy has still to reach.       *)
Streaming == {"watch", "open", "token", "flush"}
Consumer == [pc : {"idle", "sync", "copy", "finish"} \cup Streaming,
             at : Position, todo : SUBSET Key]
Idle == [pc |-> "idle", at |-> 0, todo |-> {}]

Buffer == [open : BOOLEAN, work : Work, timer : BOOLEAN]
NoBuffer == [open |-> FALSE, work |-> NoWork, timer |-> FALSE]
NewBuffer == [NoBuffer EXCEPT !.open = TRUE]

(* alive: the buffer of the work is still registered; awaited: the         *)
(* consumer waits for this flush.                                          *)
FlusherState == [pc : {"idle", "upserts", "deletes", "status"}, work : Work,
                 alive : BOOLEAN, awaited : BOOLEAN]
IdleFlusher == [pc |-> "idle", work |-> NoWork, alive |-> FALSE, awaited |-> FALSE]

Request == [step : {"add", "remove", "close", "reset", "unindex", "erase", "reconnect", "late"},
            then : {"done", "reset", "unindex"}, token : Position]
At(s) == [step |-> s, then |-> "done", token |-> 0]
Add(t) == [At("add") EXCEPT !.token = t]
Late(t) == [At("late") EXCEPT !.token = t]
Remove(then) == [At("remove") EXCEPT !.then = then]

Live == row.state = "live"
SetRow(new) == row' = IF Live THEN new ELSE row
Goto(step) == consumer' = [consumer EXCEPT !.pc = step]
InHand == UNION {Touched(flusher[f].work) : f \in Flusher}

Become(old, new) == requests' = (requests \ {old}) \cup new
NewRequest == Cardinality({r \in requests : r.step \notin {"reconnect", "late"}}) < MaxRequests
Fault == faults < MaxFaults /\ faults' = faults + 1

WithUpserts(ix, w) == [k \in Key |-> IF w.ups[k] # Absent THEN w.ups[k] ELSE ix[k]]
WithDeletes(ix, w) == [k \in Key |-> IF k \in w.dels THEN Absent ELSE ix[k]]

(***************************************************************************)
(* The initial state: documents exist, the collection is not yet created.  *)
(***************************************************************************)

Init ==
  /\ docs \in [Key -> Cell] /\ oplog = <<>>
  /\ row = [state |-> "none", enabled |-> TRUE, failed |-> FALSE, token |-> 0]
  /\ index = [k \in Key |-> Absent]
  /\ consumer = Idle /\ stream = FALSE /\ buffer = NoBuffer
  /\ flusher = [f \in Flusher |-> IdleFlusher]
  /\ requests = {} /\ faults = 0 /\ lost = {}

(***************************************************************************)
(* The source.  A change is lost when it hits a document that a copy has   *)
(* passed and whose stream is not open yet.                                *)
(***************************************************************************)

InGap(k) == \/ consumer.pc \in {"copy", "finish"} /\ k \notin consumer.todo
            \/ consumer.pc = "watch" /\ consumer.at = 0

Write(k, v) ==
  /\ v # docs[k] /\ Len(oplog) < MaxEvents
  /\ docs' = [docs EXCEPT ![k] = v]
  /\ oplog' = Append(oplog, [key |-> k, val |-> v,
                             kind |-> IF v = Absent THEN "delete"
                                      ELSE IF docs[k] = Absent THEN "insert" ELSE "update"])
  /\ lost' = IF InGap(k) THEN lost \cup {k} ELSE lost \ {k}
  /\ UNCHANGED <<row, index, consumer, stream, buffer, flusher, requests, faults>>

(***************************************************************************)
(* removeCollection: the stream is aborted and closed, and the buffer goes *)
(* with what is in it.  A handler that is saving a token is not stopped.   *)
(***************************************************************************)

(* The registered buffer is replaced by b: its work and the flushes that   *)
(* came out of it have nowhere to return to.                               *)
ReplaceBuffer(b, passed) ==
  /\ buffer' = b
  /\ flusher' = [f \in Flusher |-> [flusher[f] EXCEPT !.alive = FALSE, !.awaited = FALSE]]
  /\ lost' = lost \cup Touched(buffer.work) \cup passed

After(r) == IF r.then = "done" THEN {} ELSE {At(r.then)}

RemoveBegin(r) ==
  /\ r \in requests /\ r.step = "remove"
  /\ consumer' = IF consumer.pc \in Streaming THEN Idle ELSE consumer
  /\ LET late == IF consumer.pc = "token" THEN {Late(consumer.at)} ELSE {} IN
     IF stream
     THEN /\ Become(r, late \cup {[r EXCEPT !.step = "close"]})
          /\ flusher' = [f \in Flusher |-> [flusher[f] EXCEPT !.awaited = FALSE]]
          /\ UNCHANGED <<buffer, lost>>
     ELSE /\ Become(r, late \cup After(r))
          /\ ReplaceBuffer(NoBuffer, {})
  /\ UNCHANGED <<source, row, index, stream, faults>>

RemoveEnd(r) ==
  /\ r \in requests /\ r.step = "close"
  /\ stream' = FALSE
  /\ ReplaceBuffer(NoBuffer, {})
  /\ Become(r, After(r))
  /\ UNCHANGED <<source, row, index, consumer, faults>>

(***************************************************************************)
(* Admin requests                                                          *)
(***************************************************************************)

CreateCollection ==
  /\ row.state = "none" /\ NewRequest
  /\ row' = [row EXCEPT !.state = "live"]
  /\ requests' = requests \cup {Add(0)}
  /\ UNCHANGED <<source, index, consumer, stream, buffer, flusher, faults, lost>>

Pause ==
  /\ Live /\ row.enabled /\ NewRequest
  /\ row' = [row EXCEPT !.enabled = FALSE]
  /\ requests' = requests \cup {Remove("done")}
  /\ UNCHANGED <<source, index, consumer, stream, buffer, flusher, faults, lost>>

Resume ==
  /\ Live /\ ~row.enabled /\ NewRequest
  /\ row' = [row EXCEPT !.enabled = TRUE]
  /\ requests' = requests \cup {Add(row.token)}
  /\ UNCHANGED <<source, index, consumer, stream, buffer, flusher, faults, lost>>

(* resyncCollection (its own route, or a new field mapping), deletion of   *)
(* the collection, and deletion of the project, which empties the index    *)
(* and lets the cascade erase the row without a word to the worker.        *)
ResyncOrDelete ==
  /\ Live /\ NewRequest
  /\ \E r \in {Remove("reset"), Remove("unindex"), At("unindex")} : requests' = requests \cup {r}
  /\ UNCHANGED <<source, row, index, consumer, stream, buffer, flusher, faults, lost>>

(* When the row is gone by then getCollection throws, or, a moment later,  *)
(* the update has no effect and the sync goes on.                          *)
Reset ==
  /\ At("reset") \in requests
  /\ SetRow([row EXCEPT !.failed = FALSE, !.token = 0])
  /\ \/ Become(At("reset"), {Add(0)})
     \/ ~Live /\ Become(At("reset"), {})
  /\ UNCHANGED <<source, index, consumer, stream, buffer, flusher, faults, lost>>

Unindex ==
  /\ At("unindex") \in requests
  /\ index' = [k \in Key |-> Absent]
  /\ lost' = Key
  /\ Become(At("unindex"), {At("erase")})
  /\ UNCHANGED <<source, row, consumer, stream, buffer, flusher, faults>>

Erase ==
  /\ At("erase") \in requests
  /\ row' = [row EXCEPT !.state = "deleted"]
  /\ Become(At("erase"), {})
  /\ UNCHANGED <<source, index, consumer, stream, buffer, flusher, faults, lost>>

(***************************************************************************)
(* addCollection: the copy, or straight on with the stream                 *)
(***************************************************************************)

AddIgnored(r) ==
  /\ r \in requests /\ r.step = "add" /\ stream
  /\ Become(r, {})
  /\ UNCHANGED <<source, row, index, consumer, stream, buffer, flusher, faults, lost>>

AddCopy(r) ==
  /\ r \in requests /\ r.step = "add" /\ r.token = 0 /\ ~stream /\ consumer.pc = "idle"
  /\ Goto("sync")
  /\ Become(r, {})
  /\ UNCHANGED <<source, row, index, stream, buffer, flusher, faults, lost>>

(* Keys of events after t that a token of an older stream passes, be it    *)
(* stored, about to be, or read by a request: they are read a second time, *)
(* and perhaps not to the end.                                             *)
Tokens == ({row.token} \cup {r.token : r \in requests}) \ {0}
Passed(t) ==
  {oplog[i].key : i \in {i \in 1 .. Len(oplog) : i > t /\ \E s \in Tokens : i <= s}}

AddStream(r) ==
  /\ r \in requests /\ r.step = "add" /\ r.token # 0 /\ ~stream /\ consumer.pc = "idle"
  /\ consumer' = [Idle EXCEPT !.pc = "watch", !.at = r.token]
  /\ stream' = TRUE
  /\ ReplaceBuffer(NewBuffer, Passed(r.token))
  /\ Become(r, {})
  /\ UNCHANGED <<source, row, index, faults>>

(* createIndex then keeps an index that is there.                          *)
SyncBegin ==
  /\ consumer.pc = "sync"
  /\ SetRow([row EXCEPT !.failed = FALSE])
  /\ consumer' = [consumer EXCEPT !.pc = "copy", !.todo = Key]
  /\ UNCHANGED <<source, index, stream, buffer, flusher, requests, faults, lost>>

(* The cursor is no snapshot: each document is read as it is then.  The    *)
(* document of a key that is gone stays in the index, and what an old      *)
(* buffer or a flush still holds may land on top of the copy.              *)
SyncCopy ==
  /\ consumer.pc = "copy"
  /\ \E D \in SUBSET consumer.todo :
       /\ D # {}
       /\ index' = [k \in Key |-> IF k \in D /\ docs[k] # Absent THEN docs[k] ELSE index[k]]
       /\ consumer' = [consumer EXCEPT !.todo = @ \ D]
       /\ lost' = (lost \ D) \cup
            {k \in D : index'[k] # docs[k] \/ k \in Touched(buffer.work) \cup InHand}
  /\ UNCHANGED <<source, row, stream, buffer, flusher, requests, faults>>

SyncFinish ==
  /\ consumer.pc = "copy" /\ consumer.todo = {}
  /\ SetRow([row EXCEPT !.failed = FALSE])
  /\ Goto("finish")
  /\ UNCHANGED <<source, index, stream, buffer, flusher, requests, faults, lost>>

SyncWatch ==
  /\ consumer.pc = "finish"
  /\ consumer' = [Idle EXCEPT !.pc = "watch"]
  /\ stream' = TRUE
  /\ ReplaceBuffer(NewBuffer, {})
  /\ UNCHANGED <<source, row, index, requests, faults>>

(* The first status update is outside the try block.                       *)
SyncFails ==
  /\ Fault
  /\ consumer.pc \in {"sync", "copy"}
  /\ IF consumer.pc = "sync" THEN UNCHANGED row ELSE SetRow([row EXCEPT !.failed = TRUE])
  /\ consumer' = Idle
  /\ UNCHANGED <<source, index, stream, buffer, flusher, requests, lost>>

(***************************************************************************)
(* consumeStream                                                           *)
(***************************************************************************)

(* (mutant) The stream opens past the event it should start with.          *)
StreamOpensPast ==
  /\ consumer.pc = "watch"
  /\ consumer' = [consumer EXCEPT !.pc = "open",
                                  !.at = IF @ \in {0, Len(oplog)} THEN Len(oplog) ELSE @ + 1]
  /\ UNCHANGED <<source, row, index, stream, buffer, flusher, requests, faults, lost>>

(* The stream is opened by the first read: after the token, or now.        *)
StreamOpens ==
  /\ consumer.pc = "watch"
  /\ consumer' = [consumer EXCEPT !.pc = "open", !.at = IF @ = 0 THEN Len(oplog) ELSE @]
  /\ UNCHANGED <<source, row, index, stream, buffer, flusher, requests, faults, lost>>

(* updateLookup: an update brings the document as it is some time between  *)
(* the change and its delivery, or none if it is gone by then.             *)
Delivered(i) ==
  LET e == oplog[i] IN
  IF e.kind = "update"
  THEN {oplog[j].val : j \in {j \in i .. Len(oplog) : oplog[j].key = e.key}}
  ELSE {e.val}

Buffered(w, e, v) ==
  IF e.kind = "delete" THEN [w EXCEPT !.dels = @ \cup {e.key}]
  ELSE IF v = Absent THEN w ELSE [w EXCEPT !.ups[e.key] = v]

(* handleChangeEvent up to its first await.  The deletes of a flush follow *)
(* its upserts: a document inserted again behind its own delete is lost.   *)
TakeEvent ==
  /\ consumer.pc = "open" /\ consumer.at < Len(oplog)
  /\ LET i == consumer.at + 1
         e == oplog[i] IN
     /\ \E v \in Delivered(i) : buffer' = [buffer EXCEPT !.work = Buffered(@, e, v)]
     /\ lost' = IF e.kind # "delete" /\ e.key \in buffer.work.dels
                THEN lost \cup {e.key} ELSE lost
     /\ consumer' = [consumer EXCEPT !.pc = "token", !.at = i]
  /\ UNCHANGED <<source, row, index, stream, flusher, requests, faults>>

(* flushBuffer up to its first await: nothing happens without a buffer or  *)
(* without work.  A key that another flush is sending may end up with      *)
(* either content.                                                         *)
Flush(awaited) ==
  LET w == buffer.work IN
  IF ~buffer.open \/ w = NoWork
  THEN /\ ~awaited
       /\ buffer' = [buffer EXCEPT !.timer = FALSE]
       /\ UNCHANGED <<flusher, lost>>
  ELSE LET free == {f \in Flusher : flusher[f].pc = "idle"}
           f == CHOOSE f \in free : TRUE IN
       /\ free # {}
       /\ flusher' = [flusher EXCEPT ![f] =
            [pc |-> IF \E k \in Key : w.ups[k] # Absent THEN "upserts" ELSE "deletes",
             work |-> w, alive |-> TRUE, awaited |-> awaited]]
       /\ buffer' = NewBuffer
       /\ lost' = lost \cup (Touched(w) \cap InHand)

ArmTimer ==
  /\ buffer' = [buffer EXCEPT !.timer = buffer.open]
  /\ UNCHANGED <<flusher, lost>>

(* (mutant) The timer is armed only if the buffer is empty.                *)
SaveTokenNoTimer ==
  /\ consumer.pc = "token"
  /\ SetRow([row EXCEPT !.token = consumer.at])
  /\ Goto("open")
  /\ buffer' = [buffer EXCEPT !.timer = @ \/ buffer.work = NoWork]
  /\ UNCHANGED <<source, index, stream, flusher, requests, faults, lost>>

(* The token is stored; then a full buffer is flushed by the handler, any  *)
(* other one gets a timer.  Whether it is full is left open.               *)
SaveToken ==
  /\ consumer.pc = "token"
  /\ SetRow([row EXCEPT !.token = consumer.at])
  /\ \/ Flush(TRUE) /\ Goto("flush")
     \/ ArmTimer /\ Goto("open")
  /\ UNCHANGED <<source, index, stream, requests, faults>>

(* The handler of a stream that was removed meanwhile: it stores its token *)
(* in the row as it is now and flushes whatever buffer there is now.       *)
SaveLate(r) ==
  /\ r \in requests /\ r.step = "late"
  /\ SetRow([row EXCEPT !.token = r.token])
  /\ Flush(FALSE) \/ ArmTimer
  /\ Become(r, {})
  /\ UNCHANGED <<source, index, consumer, stream, faults>>

(* The update fails: the event stays in the buffer, nothing is armed.      *)
TokenFails ==
  /\ Fault
  /\ consumer.pc = "token"
  /\ Goto("open")
  /\ UNCHANGED <<source, row, index, stream, buffer, flusher, requests, lost>>

TimerFires ==
  /\ buffer.timer
  /\ Flush(FALSE)
  /\ UNCHANGED <<source, row, index, consumer, stream, requests, faults>>

(* The stream throws.  Its registrations go, the buffer stays; a token the *)
(* server no longer has leads to a resync, anything else to a reconnect    *)
(* after five seconds.                                                     *)
StreamFails ==
  /\ Fault
  /\ consumer.pc \in {"watch", "open"}
  /\ consumer' = Idle /\ stream' = FALSE
  /\ \/ /\ SetRow([row EXCEPT !.failed = TRUE])
        /\ requests' = requests \cup {At("reconnect")}
     \/ /\ requests' = requests \cup {Remove("reset")}
        /\ UNCHANGED row
  /\ UNCHANGED <<source, index, buffer, flusher, lost>>

Reconnect ==
  /\ At("reconnect") \in requests
  /\ Become(At("reconnect"),
            IF Live /\ row.enabled /\ ~row.failed THEN {Add(row.token)} ELSE {})
  /\ UNCHANGED <<source, row, index, consumer, stream, buffer, flusher, faults, lost>>

(***************************************************************************)
(* flushBuffer                                                             *)
(***************************************************************************)

(* The consumer that waits for flush f goes on.                            *)
Done(f) ==
  /\ flusher' = [flusher EXCEPT ![f] = IdleFlusher]
  /\ consumer' = IF flusher[f].awaited THEN [consumer EXCEPT !.pc = "open"] ELSE consumer

SendUpserts(f) ==
  /\ flusher[f].pc = "upserts"
  /\ index' = WithUpserts(index, flusher[f].work)
  /\ flusher' = [flusher EXCEPT ![f].pc =
                   IF flusher[f].work.dels = {} THEN "status" ELSE "deletes"]
  /\ UNCHANGED <<source, row, consumer, stream, buffer, requests, faults, lost>>

SendDeletes(f) ==
  /\ flusher[f].pc = "deletes"
  /\ index' = WithDeletes(index, flusher[f].work)
  /\ flusher' = [flusher EXCEPT ![f].pc = "status"]
  /\ UNCHANGED <<source, row, consumer, stream, buffer, requests, faults, lost>>

FlushDone(f) ==
  /\ flusher[f].pc = "status"
  /\ Done(f)
  /\ UNCHANGED <<source, row, index, stream, buffer, requests, faults, lost>>

(* Work w that goes back in front of what has come since.                  *)
Merged(w, new) == [ups |-> [k \in Key |-> IF new.ups[k] # Absent THEN new.ups[k] ELSE w.ups[k]],
                   dels |-> w.dels \cup new.dels]

(* A call fails: everything goes back.  No timer is armed.  A delete that  *)
(* goes back takes a later insert with it.                                 *)
FlushFails(f) ==
  /\ Fault
  /\ flusher[f].pc # "idle"
  /\ LET w == flusher[f].work IN
     IF flusher[f].alive
     THEN /\ buffer' = [buffer EXCEPT !.work = Merged(w, @)]
          /\ lost' = lost \cup {k \in w.dels : buffer.work.ups[k] # Absent}
     ELSE UNCHANGED buffer /\ lost' = lost \cup Touched(w)
  /\ Done(f)
  /\ UNCHANGED <<source, row, index, stream, requests>>

(***************************************************************************)
(* The process ends, at any point, and start() adds the collection again.  *)
(***************************************************************************)

StartAgain ==
  /\ consumer' = Idle /\ stream' = FALSE /\ buffer' = NoBuffer
  /\ flusher' = [f \in Flusher |-> IdleFlusher]
  /\ requests' = IF Live /\ row.enabled /\ ~row.failed THEN {Add(row.token)} ELSE {}

Crash ==
  /\ Fault
  /\ StartAgain
  /\ lost' = lost \cup Touched(buffer.work) \cup InHand
  /\ UNCHANGED <<source, row, index>>

(* stop() flushes the registered buffer; a flush that is already under way *)
(* is not awaited.                                                         *)
Stop ==
  /\ Fault
  /\ index' = IF Live THEN WithDeletes(WithUpserts(index, buffer.work), buffer.work) ELSE index
  /\ StartAgain
  /\ lost' = lost \cup InHand
  /\ UNCHANGED <<source, row>>

-----------------------------------------------------------------------------

Ask == CreateCollection \/ Pause \/ Resume \/ ResyncOrDelete

Serve(r) == RemoveBegin(r) \/ RemoveEnd(r) \/ AddIgnored(r) \/ SaveLate(r)

Finish == Reset \/ Unindex \/ Erase \/ Reconnect

Copy == \/ SyncBegin \/ SyncCopy \/ SyncFinish \/ SyncWatch
        \/ \E r \in requests : AddCopy(r) \/ AddStream(r)

Consume == StreamOpens \/ TakeEvent \/ SaveToken

Send(f) == SendUpserts(f) \/ SendDeletes(f) \/ FlushDone(f)

Failure == \/ SyncFails \/ TokenFails \/ StreamFails
           \/ \E f \in Flusher : FlushFails(f)
           \/ Crash \/ Stop

Next == \/ \E k \in Key, v \in Cell : Write(k, v)
        \/ Ask \/ Finish \/ \E r \in requests : Serve(r)
        \/ Copy \/ Consume \/ TimerFires
        \/ \E f \in Flusher : Send(f)
        \/ Failure

Spec == Init /\ [][Next]_vars

(***************************************************************************)
(* Properties                                                              *)
(***************************************************************************)

TypeOK ==
  /\ docs \in [Key -> Cell]
  /\ oplog \in Seq(Event) /\ Len(oplog) <= MaxEvents
  /\ row \in Row
  /\ index \in [Key -> Cell]
  /\ consumer \in Consumer /\ stream \in BOOLEAN
  /\ buffer \in Buffer
  /\ flusher \in [Flusher -> FlusherState]
  /\ requests \in SUBSET Request
  /\ faults \in 0 .. MaxFaults
  /\ lost \in SUBSET Key

(* A stream that knows where it stands is registered for a live row that   *)
(* nobody is about to delete.                                              *)
Served == /\ Live /\ \A r \in requests : "unindex" \notin {r.step, r.then} /\ r.step # "erase"
          /\ consumer.pc \in Streaming /\ (consumer.pc = "watch" => consumer.at # 0)

(* Keys whose latest change some part of the system still holds.           *)
Underway == Touched(buffer.work) \cup InHand
              \cup {oplog[i].key : i \in consumer.at + 1 .. Len(oplog)}

Open == IF Served THEN Underway \cup lost ELSE Key

R == INSTANCE Replica WITH source <- docs, view <- index, open <- Open

(* The sync is a replica: while a stream is registered, also after pauses, *)
(* failed flushes and restarts from the stored token, every key shows its  *)
(* document unless a change of it is on its way or was lost in one of the  *)
(* ways noted above.                                                       *)
Mirrors == R!Spec

(* A failed call leaves the buffer behind without a timer.                 *)
Waiting == IF faults = 0 THEN {} ELSE Touched(buffer.work)

(* Every call returns and every timer fires.                               *)
FairSpec ==
  /\ Spec
  /\ WF_vars(Finish) /\ WF_vars(\E r \in requests : Serve(r))
  /\ WF_vars(Copy) /\ WF_vars(Consume) /\ WF_vars(TimerFires)
  /\ \A f \in Flusher : WF_vars(Send(f))

(* Changes arrive: when a stream stays registered, the index ends up with  *)
(* every change except the lost ones and the waiting ones.                 *)
ChangesArrive == <>[]Served => <>[](Open \subseteq lost \cup Waiting)
================================================================================
