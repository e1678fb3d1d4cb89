------------------------- MODULE PgOutboxSyncProofs -------------------------
(***************************************************************************)
(* Proofs about PgOutboxSync for any collections and activities: types,    *)
(* and that an enabled collection is never left without an activity.       *)
(***************************************************************************)
EXTENDS PgOutboxSync, FiniteSetTheorems, TLAPS

-----------------------------------------------------------------------------
(* Type correctness                                                        *)

LEMMA IdleFiberType == IdleFiber \in FiberState /\ ArmedFiber \in FiberState
<1>1. IdleFiber \in FiberState
  BY ConstantsAssumption DEF IdleFiber, FiberState
<1>2. ArmedFiber \in FiberState
  BY <1>1 DEF ArmedFiber, FiberState
<1> QED BY <1>1, <1>2

(* What is sent to an index is an index.                                   *)
LEMMA IndexWriteType ==
  ASSUME NEW ix \in [Key -> Cell], NEW S \in SUBSET Change, NEW D \in SUBSET (Key \X Val)
  PROVE  /\ WithUpserts(ix, S) \in [Key -> Cell]
         /\ WithDeletes(ix, S) \in [Key -> Cell]
         /\ WithDocs(ix, D) \in [Key -> Cell]
<1>1. ASSUME NEW k \in Key, \E e \in S : e.key = k /\ LastUpsert(e, S)
      PROVE  (CHOOSE e \in S : e.key = k /\ LastUpsert(e, S)).val \in Cell
  BY <1>1 DEF Change
<1>2. ASSUME NEW k \in Key, \E v \in Val : <<k, v>> \in D
      PROVE  (CHOOSE v \in Val : <<k, v>> \in D) \in Cell
  BY <1>2 DEF Cell
<1>3. Absent \in Cell
  BY DEF Cell
<1>4. WithUpserts(ix, S) \in [Key -> Cell]
  BY <1>1 DEF WithUpserts
<1>5. WithDeletes(ix, S) \in [Key -> Cell]
  BY <1>3 DEF WithDeletes
<1>6. WithDocs(ix, D) \in [Key -> Cell]
  BY <1>2 DEF WithDocs
<1> QED BY <1>4, <1>5, <1>6

LEMMA FiberStateType ==
  ASSUME WorkerType, NEW c \in Coll, NEW f \in Fiber
  PROVE  /\ fiber[c][f] \in FiberState
         /\ fiber[c][f].pc \in {"idle", "timer"} \cup Busy
         /\ fiber[c][f].aborted \in BOOLEAN
         /\ fiber[c][f].cursor \in 0 .. MaxId
         /\ fiber[c][f].batch \in SUBSET Change
         /\ fiber[c][f].todo \in SUBSET (Key \X Val)
<1>1. fiber[c][f] \in FiberState
  BY DEF WorkerType
<1> QED BY <1>1 DEF FiberState

(* One fiber moves, the others keep their state.                           *)
LEMMA StepType ==
  ASSUME WorkerType, NEW c \in Coll, NEW f \in Fiber, NEW new \in FiberState,
         Step(c, f, new)
  PROVE  fiber' \in [Coll -> [Fiber -> FiberState]]
<1>1. fiber \in [Coll -> [Fiber -> FiberState]]
  BY DEF WorkerType
<1>2. fiber' = [fiber EXCEPT ![c][f] = new]
  BY DEF Step
<1> QED BY <1>1, <1>2

LEMMA GotoType ==
  ASSUME WorkerType, NEW c \in Coll, NEW f \in Fiber, NEW s \in {"idle", "timer"} \cup Busy,
         Goto(c, f, s)
  PROVE  fiber' \in [Coll -> [Fiber -> FiberState]]
<1>1. [fiber[c][f] EXCEPT !.pc = s] \in FiberState
  BY FiberStateType DEF FiberState
<1> QED BY <1>1, StepType DEF Goto

LEMMA RemovedType ==
  ASSUME WorkerType, NEW c \in Coll, Removed(c)
  PROVE  WorkerType'
<1>1. ASSUME NEW f \in Fiber PROVE RemovedFiber(c, f) \in FiberState
  <2> DEFINE stops == fiber[c][f].pc = "idle" \/ (fiber[c][f].pc = "timer" /\ f = poller[c])
  <2>1. CASE stops
    BY <2>1, IdleFiberType DEF RemovedFiber
  <2>2. CASE ~stops
    <3> DEFINE b == fiber[c][f].aborted \/ f = controller[c]
    <3>1. RemovedFiber(c, f) = [fiber[c][f] EXCEPT !.aborted = b]
      BY <2>2 DEF RemovedFiber
    <3>2. b \in BOOLEAN
      OBVIOUS
    <3> HIDE DEF b
    <3> QED BY <3>1, <3>2, FiberStateType DEF FiberState
  <2> QED BY <2>1, <2>2
<1>2. fiber' \in [Coll -> [Fiber -> FiberState]]
  BY <1>1 DEF WorkerType, Removed
<1> QED BY <1>2 DEF Removed, WorkerType

LEMMA RescheduleType ==
  ASSUME WorkerType, NEW c \in Coll, NEW f \in Fiber, Reschedule(c, f)
  PROVE  /\ fiber' \in [Coll -> [Fiber -> FiberState]]
         /\ poller' \in [Coll -> Fiber \cup {None}]
<1>1. \/ Step(c, f, IdleFiber) /\ poller' = poller
      \/ Step(c, f, ArmedFiber) /\ poller' = [poller EXCEPT ![c] = f]
  BY Zenon DEF Reschedule
<1>2. fiber' \in [Coll -> [Fiber -> FiberState]]
  BY <1>1, IdleFiberType, StepType
<1>3. poller' \in [Coll -> Fiber \cup {None}]
  BY <1>1 DEF WorkerType
<1> QED BY <1>2, <1>3

LEMMA SetRowType ==
  ASSUME coll \in [Coll -> CollRow], NEW c \in Coll, NEW r \in CollRow, SetRow(c, r)
  PROVE  coll' \in [Coll -> CollRow]
BY DEF SetRow

LEMMA BecomeType ==
  ASSUME RequestType, NEW c \in Coll, NEW old, NEW new \in SUBSET RequestStep,
         Become(c, old, new)
  PROVE  RequestType'
BY DEF Become, RequestType

LEMMA AlterTriggerType ==
  ASSUME SourceType, NEW b \in BOOLEAN, AlterTrigger(b)
  PROVE  SourceType'
BY DEF AlterTrigger, SourceType

(* A part of the state that is left alone keeps its type.                  *)
LEMMA Unchanged ==
  ASSUME TypeOK
  PROVE  /\ UNCHANGED sourceVars => SourceType'
         /\ UNCHANGED <<coll, index>> => StoreType'
         /\ UNCHANGED <<fiber, poller, controller>> => WorkerType'
         /\ UNCHANGED requests => RequestType'
         /\ UNCHANGED past => HistoryType'
<1>1. UNCHANGED sourceVars => SourceType'
  BY DEF TypeOK, SourceType, sourceVars
<1>2. UNCHANGED <<coll, index>> => StoreType'
  BY DEF TypeOK, StoreType
<1>3. UNCHANGED <<fiber, poller, controller>> => WorkerType'
  BY DEF TypeOK, WorkerType
<1>4. UNCHANGED requests => RequestType'
  BY DEF TypeOK, RequestType
<1>5. UNCHANGED past => HistoryType'
  BY DEF TypeOK, HistoryType
<1> QED BY <1>1, <1>2, <1>3, <1>4, <1>5

LEMMA CollType ==
  ASSUME StoreType, NEW c \in Coll
  PROVE  /\ coll[c] \in CollRow
         /\ coll[c].row \in {"none", "live", "deleted"} /\ coll[c].enabled \in BOOLEAN
         /\ coll[c].status \in {"idle", "syncing", "error"}
         /\ coll[c].cursor \in 0 .. MaxId /\ coll[c].synced \in BOOLEAN
<1>1. coll[c] \in CollRow
  BY DEF StoreType
<1> QED BY <1>1 DEF CollRow

LEMMA RowUpdateType ==
  ASSUME NEW r \in CollRow, NEW s \in {"idle", "syncing", "error"}, NEW m \in 0 .. MaxId,
         NEW b \in BOOLEAN
  PROVE  /\ [r EXCEPT !.status = s] \in CollRow
         /\ [r EXCEPT !.status = s, !.synced = b, !.cursor = m] \in CollRow
         /\ [r EXCEPT !.status = s, !.cursor = m, !.synced = b] \in CollRow
BY DEF CollRow

LEMMA RowResetType ==
  ASSUME NEW r \in CollRow
  PROVE  [r EXCEPT !.status = "idle", !.cursor = 0, !.synced = FALSE] \in CollRow
<1>1. 0 \in 0 .. MaxId
  BY ConstantsAssumption
<1> QED BY <1>1 DEF CollRow

LEMMA AddStepType ==
  ASSUME NEW r
  PROVE  AddStep(r) \in {"addInitial", "addPoll"}
BY DEF AddStep

LEMMA SourceTypeStep ==
  ASSUME TypeOK, Source
  PROVE  TypeOK'
<1> USE DEF workerVars
<1>1. ASSUME NEW k \in Key, NEW v \in Cell, Write(k, v)
      PROVE  TypeOK'
  <2>1. SourceType'
    <3>1. (trigger => seq + 1 \in 0 .. MaxId) /\ 0 \in 0 .. MaxId /\ seq' \in 0 .. MaxId
      BY <1>1, ConstantsAssumption DEF Write, TypeOK, SourceType
    <3>2. inflight' \in SUBSET Change
      BY <1>1, <3>1 DEF Write, TypeOK, SourceType, Change
    <3> QED BY <1>1, <3>1, <3>2 DEF Write, TypeOK, SourceType
  <2> QED BY <1>1, <2>1, Unchanged DEF Write, TypeOK
<1>2. ASSUME NEW e \in inflight, Commit(e)
      PROVE  TypeOK'
  <2>1. SourceType'
    <3>1. e \in Change
      BY DEF TypeOK, SourceType
    <3>2. e.key \in Key /\ e.val \in Cell
      BY <3>1 DEF Change
    <3> QED BY <1>2, <3>1, <3>2 DEF Commit, TypeOK, SourceType
  <2> QED BY <1>2, <2>1, Unchanged DEF Commit, TypeOK
<1>3. ASSUME NEW e \in inflight, Rollback(e)
      PROVE  TypeOK'
  <2>1. SourceType'
    BY <1>3 DEF Rollback, TypeOK, SourceType
  <2> QED BY <1>3, <2>1, Unchanged DEF Rollback, TypeOK
<1> QED BY <1>1, <1>2, <1>3 DEF Source

LEMMA AdminTypeStep ==
  ASSUME TypeOK, NEW c \in Coll, Admin(c)
  PROVE  TypeOK'
<1>1. SourceType /\ StoreType /\ WorkerType /\ RequestType /\ HistoryType
  BY DEF TypeOK
<1>2. CASE CreateCollection(c)
  <2>1. StoreType'
    BY <1>1, <1>2, CollType DEF CreateCollection, StoreType, CollRow
  <2>2. RequestType'
    BY <1>1, <1>2, BecomeType DEF CreateCollection, RequestStep
  <2> QED BY <1>2, <2>1, <2>2, Unchanged DEF CreateCollection, TypeOK
<1>3. CASE ProvisionDrop(c)
  <2>1. SourceType' /\ RequestType'
    BY <1>1, <1>3, AlterTriggerType, BecomeType DEF ProvisionDrop, RequestStep
  <2> QED BY <1>3, <2>1, Unchanged DEF ProvisionDrop, TypeOK
<1>4. CASE ProvisionCreate(c)
  <2>1. SourceType' /\ RequestType'
    BY <1>1, <1>4, AlterTriggerType, BecomeType DEF ProvisionCreate, RequestStep
  <2> QED BY <1>4, <2>1, Unchanged DEF ProvisionCreate, TypeOK
<1>5. CASE ProvisionFails(c)
  <2>1. StoreType'
    BY <1>1, <1>5, CollType DEF ProvisionFails, StoreType, CollRow
  <2>2. RequestType'
    BY <1>1, <1>5, BecomeType DEF ProvisionFails
  <2> QED BY <1>5, <2>1, <2>2, Unchanged DEF ProvisionFails, TypeOK
<1>6. CASE Disable(c)
  <2>1. StoreType'
    BY <1>1, <1>6, CollType, ZenonT(60) DEF Disable, StoreType, CollRow
  <2>2. RequestType'
    BY <1>1, <1>6, BecomeType DEF Disable, RequestStep
  <2> QED BY <1>6, <2>1, <2>2, Unchanged DEF Disable, TypeOK
<1>7. CASE Remove(c)
  <2>1. WorkerType' /\ RequestType'
    BY <1>1, <1>7, RemovedType, BecomeType DEF Remove
  <2> QED BY <1>7, <2>1, Unchanged DEF Remove, TypeOK
<1>8. CASE Enable(c)
  <2>1. StoreType'
    BY <1>1, <1>8, CollType DEF Enable, StoreType, CollRow
  <2>2. {AddStep(coll[c])} \in SUBSET RequestStep
    BY AddStepType DEF RequestStep
  <2>3. RequestType'
    BY <1>1, <1>8, <2>2, BecomeType DEF Enable
  <2> QED BY <1>8, <2>1, <2>3, Unchanged DEF Enable, TypeOK
<1>9. CASE Resync(c)
  <2>1. WorkerType' /\ RequestType'
    BY <1>1, <1>9, RemovedType, BecomeType DEF Resync, RequestStep
  <2>2. HistoryType'
    BY <1>1, <1>9 DEF Resync, HistoryType
  <2> QED BY <1>9, <2>1, <2>2, Unchanged DEF Resync, TypeOK
<1>10. CASE Reset(c)
  <2>1. [coll[c] EXCEPT !.status = "idle", !.cursor = 0, !.synced = FALSE] \in CollRow
    BY <1>1, CollType, RowResetType
  <2>2. StoreType'
    BY <1>1, <1>10, <2>1, SetRowType DEF Reset, StoreType
  <2>3. RequestType'
    BY <1>1, <1>10, BecomeType DEF Reset, RequestStep
  <2> QED BY <1>10, <2>2, <2>3, Unchanged DEF Reset, TypeOK
<1>11. CASE DeleteCollection(c)
  <2>1. WorkerType' /\ RequestType'
    BY <1>1, <1>11, RemovedType, BecomeType DEF DeleteCollection, RequestStep
  <2>2. HistoryType'
    BY <1>1, <1>11 DEF DeleteCollection, HistoryType
  <2> QED BY <1>11, <2>1, <2>2, Unchanged DEF DeleteCollection, TypeOK
<1>12. CASE Untrigger(c)
  <2>1. SourceType'
    BY <1>1, <1>12, AlterTriggerType, Unchanged DEF Untrigger
  <2>2. RequestType'
    BY <1>1, <1>12, BecomeType DEF Untrigger, RequestStep
  <2> QED BY <1>12, <2>1, <2>2, Unchanged DEF Untrigger, TypeOK
<1>13. CASE Unindex(c)
  <2>1. EmptyIndex \in [Key -> Cell]
    BY DEF EmptyIndex, Cell
  <2>2. StoreType'
    BY <1>1, <1>13, <2>1 DEF Unindex, StoreType
  <2>3. RequestType'
    BY <1>1, <1>13, BecomeType DEF Unindex, RequestStep
  <2> QED BY <1>13, <2>2, <2>3, Unchanged DEF Unindex, TypeOK
<1>14. CASE Erase(c)
  <2>1. StoreType'
    BY <1>1, <1>14, CollType DEF Erase, StoreType, CollRow
  <2>2. RequestType'
    BY <1>1, <1>14, BecomeType DEF Erase
  <2> QED BY <1>14, <2>1, <2>2, Unchanged DEF Erase, TypeOK
<1>15. CASE AddIgnored(c)
  <2>1. RequestType'
    BY <1>1, <1>15, BecomeType DEF AddIgnored
  <2> QED BY <1>15, <2>1, Unchanged DEF AddIgnored, TypeOK
<1>16. CASE DeleteProject(c)
  <2>1. StoreType'
    BY <1>1, <1>16 DEF DeleteProject, StoreType, EmptyIndex, Cell
  <2>2. RequestType'
    BY <1>1, <1>16, BecomeType DEF DeleteProject, RequestStep
  <2>3. HistoryType'
    BY <1>1, <1>16 DEF DeleteProject, HistoryType
  <2> QED BY <1>16, <2>1, <2>2, <2>3, Unchanged DEF DeleteProject, TypeOK
<1> QED BY <1>2, <1>3, <1>4, <1>5, <1>6, <1>7, <1>8, <1>9, <1>10, <1>11, <1>12,
           <1>13, <1>14, <1>15, <1>16 DEF Admin

LEMMA SyncTypeStep ==
  ASSUME TypeOK, NEW c \in Coll, NEW f \in Fiber, InitialSync(c, f)
  PROVE  TypeOK'
<1>1. SourceType /\ StoreType /\ WorkerType /\ RequestType /\ HistoryType
  BY DEF TypeOK
<1>2. CASE AddInitial(c, f)
  <2>1. WorkerType'
    BY <1>1, <1>2, GotoType DEF AddInitial, WorkerType, Busy, InitialStep
  <2>2. RequestType'
    BY <1>1, <1>2, BecomeType DEF AddInitial
  <2> QED BY <1>2, <2>1, <2>2, Unchanged DEF AddInitial, TypeOK
<1>3. CASE SyncBegin(c, f)
  <2>1. [coll[c] EXCEPT !.status = "syncing"] \in CollRow
    BY <1>1, CollType DEF CollRow
  <2>2. StoreType'
    BY <1>1, <1>3, <2>1, SetRowType DEF SyncBegin, StoreType
  <2>3. WorkerType'
    BY <1>1, <1>3, GotoType DEF SyncBegin, WorkerType, Busy, InitialStep
  <2> QED BY <1>3, <2>2, <2>3, Unchanged DEF SyncBegin, TypeOK
<1>4. CASE SyncDrop(c, f)
  <2>1. SourceType'
    BY <1>1, <1>4, AlterTriggerType DEF SyncDrop
  <2>2. WorkerType'
    BY <1>1, <1>4, GotoType DEF SyncDrop, WorkerType, Busy, InitialStep
  <2> QED BY <1>4, <2>1, <2>2, Unchanged DEF SyncDrop, TypeOK
<1>5. CASE SyncCreate(c, f)
  <2>1. SourceType'
    BY <1>1, <1>5, AlterTriggerType DEF SyncCreate
  <2>2. WorkerType'
    BY <1>1, <1>5, GotoType DEF SyncCreate, WorkerType, Busy, InitialStep
  <2> QED BY <1>5, <2>1, <2>2, Unchanged DEF SyncCreate, TypeOK
<1>6. CASE SyncMark(c, f)
  <2>1. PICK m \in 0 .. MaxId : Step(c, f, [fiber[c][f] EXCEPT !.pc = "open", !.cursor = m])
    BY <1>6 DEF SyncMark
  <2>2. [fiber[c][f] EXCEPT !.pc = "open", !.cursor = m] \in FiberState
    BY <1>1, FiberStateType DEF FiberState, Busy, InitialStep
  <2>3. WorkerType'
    BY <1>1, <1>6, <2>1, <2>2, StepType DEF SyncMark, WorkerType
  <2>4. HistoryType'
    BY <1>1, <1>6 DEF SyncMark, HistoryType
  <2> QED BY <1>6, <2>3, <2>4, Unchanged DEF SyncMark, TypeOK
<1>7. CASE SyncOpen(c, f)
  <2> DEFINE rows == {r \in Key \X Val : table[r[1]] = r[2]}
  <2>1. rows \in SUBSET (Key \X Val)
    OBVIOUS
  <2>2. Step(c, f, [fiber[c][f] EXCEPT !.pc = "snapshot", !.todo = rows])
    BY <1>7 DEF SyncOpen
  <2> HIDE DEF rows
  <2>3. [fiber[c][f] EXCEPT !.pc = "snapshot", !.todo = rows] \in FiberState
    BY <1>1, <2>1, FiberStateType DEF FiberState, Busy, InitialStep
  <2>4. WorkerType'
    BY <1>1, <1>7, <2>2, <2>3, StepType DEF SyncOpen, WorkerType
  <2> QED BY <1>7, <2>4, Unchanged DEF SyncOpen, TypeOK
<1>8. CASE SyncBatch(c, f)
  <2>1. PICK D \in SUBSET fiber[c][f].todo :
          /\ index' = [index EXCEPT ![c] = WithDocs(@, D)]
          /\ Step(c, f, [fiber[c][f] EXCEPT !.todo = @ \ D])
    BY <1>8 DEF SyncBatch
  <2>2. D \in SUBSET (Key \X Val)
    BY <1>1, FiberStateType
  <2>3. StoreType'
    BY <1>1, <1>8, <2>1, <2>2, IndexWriteType DEF SyncBatch, StoreType
  <2>4. [fiber[c][f] EXCEPT !.todo = @ \ D] \in FiberState
    BY <1>1, FiberStateType DEF FiberState
  <2>5. WorkerType'
    BY <1>1, <1>8, <2>1, <2>4, StepType DEF SyncBatch, WorkerType
  <2> QED BY <1>8, <2>3, <2>5, Unchanged DEF SyncBatch, TypeOK
<1>9. CASE SyncFinish(c, f)
  <2>1. [coll[c] EXCEPT !.status = "idle", !.synced = TRUE, !.cursor = fiber[c][f].cursor]
          \in CollRow
    BY <1>1, CollType, FiberStateType DEF CollRow
  <2>2. StoreType'
    BY <1>1, <1>9, <2>1, SetRowType DEF SyncFinish, StoreType
  <2>3. WorkerType'
    BY <1>1, <1>9, StepType, IdleFiberType DEF SyncFinish, WorkerType
  <2> QED BY <1>9, <2>2, <2>3, Unchanged DEF SyncFinish, TypeOK
<1> QED BY <1>2, <1>3, <1>4, <1>5, <1>6, <1>7, <1>8, <1>9 DEF InitialSync

(* The first changes of a set are some of its changes.                     *)
LEMMA FirstSubset ==
  ASSUME NEW n, NEW S
  PROVE  First(n, S) \subseteq S
BY DEF First

LEMMA PollTypeStep ==
  ASSUME TypeOK, NEW c \in Coll, NEW f \in Fiber, Poll(c, f)
  PROVE  TypeOK'
<1>1. SourceType /\ StoreType /\ WorkerType /\ RequestType /\ HistoryType
  BY DEF TypeOK
<1>2. CASE AddPoll(c, f)
  <2>1. WorkerType'
    BY <1>1, <1>2, GotoType DEF AddPoll, WorkerType
  <2>2. RequestType'
    BY <1>1, <1>2, BecomeType DEF AddPoll
  <2> QED BY <1>2, <2>1, <2>2, Unchanged DEF AddPoll, TypeOK
<1>3. CASE Tick(c, f)
  <2>1. Step(c, f, IdleFiber) \/ Goto(c, f, "read")
    BY <1>3, Zenon DEF Tick
  <2>2. WorkerType'
    BY <1>1, <1>3, <2>1, GotoType, StepType, IdleFiberType
       DEF Tick, WorkerType, Busy, PollStep
  <2> QED BY <1>3, <2>2, Unchanged DEF Tick, TypeOK
<1>4. CASE ReadCursor(c, f)
  <2>1. [fiber[c][f] EXCEPT !.pc = "poll", !.cursor = coll[c].cursor] \in FiberState
    BY <1>1, FiberStateType, CollType DEF FiberState, Busy, PollStep
  <2>2. WorkerType'
    BY <1>1, <1>4, <2>1, StepType DEF ReadCursor, WorkerType
  <2> QED BY <1>4, <2>2, Unchanged DEF ReadCursor, TypeOK
<1>5. CASE ReadSkips(c, f)
  <2>1. WorkerType'
    BY <1>1, <1>5, RescheduleType DEF ReadSkips, WorkerType
  <2> QED BY <1>5, <2>1, Unchanged DEF ReadSkips, TypeOK
<1>6. CASE PollOutbox(c, f)
  <2> DEFINE rows == First(BatchSize, Unread(c, f))
  <2>1. rows \in SUBSET Change
    BY <1>1, FirstSubset DEF Unread, SourceType
  <2>2. Step(c, f, [fiber[c][f] EXCEPT !.pc = "upsert", !.batch = rows])
    BY <1>6 DEF PollOutbox
  <2> HIDE DEF rows
  <2>3. [fiber[c][f] EXCEPT !.pc = "upsert", !.batch = rows] \in FiberState
    BY <1>1, <2>1, FiberStateType DEF FiberState, Busy, PollStep
  <2>4. WorkerType'
    BY <1>1, <1>6, <2>2, <2>3, StepType DEF PollOutbox, WorkerType
  <2> QED BY <1>6, <2>4, Unchanged DEF PollOutbox, TypeOK
<1>7. CASE PollEmpty(c, f)
  <2>1. WorkerType'
    BY <1>1, <1>7, RescheduleType DEF PollEmpty, WorkerType
  <2> QED BY <1>7, <2>1, Unchanged DEF PollEmpty, TypeOK
<1>8. CASE SendUpserts(c, f)
  <2>1. StoreType'
    BY <1>1, <1>8, IndexWriteType, FiberStateType DEF SendUpserts, StoreType
  <2>2. WorkerType'
    BY <1>1, <1>8, GotoType DEF SendUpserts, WorkerType, Busy, PollStep
  <2> QED BY <1>8, <2>1, <2>2, Unchanged DEF SendUpserts, TypeOK
<1>9. CASE SendDeletes(c, f)
  <2>1. StoreType'
    BY <1>1, <1>9, IndexWriteType, FiberStateType DEF SendDeletes, StoreType
  <2>2. WorkerType'
    BY <1>1, <1>9, GotoType DEF SendDeletes, WorkerType, Busy, PollStep
  <2> QED BY <1>9, <2>1, <2>2, Unchanged DEF SendDeletes, TypeOK
<1>10. CASE GcOutbox(c, f)
  <2>1. SourceType'
    BY <1>1, <1>10 DEF GcOutbox, SourceType
  <2>2. WorkerType'
    BY <1>1, <1>10, GotoType DEF GcOutbox, WorkerType, Busy, PollStep
  <2> QED BY <1>10, <2>1, <2>2, Unchanged DEF GcOutbox, TypeOK
<1>11. CASE SaveCursor(c, f)
  <2>1. PICK last \in fiber[c][f].batch :
          SetRow(c, [coll[c] EXCEPT !.status = "idle", !.synced = TRUE, !.cursor = last.id])
    BY <1>11 DEF SaveCursor
  <2>2. last.id \in 0 .. MaxId
    BY <1>1, FiberStateType DEF Change
  <2>3. [coll[c] EXCEPT !.status = "idle", !.synced = TRUE, !.cursor = last.id] \in CollRow
    BY <1>1, <2>2, CollType DEF CollRow
  <2>4. StoreType'
    BY <1>1, <1>11, <2>1, <2>3, SetRowType DEF SaveCursor, StoreType
  <2>5. WorkerType'
    BY <1>1, <1>11, RescheduleType DEF SaveCursor, WorkerType
  <2> QED BY <1>11, <2>4, <2>5, Unchanged DEF SaveCursor, TypeOK
<1> QED BY <1>2, <1>3, <1>4, <1>5, <1>6, <1>7, <1>8, <1>9, <1>10, <1>11 DEF Poll

LEMMA FaultTypeStep ==
  ASSUME TypeOK, NEW c \in Coll, NEW f \in Fiber, Fault(c, f)
  PROVE  TypeOK'
<1>1. SourceType /\ StoreType /\ WorkerType /\ RequestType /\ HistoryType
  BY DEF TypeOK
<1>2. [coll[c] EXCEPT !.status = "error"] \in CollRow
  BY <1>1, CollType DEF CollRow
<1>3. CASE SyncFails(c, f)
  <2>1. StoreType'
    BY <1>1, <1>2, <1>3, SetRowType DEF SyncFails, StoreType
  <2>2. WorkerType'
    BY <1>1, <1>3, StepType, IdleFiberType DEF SyncFails, WorkerType
  <2> QED BY <1>3, <2>1, <2>2, Unchanged DEF SyncFails, TypeOK
<1>4. CASE PollFails(c, f)
  <2>1. StoreType'
    BY <1>1, <1>2, <1>4, SetRowType DEF PollFails, StoreType
  <2>2. WorkerType'
    BY <1>1, <1>4, RescheduleType DEF PollFails, WorkerType
  <2> QED BY <1>4, <2>1, <2>2, Unchanged DEF PollFails, TypeOK
<1>5. CASE FiberDies(c, f)
  <2>1. WorkerType'
    BY <1>1, <1>5, StepType, IdleFiberType DEF FiberDies, WorkerType
  <2> QED BY <1>5, <2>1, Unchanged DEF FiberDies, TypeOK
<1> QED BY <1>3, <1>4, <1>5 DEF Fault

LEMMA RestartTypeStep ==
  ASSUME TypeOK, Restart
  PROVE  TypeOK'
<1>1. WorkerType'
  BY IdleFiberType DEF Restart, WorkerType
<1>2. RequestType'
  BY AddStepType DEF Restart, RequestType, RequestStep
<1> QED BY <1>1, <1>2, Unchanged DEF Restart, TypeOK

LEMMA TypeStep == TypeOK /\ [Next]_vars => TypeOK'
<1> SUFFICES ASSUME TypeOK, [Next]_vars PROVE TypeOK'
  OBVIOUS
<1>1. CASE Next
  BY <1>1, SourceTypeStep, AdminTypeStep, SyncTypeStep, PollTypeStep, FaultTypeStep,
     RestartTypeStep DEF Next
<1>2. CASE UNCHANGED vars
  BY <1>2, Unchanged DEF vars, workerVars, TypeOK
<1> QED BY <1>1, <1>2

LEMMA TypeInit == Init => TypeOK
<1> SUFFICES ASSUME Init PROVE TypeOK
  OBVIOUS
<1>1. SourceType
  <2>1. seq \in 0 .. MaxId
    BY ConstantsAssumption DEF Init
  <2>2. table \in [Key -> Cell]
    BY DEF Init
  <2> QED BY <2>1, <2>2 DEF Init, SourceType
<1>2. StoreType
  BY ConstantsAssumption DEF Init, StoreType, CollRow, EmptyIndex, Cell
<1>3. WorkerType
  BY IdleFiberType DEF Init, WorkerType
<1> QED BY <1>1, <1>2, <1>3 DEF Init, TypeOK, RequestType, HistoryType

(* Every variable keeps its type: ids handed out never pass MaxId, a batch *)
(* holds recorded changes only, a cursor is an id.                         *)
THEOREM TypeCorrect == Spec => []TypeOK
<1>1. Init => TypeOK
  BY TypeInit
<1>2. TypeOK /\ [Next]_vars => TypeOK'
  BY TypeStep
<1> QED BY <1>1, <1>2, PTL DEF Spec

-----------------------------------------------------------------------------
(* What the update operators do to the activity in question                *)

LEMMA StepValue ==
  ASSUME WorkerType, NEW c \in Coll, NEW f \in Fiber, NEW new, Step(c, f, new)
  PROVE  fiber'[c][f] = new
<1>1. fiber \in [Coll -> [Fiber -> FiberState]]
  BY DEF WorkerType
<1>2. fiber' = [fiber EXCEPT ![c][f] = new]
  BY DEF Step
<1> QED BY <1>1, <1>2

LEMMA GotoValue ==
  ASSUME WorkerType, NEW c \in Coll, NEW f \in Fiber, NEW s, Goto(c, f, s)
  PROVE  /\ fiber'[c][f].pc = s
         /\ fiber'[c][f].aborted = fiber[c][f].aborted
         /\ fiber'[c][f].cursor = fiber[c][f].cursor
         /\ fiber'[c][f].batch = fiber[c][f].batch
         /\ fiber'[c][f].todo = fiber[c][f].todo
<1>1. fiber'[c][f] = [fiber[c][f] EXCEPT !.pc = s]
  BY StepValue DEF Goto
<1>2. fiber[c][f] \in FiberState
  BY DEF WorkerType
<1> QED BY <1>1, <1>2 DEF FiberState

LEMMA BecomeValue ==
  ASSUME RequestType, NEW c \in Coll, NEW old, NEW new, Become(c, old, new)
  PROVE  requests'[c] = (requests[c] \ old) \cup new
BY DEF RequestType, Become

LEMMA SetRowValue ==
  ASSUME StoreType, NEW c \in Coll, NEW r, SetRow(c, r)
  PROVE  /\ Live(c) => coll'[c] = r
         /\ ~Live(c) => coll'[c] = coll[c]
BY DEF StoreType, SetRow

LEMMA RowFieldValue ==
  ASSUME StoreType, NEW c \in Coll, NEW x
  PROVE  /\ coll' = [coll EXCEPT ![c].row = x] =>
              /\ coll'[c].row = x
              /\ coll'[c].synced = coll[c].synced /\ coll'[c].cursor = coll[c].cursor
         /\ coll' = [coll EXCEPT ![c].enabled = x] =>
              /\ coll'[c].row = coll[c].row
              /\ coll'[c].synced = coll[c].synced /\ coll'[c].cursor = coll[c].cursor
<1>1. coll[c] \in CollRow
  BY DEF StoreType
<1>2. coll' = [coll EXCEPT ![c].row = x] => coll'[c] = [coll[c] EXCEPT !.row = x]
  BY DEF StoreType
<1>3. coll' = [coll EXCEPT ![c].enabled = x] => coll'[c] = [coll[c] EXCEPT !.enabled = x]
  BY DEF StoreType
<1> QED BY <1>1, <1>2, <1>3 DEF CollRow

LEMMA RescheduleValue ==
  ASSUME WorkerType, NEW c \in Coll, NEW f \in Fiber, Reschedule(c, f)
  PROVE  \/ fiber'[c][f].pc = "idle" 
         \/ fiber'[c][f].pc = "timer" /\ poller'[c] = f
<1>1. CASE fiber[c][f].aborted
  <2>1. Step(c, f, IdleFiber)
    BY <1>1, Zenon DEF Reschedule
  <2> QED BY <2>1, StepValue DEF IdleFiber
<1>2. CASE ~fiber[c][f].aborted
  <2>1. Step(c, f, ArmedFiber) /\ poller' = [poller EXCEPT ![c] = f]
    BY <1>2, Zenon DEF Reschedule
  <2> QED BY <2>1, StepValue DEF ArmedFiber, IdleFiber, WorkerType
<1> QED BY <1>1, <1>2

(* After removeCollection a timer is gone and a running step goes on.      *)
LEMMA RemovedValue ==
  ASSUME WorkerType, NEW c \in Coll, NEW f \in Fiber, Removed(c)
  PROVE  /\ fiber'[c][f].pc = fiber[c][f].pc
            \/ (fiber[c][f].pc = "timer" /\ poller[c] = f /\ fiber'[c][f].pc = "idle")
         /\ fiber[c][f].pc = "timer" /\ poller[c] = f => fiber'[c][f].pc = "idle"
         /\ fiber[c][f].pc \notin {"idle", "timer"} =>
              /\ fiber'[c][f].cursor = fiber[c][f].cursor
              /\ fiber'[c][f].batch = fiber[c][f].batch
              /\ fiber'[c][f].todo = fiber[c][f].todo
<1>1. fiber'[c][f] = RemovedFiber(c, f)
  BY DEF Removed, WorkerType
<1>2. fiber[c][f] \in FiberState
  BY DEF WorkerType
<1> DEFINE stops == fiber[c][f].pc = "idle" \/ (fiber[c][f].pc = "timer" /\ f = poller[c])
<1>3. CASE stops
  BY <1>1, <1>3 DEF RemovedFiber, IdleFiber
<1>4. CASE ~stops
  <2> DEFINE b == fiber[c][f].aborted \/ f = controller[c]
  <2>1. fiber'[c][f] = [fiber[c][f] EXCEPT !.aborted = b]
    BY <1>1, <1>4 DEF RemovedFiber
  <2> HIDE DEF b
  <2> QED BY <1>2, <1>4, <2>1 DEF FiberState
<1> QED BY <1>3, <1>4

-----------------------------------------------------------------------------
(* An enabled collection is never left without an activity                 *)

Filling(c, f) == fiber[c][f].pc \in InitialStep
Polling(c, f) == fiber[c][f].pc \in PollStep \cup {"timer"}

(* The activity that polls is the registered one; any other has been told  *)
(* to stop and is in the middle of a tick.                                 *)
OnePollerInv(c) ==
  /\ controller[c] = poller[c]
  /\ \A f \in Fiber : poller[c] = f <=> Polling(c, f) /\ ~fiber[c][f].aborted
  /\ \A f \in Fiber : fiber[c][f].aborted => fiber[c][f].pc \in PollStep

(* One request or one initial sync, and no initial sync next to a poller.  *)
OneRequestInv(c) ==
  /\ \A r, s \in requests[c] : r = s
  /\ \A f, g \in Fiber : Filling(c, f) /\ Filling(c, g) => f = g
  /\ \A f \in Fiber : Filling(c, f) => requests[c] = {} /\ poller[c] = None

(* What requests and activities tell of the collection's row.  Whoever     *)
(* polls, told to stop or not, has a row that was filled.                  *)
RequestRowInv(c) ==
  /\ coll[c].row = "none" =>
       /\ requests[c] = {} /\ \A f \in Fiber : fiber[c][f].pc = "idle"
       /\ coll[c].cursor = 0 /\ ~coll[c].synced
  /\ coll[c].row = "live" =>
       /\ coll[c].cursor # 0 => coll[c].synced
       /\ "remove" \in requests[c] => ~coll[c].enabled
       /\ requests[c] \cap {"provisionDrop", "provisionCreate", "addInitial"} # {} =>
            ~coll[c].synced
       /\ "addPoll" \in requests[c] => coll[c].synced
       /\ \A f \in Fiber : /\ Filling(c, f) => ~coll[c].synced
                           /\ Polling(c, f) => coll[c].synced /\ "reset" \notin requests[c]

(* EnabledIsPolled needs that no straggler can take back an error report.  *)
PolledInv(c) ==
  coll[c].row = "live" /\ coll[c].enabled /\ requests[c] = {} =>
    \/ poller[c] # None
    \/ \E f \in Fiber : Filling(c, f)
    \/ coll[c].status = "error" /\ \A f \in Fiber : fiber[c][f].pc = "idle"

ActivityInv(c) == OnePollerInv(c) /\ OneRequestInv(c) /\ RequestRowInv(c) /\ PolledInv(c)

LEMMA ActivityFrame ==
  ASSUME NEW c \in Coll
  PROVE  /\ UNCHANGED <<fiber[c], poller[c], controller[c]>> /\ OnePollerInv(c) => OnePollerInv(c)'
         /\ UNCHANGED <<fiber[c], poller[c], controller[c], requests[c], coll[c]>> /\ ActivityInv(c)
              => ActivityInv(c)'
<1>1. UNCHANGED <<fiber[c], poller[c], controller[c]>> /\ OnePollerInv(c) => OnePollerInv(c)'
  BY DEF OnePollerInv, Polling
<1>2. UNCHANGED <<fiber[c], poller[c], requests[c]>> /\ OneRequestInv(c) => OneRequestInv(c)'
  BY DEF OneRequestInv, Filling
<1>3. UNCHANGED <<fiber[c], requests[c], coll[c]>> /\ RequestRowInv(c) => RequestRowInv(c)'
  BY DEF RequestRowInv, Filling, Polling
<1>4. UNCHANGED <<fiber[c], poller[c], requests[c], coll[c]>> /\ PolledInv(c) => PolledInv(c)'
  BY DEF PolledInv, Filling
<1> QED BY <1>1, <1>2, <1>3, <1>4 DEF ActivityInv

(* With one request at a time, a new one finds neither another nor an      *)
(* initial sync.                                                           *)
LEMMA RequestAlone ==
  ASSUME TypeOK, MaxRequests <= 1, NEW c \in Coll, OneRequestInv(c), NewRequest(c)
  PROVE  requests[c] = {} /\ \A f \in Fiber : ~Filling(c, f)
<1> DEFINE filling == {f \in Fiber : fiber[c][f].pc \in InitialStep}
<1>1. IsFiniteSet(requests[c])
  <2>1. CASE requests[c] = {}
    BY <2>1, FS_EmptySet
  <2>2. CASE requests[c] # {}
    <3>1. PICK r \in requests[c] : requests[c] = {r}
      BY <2>2 DEF OneRequestInv
    <3> QED BY <3>1, FS_Singleton
  <2> QED BY <2>1, <2>2
<1>2. IsFiniteSet(filling)
  <2>1. CASE filling = {}
    BY <2>1, FS_EmptySet
  <2>2. CASE filling # {}
    <3>1. PICK f \in filling : filling = {f}
      BY <2>2 DEF OneRequestInv, Filling
    <3> QED BY <3>1, FS_Singleton
  <2> QED BY <2>1, <2>2
<1>3. Cardinality(requests[c]) + Cardinality(filling) < MaxRequests
  BY DEF NewRequest
<1>4. Cardinality(requests[c]) = 0 /\ Cardinality(filling) = 0
  BY <1>1, <1>2, <1>3, FS_CardinalityType, ConstantsAssumption
<1>5. requests[c] = {} /\ filling = {}
  BY <1>1, <1>2, <1>4, FS_EmptySet
<1> QED BY <1>5 DEF Filling

(* The last part of a row, or of a request set, under each update.         *)
LEMMA RowValue ==
  ASSUME StoreType, NEW c \in Coll, NEW x
  PROVE  /\ coll' = [coll EXCEPT ![c].row = x] =>
              /\ coll'[c].row = x /\ coll'[c].enabled = coll[c].enabled
              /\ coll'[c].synced = coll[c].synced /\ coll'[c].cursor = coll[c].cursor
              /\ coll'[c].status = coll[c].status
         /\ coll' = [coll EXCEPT ![c].enabled = x] =>
              /\ coll'[c].row = coll[c].row /\ coll'[c].enabled = x
              /\ coll'[c].synced = coll[c].synced /\ coll'[c].cursor = coll[c].cursor
              /\ coll'[c].status = coll[c].status
         /\ SetRow(c, [coll[c] EXCEPT !.status = x]) =>
              /\ coll'[c].row = coll[c].row /\ coll'[c].enabled = coll[c].enabled
              /\ coll'[c].synced = coll[c].synced /\ coll'[c].cursor = coll[c].cursor
              /\ coll[c].row = "live" => coll'[c].status = x
<1>1. coll[c] \in CollRow
  BY DEF StoreType
<1>2. coll' = [coll EXCEPT ![c].row = x] => coll'[c] = [coll[c] EXCEPT !.row = x]
  BY DEF StoreType
<1>3. coll' = [coll EXCEPT ![c].enabled = x] => coll'[c] = [coll[c] EXCEPT !.enabled = x]
  BY DEF StoreType
<1>4. SetRow(c, [coll[c] EXCEPT !.status = x]) =>
        \/ coll[c].row = "live" /\ coll'[c] = [coll[c] EXCEPT !.status = x]
        \/ coll[c].row # "live" /\ coll'[c] = coll[c]
  BY SetRowValue DEF Live
<1> QED BY <1>1, <1>2, <1>3, <1>4 DEF CollRow

LEMMA MovesOnly ==
  ASSUME WorkerType, NEW c \in Coll, NEW f \in Fiber, NEW new, Step(c, f, new)
  PROVE  fiber'[c][f] = new /\ \A g \in Fiber : g # f => fiber'[c][g] = fiber[c][g]
<1>1. fiber \in [Coll -> [Fiber -> FiberState]]
  BY DEF WorkerType
<1>2. fiber' = [fiber EXCEPT ![c][f] = new]
  BY DEF Step
<1> QED BY <1>1, <1>2

(* Requests that leave the activities alone: what becomes of the row and   *)
(* of the one request decides.                                             *)
LEMMA RequestKeeps ==
  ASSUME NEW c \in Coll, ActivityInv(c), UNCHANGED <<fiber[c], poller[c], controller[c]>>,
         NEW new, requests'[c] \subseteq {new},
         \A f \in Fiber : ~Filling(c, f), RequestRowInv(c)', PolledInv(c)'
  PROVE  ActivityInv(c)'
<1>1. OneRequestInv(c)'
  BY DEF OneRequestInv, Filling
<1> QED BY <1>1, ActivityFrame DEF ActivityInv

LEMMA ActivityRequest ==
  ASSUME TypeOK, MaxRequests <= 1, NEW c \in Coll, ActivityInv(c),
         \/ CreateCollection(c) \/ ProvisionDrop(c) \/ ProvisionCreate(c) \/ ProvisionFails(c)
         \/ Disable(c) \/ Enable(c) \/ Reset(c) \/ DeleteProject(c)
         \/ Untrigger(c) \/ Unindex(c) \/ Erase(c) \/ AddIgnored(c)
  PROVE  ActivityInv(c)'
<1>1. StoreType /\ RequestType /\ WorkerType
  BY DEF TypeOK
<1>2. /\ OneRequestInv(c) /\ OnePollerInv(c) /\ RequestRowInv(c) /\ PolledInv(c)
      /\ UNCHANGED <<fiber, poller, controller>>
  BY DEF ActivityInv, CreateCollection, ProvisionDrop, ProvisionCreate, ProvisionFails, Disable,
     Enable, Reset, DeleteProject, Untrigger, Unindex, Erase, AddIgnored
<1>3. ASSUME NEW s \in requests[c], NEW new, Become(c, {s}, new)
      PROVE  requests[c] = {s} /\ requests'[c] = new /\ \A f \in Fiber : ~Filling(c, f)
  <2>1. requests[c] = {s} /\ \A f \in Fiber : ~Filling(c, f)
    BY <1>2, <1>3 DEF OneRequestInv
  <2>2. requests'[c] = (requests[c] \ {s}) \cup new
    BY <1>1, <1>3, BecomeValue
  <2> QED BY <2>1, <2>2
<1>4. ASSUME requests[c] = {}, NEW new, Become(c, {}, new)
      PROVE  requests'[c] = new
  <2>1. requests'[c] = (requests[c] \ {}) \cup new
    BY <1>1, <1>4, BecomeValue
  <2> QED BY <1>4, <2>1
<1>5. CASE CreateCollection(c)
  <2>1. requests[c] = {} /\ \A f \in Fiber : ~Filling(c, f)
    BY <1>2, <1>5, RequestAlone DEF CreateCollection
  <2>2. requests'[c] = {"provisionDrop"} /\ coll[c].row = "none"
    BY <1>5, <1>4, <2>1 DEF CreateCollection
  <2>3. coll'[c].row = "live" /\ coll'[c].synced = coll[c].synced /\ coll'[c].cursor = coll[c].cursor
    BY <1>1, <1>5, RowValue DEF CreateCollection
  <2>4. RequestRowInv(c)'
    BY <1>2, <2>2, <2>3 DEF RequestRowInv, Filling, Polling, InitialStep, PollStep
  <2>5. PolledInv(c)'
    BY <2>2 DEF PolledInv
  <2> QED BY <1>2, <2>1, <2>2, <2>4, <2>5, RequestKeeps
<1>6. CASE ProvisionDrop(c) \/ ProvisionCreate(c)
  <2>1. PICK s \in {"provisionDrop", "provisionCreate"}, new \in {"provisionCreate", "addInitial"} :
          s \in requests[c] /\ Become(c, {s}, {new}) /\ coll' = coll
    BY <1>6 DEF ProvisionDrop, ProvisionCreate
  <2>2. requests[c] = {s} /\ requests'[c] = {new} /\ \A f \in Fiber : ~Filling(c, f)
    BY <1>3, <2>1
  <2>3. RequestRowInv(c)'
    BY <1>2, <2>1, <2>2 DEF RequestRowInv, Filling, Polling
  <2>4. PolledInv(c)'
    BY <2>2 DEF PolledInv
  <2> QED BY <1>2, <2>2, <2>3, <2>4, RequestKeeps
<1>7. CASE ProvisionFails(c) \/ Erase(c)
  <2>1. PICK s \in requests[c] : Become(c, {s}, {}) /\ coll' = [coll EXCEPT ![c].row = "deleted"]
    BY <1>7 DEF ProvisionFails, Erase
  <2>2. requests'[c] = {} /\ \A f \in Fiber : ~Filling(c, f)
    BY <1>3, <2>1
  <2>3. coll'[c].row = "deleted"
    BY <1>1, <2>1, RowValue
  <2>4. RequestRowInv(c)' /\ PolledInv(c)'
    BY <2>3 DEF RequestRowInv, PolledInv
  <2> QED BY <1>2, <2>2, <2>4, RequestKeeps
<1>8. CASE Disable(c)
  <2>1. requests[c] = {} /\ \A f \in Fiber : ~Filling(c, f)
    BY <1>2, <1>8, RequestAlone DEF Disable
  <2>2. requests'[c] = {"remove"} /\ coll[c].row = "live"
    BY <1>8, <1>4, <2>1 DEF Disable, Live
  <2>3. /\ coll'[c].row = coll[c].row /\ coll'[c].synced = coll[c].synced
        /\ coll'[c].cursor = coll[c].cursor /\ coll'[c].enabled = FALSE
    BY <1>1, <1>8, RowValue, ZenonT(60) DEF Disable
  <2>4. RequestRowInv(c)'
    BY <1>2, <2>2, <2>3 DEF RequestRowInv, Filling, Polling
  <2>5. PolledInv(c)'
    BY <2>2 DEF PolledInv
  <2> QED BY <1>2, <2>1, <2>2, <2>4, <2>5, RequestKeeps
<1>9. CASE Enable(c)
  <2>1. requests[c] = {} /\ \A f \in Fiber : ~Filling(c, f)
    BY <1>2, <1>9, RequestAlone DEF Enable
  <2>2. requests'[c] = {AddStep(coll[c])} /\ coll[c].row = "live"
    BY <1>9, <1>4, <2>1 DEF Enable, Live
  <2>3. /\ coll'[c].row = coll[c].row /\ coll'[c].synced = coll[c].synced
        /\ coll'[c].cursor = coll[c].cursor
    BY <1>1, <1>9, RowValue DEF Enable
  <2>4. RequestRowInv(c)'
    BY <1>2, <2>2, <2>3 DEF RequestRowInv, AddStep, Filling, Polling
  <2>5. PolledInv(c)'
    BY <2>2 DEF PolledInv
  <2> QED BY <1>2, <2>1, <2>2, <2>4, <2>5, RequestKeeps
<1>10. CASE Reset(c)
  <2>1. "reset" \in requests[c]
        /\ (Become(c, {"reset"}, {"addInitial"}) \/ (~Live(c) /\ Become(c, {"reset"}, {})))
    BY <1>10 DEF Reset
  <2>2. /\ requests'[c] = {"addInitial"} \/ (~Live(c) /\ requests'[c] = {})
        /\ \A f \in Fiber : ~Filling(c, f)
    BY <1>3, <2>1
  <2>3. \/ /\ coll[c].row = "live" /\ coll'[c].row = "live"
           /\ coll'[c].cursor = 0 /\ coll'[c].synced = FALSE
        \/ coll[c].row = "deleted" /\ coll'[c].row = "deleted"
    <3>1. SetRow(c, [coll[c] EXCEPT !.status = "idle", !.cursor = 0, !.synced = FALSE])
      BY <1>10 DEF Reset
    <3>2. Live(c) => coll'[c] = [coll[c] EXCEPT !.status = "idle", !.cursor = 0, !.synced = FALSE]
      BY <1>1, <3>1, SetRowValue
    <3>3. ~Live(c) => coll'[c] = coll[c]
      BY <1>1, <3>1, SetRowValue
    <3>4. coll[c] \in CollRow /\ coll[c].row # "none"
      BY <1>1, <1>2, <2>1 DEF StoreType, RequestRowInv
    <3> QED BY <3>2, <3>3, <3>4 DEF Live, CollRow
  <2>4. RequestRowInv(c)'
    BY <1>2, <2>1, <2>2, <2>3 DEF RequestRowInv, Filling, Polling, Live
  <2>5. PolledInv(c)'
    BY <2>2, <2>3 DEF PolledInv, Live
  <2> QED BY <1>2, <2>2, <2>4, <2>5, RequestKeeps
<1>11. CASE DeleteProject(c)
  <2>1. requests[c] = {} /\ \A f \in Fiber : ~Filling(c, f)
    BY <1>2, <1>11, RequestAlone DEF DeleteProject
  <2>2. requests'[c] = {"erase"} /\ coll[c].row = "live" /\ coll' = coll
    BY <1>11, <1>4, <2>1 DEF DeleteProject, Live
  <2>3. RequestRowInv(c)'
    BY <1>2, <2>2 DEF RequestRowInv, Filling, Polling
  <2>4. PolledInv(c)'
    BY <2>2 DEF PolledInv
  <2> QED BY <1>2, <2>1, <2>2, <2>3, <2>4, RequestKeeps
<1>12. CASE Untrigger(c) \/ Unindex(c)
  <2>1. PICK s \in {"untrigger", "unindex"}, new \in {"unindex", "erase"} :
          s \in requests[c] /\ Become(c, {s}, {new}) /\ coll' = coll
    BY <1>12 DEF Untrigger, Unindex
  <2>2. requests'[c] = {new} /\ \A f \in Fiber : ~Filling(c, f)
    BY <1>3, <2>1
  <2>3. RequestRowInv(c)'
    BY <1>2, <2>1, <2>2 DEF RequestRowInv, Filling, Polling
  <2>4. PolledInv(c)'
    BY <2>2 DEF PolledInv
  <2> QED BY <1>2, <2>2, <2>3, <2>4, RequestKeeps
<1>13. CASE AddIgnored(c)
  <2>1. PICK s \in requests[c] : Become(c, {s}, {})
    BY <1>13 DEF AddIgnored
  <2>2. requests'[c] = {} /\ coll' = coll /\ poller[c] # None /\ \A f \in Fiber : ~Filling(c, f)
    BY <1>3, <1>13, <2>1 DEF AddIgnored
  <2>3. RequestRowInv(c)' /\ PolledInv(c)'
    BY <1>2, <2>1, <2>2 DEF RequestRowInv, PolledInv, Filling, Polling
  <2> QED BY <1>2, <2>2, <2>3, RequestKeeps
<1> QED BY <1>5, <1>6, <1>7, <1>8, <1>9, <1>10, <1>11, <1>12, <1>13

(* removeCollection leaves nobody but stragglers.                          *)
LEMMA RemovedStops ==
  ASSUME WorkerType, NEW c \in Coll, OnePollerInv(c), \A f \in Fiber : ~Filling(c, f), Removed(c)
  PROVE  /\ poller'[c] = None /\ controller'[c] = None
         /\ \A f \in Fiber :
              \/ fiber'[c][f].pc = "idle" /\ fiber'[c][f].aborted = FALSE
              \/ /\ fiber'[c][f].pc = fiber[c][f].pc /\ fiber[c][f].pc \in PollStep
                 /\ fiber'[c][f].aborted = TRUE
<1>1. poller'[c] = None /\ controller'[c] = None
  BY DEF Removed, WorkerType
<1>2. ASSUME NEW f \in Fiber
      PROVE  \/ fiber'[c][f].pc = "idle" /\ fiber'[c][f].aborted = FALSE
             \/ /\ fiber'[c][f].pc = fiber[c][f].pc /\ fiber[c][f].pc \in PollStep
                /\ fiber'[c][f].aborted = TRUE
  <2>1. fiber'[c][f] = RemovedFiber(c, f)
    BY DEF Removed, WorkerType
  <2>2. fiber[c][f] \in FiberState /\ fiber[c][f].pc \in {"idle", "timer"} \cup Busy
        /\ fiber[c][f].aborted \in BOOLEAN
    BY FiberStateType
  <2> DEFINE stops == fiber[c][f].pc = "idle" \/ (fiber[c][f].pc = "timer" /\ f = poller[c])
  <2>3. CASE stops
    <3>1. fiber'[c][f] = IdleFiber
      BY <2>1, <2>3 DEF RemovedFiber
    <3> QED BY <3>1 DEF IdleFiber
  <2>4. CASE ~stops
    <3> DEFINE b == fiber[c][f].aborted \/ f = controller[c]
    <3>1. fiber'[c][f] = [fiber[c][f] EXCEPT !.aborted = b]
      BY <2>1, <2>4 DEF RemovedFiber
    <3>2. fiber[c][f].pc \in PollStep
      BY <2>2, <2>4 DEF OnePollerInv, Polling, Filling, Busy, PollStep
    <3>3. b = TRUE
      BY <2>2, <3>2 DEF OnePollerInv, Polling
    <3> HIDE DEF b
    <3> QED BY <2>2, <3>1, <3>2, <3>3 DEF FiberState
  <2> QED BY <2>3, <2>4
<1> QED BY <1>1, <1>2

LEMMA ActivityRemoved ==
  ASSUME TypeOK, MaxRequests <= 1, ~ResyncOverlap, NEW c \in Coll, ActivityInv(c),
         Remove(c) \/ Resync(c) \/ DeleteCollection(c)
  PROVE  ActivityInv(c)'
<1>1. WorkerType /\ RequestType
  BY DEF TypeOK
<1>2. /\ OneRequestInv(c) /\ OnePollerInv(c) /\ RequestRowInv(c) /\ PolledInv(c)
      /\ coll' = coll /\ Removed(c)
  BY DEF ActivityInv, Remove, Resync, DeleteCollection
<1>3. /\ \A f \in Fiber : ~Filling(c, f)
      /\ \/ Remove(c) /\ requests[c] = {"remove"} /\ requests'[c] = {}
         \/ Resync(c) /\ requests[c] = {} /\ requests'[c] = {"reset"}
         \/ DeleteCollection(c) /\ requests[c] = {} /\ requests'[c] = {"untrigger"}
  <2>1. CASE Remove(c)
    <3>1. requests'[c] = (requests[c] \ {"remove"}) \cup {} /\ "remove" \in requests[c]
      BY <1>1, <2>1, BecomeValue DEF Remove
    <3> QED BY <1>2, <2>1, <3>1 DEF OneRequestInv
  <2>2. CASE Resync(c)
    <3>1. requests'[c] = (requests[c] \ {}) \cup {"reset"}
      BY <1>1, <2>2, BecomeValue DEF Resync
    <3> QED BY <1>2, <2>2, <3>1, RequestAlone DEF Resync
  <2>3. CASE DeleteCollection(c)
    <3>1. requests'[c] = (requests[c] \ {}) \cup {"untrigger"}
      BY <1>1, <2>3, BecomeValue DEF DeleteCollection
    <3> QED BY <1>2, <2>3, <3>1, RequestAlone DEF DeleteCollection
  <2> QED BY <2>1, <2>2, <2>3
<1>4. /\ poller'[c] = None /\ controller'[c] = None
      /\ \A f \in Fiber :
           \/ fiber'[c][f].pc = "idle" /\ fiber'[c][f].aborted = FALSE
           \/ /\ fiber'[c][f].pc = fiber[c][f].pc /\ fiber[c][f].pc \in PollStep
              /\ fiber'[c][f].aborted = TRUE
  BY <1>1, <1>2, <1>3, RemovedStops
<1>5. OnePollerInv(c)'
  BY <1>4, ConstantsAssumption DEF OnePollerInv, Polling, PollStep
<1>6. OneRequestInv(c)'
  BY <1>3, <1>4 DEF OneRequestInv, Filling, InitialStep, PollStep
<1>7. RequestRowInv(c)'
  <2>1. ASSUME NEW f \in Fiber, Polling(c, f)' PROVE ~Resync(c) /\ Polling(c, f)
    <3>1. fiber[c][f].pc \in PollStep
      BY <1>4, <2>1 DEF Polling, PollStep
    <3>2. fiber[c][f].pc \in Busy
      BY <3>1 DEF Busy
    <3> QED BY <3>1, <3>2 DEF Resync, BusyFibers, Polling
  <2>2. \A f \in Fiber : ~Filling(c, f)'
    BY <1>4 DEF Filling, InitialStep, PollStep
  <2>3. coll[c].row # "none"
    <3>1. Resync(c) \/ DeleteCollection(c) => coll[c].row = "live"
      BY DEF Resync, DeleteCollection, Live
    <3> QED BY <1>2, <1>3, <3>1 DEF RequestRowInv
  <2> QED BY <1>2, <1>3, <2>1, <2>2, <2>3 DEF RequestRowInv
<1>8. PolledInv(c)'
  BY <1>2, <1>3 DEF PolledInv, RequestRowInv
<1> QED BY <1>5, <1>6, <1>7, <1>8 DEF ActivityInv

(* An initial sync begins, goes on, ends or fails.                         *)
LEMMA ActivityFill ==
  ASSUME TypeOK, NEW c \in Coll, NEW f \in Fiber, ActivityInv(c),
         InitialSync(c, f) \/ SyncFails(c, f)
  PROVE  ActivityInv(c)'
<1>1. StoreType /\ RequestType /\ WorkerType
  BY DEF TypeOK
<1>2. OneRequestInv(c) /\ OnePollerInv(c) /\ RequestRowInv(c) /\ PolledInv(c)
  BY DEF ActivityInv
<1>3. fiber[c][f] \in FiberState
  BY <1>1, FiberStateType
<1>4. CASE AddInitial(c, f)
  <2>1. /\ fiber'[c][f].pc = "sync" /\ fiber'[c][f].aborted = fiber[c][f].aborted
        /\ \A g \in Fiber : g # f => fiber'[c][g] = fiber[c][g]
    <3>1. Goto(c, f, "sync")
      BY <1>4 DEF AddInitial
    <3>2. Step(c, f, [fiber[c][f] EXCEPT !.pc = "sync"])
      BY <3>1 DEF Goto
    <3> QED BY <1>1, <3>1, <3>2, GotoValue, MovesOnly
  <2>2. /\ fiber[c][f].pc = "idle" /\ poller[c] = None /\ coll' = coll
        /\ poller' = poller /\ controller' = controller /\ "addInitial" \in requests[c]
    BY <1>4 DEF AddInitial
  <2>3. requests[c] = {"addInitial"} /\ requests'[c] = {} /\ \A g \in Fiber : ~Filling(c, g)
    <3>1. requests'[c] = (requests[c] \ {"addInitial"}) \cup {}
      BY <1>1, <1>4, BecomeValue DEF AddInitial
    <3> QED BY <1>2, <2>2, <3>1 DEF OneRequestInv
  <2>4. OnePollerInv(c)'
    BY <1>2, <2>1, <2>2 DEF OnePollerInv, Polling, PollStep
  <2>5. OneRequestInv(c)'
    BY <1>2, <2>1, <2>2, <2>3 DEF OneRequestInv, Filling
  <2>6. RequestRowInv(c)'
    BY <1>2, <2>1, <2>2, <2>3 DEF RequestRowInv, Filling, Polling, PollStep
  <2>7. PolledInv(c)'
    BY <2>1 DEF PolledInv, Filling, InitialStep
  <2> QED BY <2>4, <2>5, <2>6, <2>7 DEF ActivityInv
<1>5. CASE \/ SyncBegin(c, f) \/ SyncDrop(c, f) \/ SyncCreate(c, f)
           \/ SyncMark(c, f) \/ SyncOpen(c, f) \/ SyncBatch(c, f)
  <2>1. /\ Filling(c, f) /\ poller' = poller /\ controller' = controller /\ requests' = requests
    BY <1>5 DEF SyncBegin, SyncDrop, SyncCreate, SyncMark, SyncOpen, SyncBatch, Filling, InitialStep
  <2>2. /\ coll'[c].row = coll[c].row /\ coll'[c].enabled = coll[c].enabled
        /\ coll'[c].synced = coll[c].synced /\ coll'[c].cursor = coll[c].cursor
    BY <1>1, <1>5, RowValue DEF SyncBegin, SyncDrop, SyncCreate, SyncMark, SyncOpen, SyncBatch
  <2>3. PICK new : /\ Step(c, f, new) /\ new.aborted = fiber[c][f].aborted
                   /\ new.pc \in InitialStep
    <3>1. CASE SyncBegin(c, f) \/ SyncDrop(c, f) \/ SyncCreate(c, f)
      <4>1. PICK s \in InitialStep : Goto(c, f, s)
        BY <3>1 DEF SyncBegin, SyncDrop, SyncCreate, InitialStep
      <4> QED BY <1>3, <4>1 DEF Goto, FiberState
    <3>2. CASE SyncMark(c, f)
      <4>1. PICK m : Step(c, f, [fiber[c][f] EXCEPT !.pc = "open", !.cursor = m])
        BY <3>2 DEF SyncMark
      <4> DEFINE new == [fiber[c][f] EXCEPT !.pc = "open", !.cursor = m]
      <4>2. new.aborted = fiber[c][f].aborted /\ new.pc \in InitialStep
        BY <1>3 DEF FiberState, InitialStep
      <4> QED BY <4>1, <4>2
    <3>3. CASE SyncOpen(c, f)
      <4>1. PICK t : Step(c, f, [fiber[c][f] EXCEPT !.pc = "snapshot", !.todo = t])
        BY <3>3 DEF SyncOpen
      <4> DEFINE new == [fiber[c][f] EXCEPT !.pc = "snapshot", !.todo = t]
      <4>2. new.aborted = fiber[c][f].aborted /\ new.pc \in InitialStep
        BY <1>3 DEF FiberState, InitialStep
      <4> QED BY <4>1, <4>2
    <3>4. CASE SyncBatch(c, f)
      <4>1. PICK t : Step(c, f, [fiber[c][f] EXCEPT !.todo = t])
        BY <3>4 DEF SyncBatch
      <4> QED BY <1>3, <2>1, <4>1 DEF FiberState, Filling
    <3> QED BY <1>5, <3>1, <3>2, <3>3, <3>4
  <2>4. /\ fiber'[c][f].aborted = fiber[c][f].aborted /\ fiber'[c][f].pc \in InitialStep
        /\ \A g \in Fiber : g # f => fiber'[c][g] = fiber[c][g]
    BY <1>1, <2>3, MovesOnly
  <2>5. OnePollerInv(c)'
    BY <1>2, <2>1, <2>4 DEF OnePollerInv, Polling, Filling, PollStep, InitialStep
  <2>6. OneRequestInv(c)'
    BY <1>2, <2>1, <2>4 DEF OneRequestInv, Filling
  <2>7. RequestRowInv(c)'
    BY <1>2, <2>1, <2>2, <2>4 DEF RequestRowInv, Filling, Polling, PollStep, InitialStep
  <2>8. PolledInv(c)'
    BY <2>4 DEF PolledInv, Filling
  <2> QED BY <2>5, <2>6, <2>7, <2>8 DEF ActivityInv
<1>6. CASE SyncFinish(c, f)
  <2>1. /\ Filling(c, f) /\ requests' = requests
        /\ poller' = [poller EXCEPT ![c] = f] /\ controller' = [controller EXCEPT ![c] = f]
    BY <1>6 DEF SyncFinish, Filling, InitialStep
  <2>2. poller'[c] = f /\ controller'[c] = f
    BY <1>1, <2>1 DEF WorkerType
  <2>3. /\ fiber'[c][f].pc = "timer" /\ fiber'[c][f].aborted = FALSE
        /\ \A g \in Fiber : g # f => fiber'[c][g] = fiber[c][g]
    BY <1>1, <1>6, MovesOnly DEF SyncFinish, ArmedFiber, IdleFiber
  <2>4. coll[c].row # "none" /\ coll'[c].row = coll[c].row
        /\ (coll[c].row = "live" => coll'[c].synced = TRUE)
    <3>1. SetRow(c, [coll[c] EXCEPT !.status = "idle", !.synced = TRUE, !.cursor = fiber[c][f].cursor])
      BY <1>6 DEF SyncFinish
    <3>2. \/ Live(c) /\ coll'[c] = [coll[c] EXCEPT !.status = "idle", !.synced = TRUE,
                                                 !.cursor = fiber[c][f].cursor]
          \/ ~Live(c) /\ coll'[c] = coll[c]
      BY <1>1, <3>1, SetRowValue
    <3>3. coll[c] \in CollRow /\ coll[c].row # "none"
      BY <1>1, <1>2, <2>1 DEF StoreType, RequestRowInv, Filling, InitialStep
    <3> QED BY <3>2, <3>3 DEF CollRow, Live
  <2>5. \A g \in Fiber : g # f => ~Filling(c, g)
    BY <1>2, <2>1 DEF OneRequestInv
  <2>6. OnePollerInv(c)'
    BY <1>2, <2>1, <2>2, <2>3, ConstantsAssumption DEF OnePollerInv, OneRequestInv, Polling
  <2>7. OneRequestInv(c)'
    BY <1>2, <2>1, <2>3, <2>5 DEF OneRequestInv, Filling, InitialStep
  <2>8. RequestRowInv(c)'
    BY <1>2, <2>1, <2>3, <2>4, <2>5
       DEF RequestRowInv, OneRequestInv, Filling, Polling, InitialStep
  <2>9. PolledInv(c)'
    BY <2>2, ConstantsAssumption DEF PolledInv
  <2> QED BY <2>6, <2>7, <2>8, <2>9 DEF ActivityInv
<1>7. CASE SyncFails(c, f)
  <2>1. /\ Filling(c, f) /\ poller' = poller /\ controller' = controller /\ requests' = requests
    BY <1>7 DEF SyncFails, Filling
  <2>2. /\ coll'[c].row = coll[c].row /\ coll'[c].enabled = coll[c].enabled
        /\ coll'[c].synced = coll[c].synced /\ coll'[c].cursor = coll[c].cursor
        /\ coll[c].row = "live" => coll'[c].status = "error"
    BY <1>1, <1>7, RowValue DEF SyncFails
  <2>3. /\ fiber'[c][f].pc = "idle" /\ fiber'[c][f].aborted = FALSE
        /\ \A g \in Fiber : g # f => fiber'[c][g] = fiber[c][g]
    BY <1>1, <1>7, MovesOnly DEF SyncFails, IdleFiber
  <2>4. OnePollerInv(c)'
    BY <1>2, <2>1, <2>3 DEF OnePollerInv, Polling, Filling, PollStep, InitialStep
  <2>5. OneRequestInv(c)'
    BY <1>2, <2>1, <2>3 DEF OneRequestInv, Filling, InitialStep
  <2>6. RequestRowInv(c)'
    BY <1>2, <2>1, <2>2, <2>3 DEF RequestRowInv, Filling, Polling, PollStep, InitialStep
  <2>7. PolledInv(c)'
    <3> SUFFICES ASSUME coll[c].row = "live", NEW g \in Fiber, g # f
                 PROVE  fiber[c][g].pc = "idle"
      BY <2>2, <2>3 DEF PolledInv
    <3>1. ~Filling(c, g) /\ ~Polling(c, g)
      BY <1>2, <2>1 DEF OneRequestInv, RequestRowInv
    <3> QED BY <1>1, <3>1, FiberStateType DEF Filling, Polling, Busy
  <2> QED BY <2>4, <2>5, <2>6, <2>7 DEF ActivityInv
<1> QED BY <1>4, <1>5, <1>6, <1>7 DEF InitialSync

(* The end of a tick: only the registered activity goes on.                *)
LEMMA RescheduleKeeps ==
  ASSUME WorkerType, NEW c \in Coll, NEW f \in Fiber, OnePollerInv(c), Polling(c, f),
         Reschedule(c, f)
  PROVE  /\ \A g \in Fiber : g # f => fiber'[c][g] = fiber[c][g]
         /\ poller'[c] = poller[c] /\ fiber'[c][f].aborted = FALSE
         /\ fiber[c][f].aborted => fiber'[c][f].pc = "idle"
         /\ ~fiber[c][f].aborted => fiber'[c][f].pc = "timer"
<1>1. CASE fiber[c][f].aborted
  <2>1. Step(c, f, IdleFiber) /\ poller' = poller
    BY <1>1 DEF Reschedule
  <2> QED BY <1>1, <2>1, MovesOnly DEF IdleFiber
<1>2. CASE ~fiber[c][f].aborted
  <2>1. Step(c, f, ArmedFiber) /\ poller' = [poller EXCEPT ![c] = f]
    BY <1>2 DEF Reschedule
  <2>2. poller'[c] = f /\ poller[c] = f
    BY <1>2, <2>1 DEF WorkerType, OnePollerInv
  <2> QED BY <1>2, <2>1, <2>2, MovesOnly DEF ArmedFiber, IdleFiber
<1> QED BY <1>1, <1>2

(* A straggler ends or goes on, the registered activity goes on; a row     *)
(* that somebody polls is filled, and saving its cursor says so again.     *)
LEMMA TickingKeeps ==
  ASSUME TypeOK, NEW c \in Coll, NEW f \in Fiber, ActivityInv(c), Polling(c, f),
         UNCHANGED <<requests, controller>>, poller'[c] = poller[c],
         \A g \in Fiber : g # f => fiber'[c][g] = fiber[c][g],
         \/ Polling(c, f)' /\ fiber'[c][f].aborted = fiber[c][f].aborted
            /\ (fiber[c][f].aborted => fiber'[c][f].pc \in PollStep)
         \/ fiber'[c][f].pc = "idle" /\ ~fiber'[c][f].aborted /\ fiber[c][f].aborted,
         coll'[c].row = coll[c].row, coll'[c].enabled = coll[c].enabled,
         coll[c].row = "live" => coll'[c].synced
  PROVE  ActivityInv(c)'
<1>1. OneRequestInv(c) /\ OnePollerInv(c) /\ RequestRowInv(c) /\ PolledInv(c)
  BY DEF ActivityInv
<1>2. OnePollerInv(c)'
  BY <1>1 DEF OnePollerInv, Polling, PollStep
<1>3. ~Filling(c, f) /\ ~Filling(c, f)' /\ fiber[c][f].pc # "idle"
  BY DEF Filling, Polling, PollStep, InitialStep
<1>4. OneRequestInv(c)'
  BY <1>1, <1>3 DEF OneRequestInv, Filling
<1>5. RequestRowInv(c)'
  BY <1>1, <1>3 DEF RequestRowInv, Filling, Polling
<1>6. PolledInv(c)'
  <2> SUFFICES ASSUME coll[c].row = "live", coll[c].enabled, requests[c] = {}, poller[c] = None
               PROVE  PolledInv(c)'
    BY DEF PolledInv
  <2>1. FALSE
    BY <1>1, <1>3 DEF PolledInv, RequestRowInv
  <2> QED BY <2>1
<1> QED BY <1>2, <1>4, <1>5, <1>6 DEF ActivityInv

LEMMA ActivityPoll ==
  ASSUME TypeOK, NEW c \in Coll, NEW f \in Fiber, ActivityInv(c), Poll(c, f) \/ PollFails(c, f)
  PROVE  ActivityInv(c)'
<1>1. StoreType /\ RequestType /\ WorkerType
  BY DEF TypeOK
<1>2. OneRequestInv(c) /\ OnePollerInv(c) /\ RequestRowInv(c) /\ PolledInv(c)
  BY DEF ActivityInv
<1>3. fiber[c][f] \in FiberState
  BY <1>1, FiberStateType
<1>4. CASE AddPoll(c, f)
  <2>1. /\ fiber[c][f].pc = "idle" /\ poller[c] = None /\ coll' = coll /\ Goto(c, f, "timer")
        /\ poller' = [poller EXCEPT ![c] = f] /\ controller' = [controller EXCEPT ![c] = f]
        /\ "addPoll" \in requests[c]
    BY <1>4 DEF AddPoll
  <2>2. Step(c, f, [fiber[c][f] EXCEPT !.pc = "timer"])
    BY <2>1 DEF Goto
  <2>3. /\ fiber'[c][f].pc = "timer" /\ fiber'[c][f].aborted = fiber[c][f].aborted
        /\ ~fiber[c][f].aborted
        /\ \A g \in Fiber : g # f => fiber'[c][g] = fiber[c][g]
    BY <1>1, <1>2, <2>1, <2>2, GotoValue, MovesOnly DEF OnePollerInv, PollStep
  <2>4. poller'[c] = f /\ controller'[c] = f
    BY <1>1, <2>1 DEF WorkerType
  <2>5. requests[c] = {"addPoll"} /\ requests'[c] = {} /\ \A g \in Fiber : ~Filling(c, g)
    <3>1. requests'[c] = (requests[c] \ {"addPoll"}) \cup {}
      BY <1>1, <1>4, BecomeValue DEF AddPoll
    <3> QED BY <1>2, <2>1, <3>1 DEF OneRequestInv
  <2>6. OnePollerInv(c)'
    BY <1>2, <2>1, <2>3, <2>4, ConstantsAssumption DEF OnePollerInv, Polling
  <2>7. OneRequestInv(c)'
    BY <2>3, <2>5 DEF OneRequestInv, Filling, InitialStep
  <2>8. RequestRowInv(c)'
    BY <1>2, <2>1, <2>3, <2>5 DEF RequestRowInv, Filling, Polling, InitialStep
  <2>9. PolledInv(c)'
    BY <2>4, ConstantsAssumption DEF PolledInv
  <2> QED BY <2>6, <2>7, <2>8, <2>9 DEF ActivityInv
<1>5. CASE ~AddPoll(c, f)
  <2>1. Polling(c, f) /\ UNCHANGED <<requests, controller>>
    BY <1>5 DEF Poll, Tick, ReadCursor, ReadSkips, PollOutbox, PollEmpty, SendUpserts, SendDeletes,
       GcOutbox, SaveCursor, PollFails, Polling, PollStep
  <2>2. coll[c].row = "live" => coll[c].synced
    BY <1>2, <2>1 DEF RequestRowInv
  <2>3. CASE Tick(c, f)
    <3>1. ~fiber[c][f].aborted /\ fiber[c][f].pc = "timer"
      BY <1>2, <2>3 DEF Tick, OnePollerInv, PollStep
    <3>2. Goto(c, f, "read") /\ UNCHANGED <<coll, poller>>
      BY <2>3, <3>1, Zenon DEF Tick
    <3>3. Step(c, f, [fiber[c][f] EXCEPT !.pc = "read"])
      BY <3>2 DEF Goto
    <3>4. /\ fiber'[c][f].pc = "read" /\ fiber'[c][f].aborted = fiber[c][f].aborted
          /\ \A g \in Fiber : g # f => fiber'[c][g] = fiber[c][g]
      BY <1>1, <3>2, <3>3, GotoValue, MovesOnly
    <3> QED BY <2>1, <2>2, <3>1, <3>2, <3>4, TickingKeeps DEF Polling, PollStep
  <2>4. CASE ReadCursor(c, f) \/ PollOutbox(c, f) \/ SendUpserts(c, f) \/ SendDeletes(c, f)
             \/ GcOutbox(c, f)
    <3>1. PICK new : Step(c, f, new) /\ new.aborted = fiber[c][f].aborted /\ new.pc \in PollStep
      <4>1. CASE ReadCursor(c, f)
        <5> DEFINE new == [fiber[c][f] EXCEPT !.pc = "poll", !.cursor = coll[c].cursor]
        <5>1. new.aborted = fiber[c][f].aborted /\ new.pc \in PollStep
          BY <1>3 DEF FiberState, PollStep
        <5> QED BY <4>1, <5>1 DEF ReadCursor
      <4>2. CASE PollOutbox(c, f)
        <5> DEFINE new == [fiber[c][f] EXCEPT !.pc = "upsert",
                                              !.batch = First(BatchSize, Unread(c, f))]
        <5>1. new.aborted = fiber[c][f].aborted /\ new.pc \in PollStep
          BY <1>3 DEF FiberState, PollStep
        <5> QED BY <4>2, <5>1 DEF PollOutbox
      <4>3. CASE SendUpserts(c, f) \/ SendDeletes(c, f) \/ GcOutbox(c, f)
        <5>1. PICK s \in PollStep : Goto(c, f, s)
          BY <4>3 DEF SendUpserts, SendDeletes, GcOutbox, PollStep
        <5> DEFINE new == [fiber[c][f] EXCEPT !.pc = s]
        <5>2. new.aborted = fiber[c][f].aborted /\ new.pc \in PollStep
          BY <1>3 DEF FiberState
        <5> QED BY <5>1, <5>2 DEF Goto
      <4> QED BY <2>4, <4>1, <4>2, <4>3
    <3>2. /\ fiber'[c][f].aborted = fiber[c][f].aborted /\ fiber'[c][f].pc \in PollStep
          /\ \A g \in Fiber : g # f => fiber'[c][g] = fiber[c][g]
      BY <1>1, <3>1, MovesOnly
    <3>3. UNCHANGED <<coll, poller>>
      BY <2>4 DEF ReadCursor, PollOutbox, SendUpserts, SendDeletes, GcOutbox
    <3> QED BY <2>1, <2>2, <3>2, <3>3, TickingKeeps DEF Polling
  <2>5. CASE ReadSkips(c, f) \/ PollEmpty(c, f) \/ SaveCursor(c, f) \/ PollFails(c, f)
    <3>1. Reschedule(c, f)
      BY <2>5 DEF ReadSkips, PollEmpty, SaveCursor, PollFails
    <3>2. /\ \A g \in Fiber : g # f => fiber'[c][g] = fiber[c][g]
          /\ poller'[c] = poller[c] /\ fiber'[c][f].aborted = FALSE
          /\ fiber[c][f].aborted => fiber'[c][f].pc = "idle"
          /\ ~fiber[c][f].aborted => fiber'[c][f].pc = "timer"
      BY <1>1, <1>2, <2>1, <3>1, RescheduleKeeps
    <3>3. /\ coll'[c].row = coll[c].row /\ coll'[c].enabled = coll[c].enabled
          /\ coll[c].row = "live" => coll'[c].synced
      <4>1. CASE ReadSkips(c, f) \/ PollEmpty(c, f)
        BY <2>2, <4>1 DEF ReadSkips, PollEmpty
      <4>2. CASE SaveCursor(c, f)
        <5>1. PICK m : SetRow(c, [coll[c] EXCEPT !.status = "idle", !.synced = TRUE, !.cursor = m])
          BY <4>2 DEF SaveCursor
        <5>2. coll'[c] = coll[c]
              \/ coll'[c] = [coll[c] EXCEPT !.status = "idle", !.synced = TRUE, !.cursor = m]
          BY <1>1, <5>1, SetRowValue
        <5>3. coll[c] \in CollRow
          BY <1>1 DEF StoreType
        <5> QED BY <2>2, <5>2, <5>3 DEF CollRow
      <4>3. CASE PollFails(c, f)
        BY <1>1, <2>2, <4>3, RowValue DEF PollFails
      <4> QED BY <2>5, <4>1, <4>2, <4>3
    <3>4. fiber[c][f].aborted \in BOOLEAN
      BY <1>1, FiberStateType
    <3> QED BY <2>1, <3>2, <3>3, <3>4, TickingKeeps DEF Polling
  <2> QED BY <1>5, <2>3, <2>4, <2>5 DEF Poll
<1> QED BY <1>4, <1>5

LEMMA ActivityRestart ==
  ASSUME NEW c \in Coll, ActivityInv(c), Restart
  PROVE  ActivityInv(c)'
<1>1. /\ RequestRowInv(c) /\ coll' = coll
      /\ poller'[c] = None /\ controller'[c] = None
      /\ \A f \in Fiber : fiber'[c][f] = IdleFiber
      /\ requests'[c] = IF Live(c) /\ coll[c].enabled /\ coll[c].status # "error"
                        THEN {AddStep(coll[c])} ELSE {}
  BY DEF ActivityInv, Restart
<1>2. \A f \in Fiber : fiber'[c][f].pc = "idle" /\ ~fiber'[c][f].aborted
  BY <1>1 DEF IdleFiber
<1>3. /\ requests'[c] = {} \/ (requests'[c] = {AddStep(coll[c])} /\ coll[c].row = "live")
      /\ coll[c].row = "live" /\ coll[c].enabled /\ requests'[c] = {} => coll[c].status = "error"
  <2> DEFINE starts == Live(c) /\ coll[c].enabled /\ coll[c].status # "error"
  <2>1. CASE starts
    BY <1>1, <2>1 DEF Live
  <2>2. CASE ~starts
    BY <1>1, <2>2 DEF Live
  <2> QED BY <2>1, <2>2
<1>4. OnePollerInv(c)'
  BY <1>1, <1>2, ConstantsAssumption DEF OnePollerInv, Polling, PollStep
<1>5. OneRequestInv(c)'
  BY <1>2, <1>3 DEF OneRequestInv, Filling, InitialStep
<1>6. RequestRowInv(c)'
  BY <1>1, <1>2, <1>3 DEF RequestRowInv, AddStep, Filling, Polling, InitialStep, PollStep
<1>7. PolledInv(c)'
  BY <1>1, <1>2, <1>3 DEF PolledInv
<1> QED BY <1>4, <1>5, <1>6, <1>7 DEF ActivityInv

(* What happens to one collection leaves the others alone.                 *)
LEMMA OthersStep ==
  ASSUME TypeOK, NEW c \in Coll, NEW d \in Coll, d # c,
         Admin(d) \/ \E f \in Fiber : InitialSync(d, f) \/ Poll(d, f) \/ Fault(d, f)
  PROVE  UNCHANGED <<fiber[c], poller[c], controller[c], requests[c], coll[c]>>
<1> DEFINE same == UNCHANGED <<fiber[c], poller[c], controller[c], requests[c], coll[c]>>
<1>1. StoreType /\ RequestType /\ WorkerType
  BY DEF TypeOK
<1>2. \A old, new : Become(d, old, new) => requests'[c] = requests[c]
  BY <1>1 DEF Become, RequestType
<1>3. \A f \in Fiber : \A new : Step(d, f, new) => fiber'[c] = fiber[c]
  BY <1>1 DEF Step, WorkerType
<1>4. \A f \in Fiber : \A s : Goto(d, f, s) => fiber'[c] = fiber[c]
  BY <1>3 DEF Goto
<1>5. Removed(d) => UNCHANGED <<fiber[c], poller[c], controller[c]>>
  BY <1>1 DEF Removed, WorkerType
<1>6. \A r : SetRow(d, r) => coll'[c] = coll[c]
  BY <1>1 DEF SetRow, StoreType
<1>7. \A x : /\ coll' = [coll EXCEPT ![d].row = x] => coll'[c] = coll[c]
             /\ coll' = [coll EXCEPT ![d].enabled = x] => coll'[c] = coll[c]
  BY <1>1 DEF StoreType
<1>8. \A f : /\ poller' = [poller EXCEPT ![d] = f] => poller'[c] = poller[c]
             /\ controller' = [controller EXCEPT ![d] = f] => controller'[c] = controller[c]
  BY <1>1 DEF WorkerType
<1>9. \A f \in Fiber : Reschedule(d, f) => fiber'[c] = fiber[c] /\ poller'[c] = poller[c]
  BY <1>3, <1>8, Zenon DEF Reschedule
<1>10. CASE Admin(d)
  <2>1. CASE \/ CreateCollection(d) \/ ProvisionDrop(d) \/ ProvisionCreate(d) \/ ProvisionFails(d)
             \/ Disable(d) \/ Enable(d) \/ DeleteProject(d)
             \/ Untrigger(d) \/ Unindex(d) \/ Erase(d) \/ AddIgnored(d)
    BY <2>1, <1>2, <1>7 DEF CreateCollection, ProvisionDrop, ProvisionCreate, ProvisionFails,
       Disable, Enable, DeleteProject, Untrigger, Unindex, Erase, AddIgnored
  <2>2. CASE Remove(d) \/ Resync(d) \/ DeleteCollection(d)
    BY <2>2, <1>2, <1>5 DEF Remove, Resync, DeleteCollection
  <2>3. CASE Reset(d)
    BY <2>3, <1>2, <1>6 DEF Reset
  <2> QED BY <1>10, <2>1, <2>2, <2>3 DEF Admin
<1>11. ASSUME NEW f \in Fiber, InitialSync(d, f) PROVE same
  <2>1. CASE AddInitial(d, f) \/ SyncDrop(d, f) \/ SyncCreate(d, f)
    BY <2>1, <1>2, <1>4 DEF AddInitial, SyncDrop, SyncCreate
  <2>2. CASE SyncBegin(d, f) \/ SyncFinish(d, f)
    BY <2>2, <1>3, <1>4, <1>6, <1>8 DEF SyncBegin, SyncFinish
  <2>3. CASE SyncMark(d, f) \/ SyncOpen(d, f) \/ SyncBatch(d, f)
    BY <2>3, <1>3 DEF SyncMark, SyncOpen, SyncBatch
  <2> QED BY <1>11, <2>1, <2>2, <2>3 DEF InitialSync
<1>12. ASSUME NEW f \in Fiber, Poll(d, f) PROVE same
  <2>1. CASE AddPoll(d, f)
    BY <2>1, <1>2, <1>4, <1>8 DEF AddPoll
  <2>2. CASE Tick(d, f)
    <3>1. fiber'[c] = fiber[c]
      BY <2>2, <1>3, <1>4, Zenon DEF Tick
    <3> QED BY <2>2, <3>1 DEF Tick
  <2>3. CASE ReadSkips(d, f) \/ PollEmpty(d, f) \/ SaveCursor(d, f)
    BY <2>3, <1>6, <1>9 DEF ReadSkips, PollEmpty, SaveCursor
  <2>4. CASE \/ ReadCursor(d, f) \/ PollOutbox(d, f) \/ SendUpserts(d, f) \/ SendDeletes(d, f)
             \/ GcOutbox(d, f)
    BY <2>4, <1>3, <1>4 DEF ReadCursor, PollOutbox, SendUpserts, SendDeletes, GcOutbox
  <2> QED BY <1>12, <2>1, <2>2, <2>3, <2>4 DEF Poll
<1>13. ASSUME NEW f \in Fiber, Fault(d, f) PROVE same
  BY <1>13, <1>3, <1>6, <1>9 DEF Fault, SyncFails, PollFails, FiberDies
<1> QED BY <1>10, <1>11, <1>12, <1>13

(* An enabled collection that reports no error is polled, being filled or  *)
(* about to be, for any collections, activities, writers, failures and     *)
(* restarts.  The assumptions leave out what breaks it: two requests at    *)
(* once, a resync during a poll and a status update that fails as well.    *)
THEOREM EnabledStaysPolled ==
  ASSUME MaxRequests <= 1, ~ResyncOverlap, ~StatusWriteFails
  PROVE  Spec => []EnabledIsPolled
<1> DEFINE Inv == \A c \in Coll : ActivityInv(c)
<1>1. Init => Inv
  <2> SUFFICES ASSUME Init, NEW c \in Coll PROVE ActivityInv(c)
    OBVIOUS
  <2>1. /\ \A f \in Fiber : fiber[c][f].pc = "idle" /\ ~fiber[c][f].aborted
        /\ poller[c] = None /\ controller[c] = None /\ requests[c] = {}
        /\ coll[c].row = "none" /\ coll[c].cursor = 0 /\ ~coll[c].synced
    BY DEF Init, IdleFiber
  <2>2. OnePollerInv(c) /\ OneRequestInv(c)
    BY <2>1, ConstantsAssumption
       DEF OnePollerInv, OneRequestInv, Filling, Polling, InitialStep, PollStep
  <2> QED BY <2>1, <2>2 DEF ActivityInv, RequestRowInv, PolledInv
<1>2. TypeOK /\ Inv /\ [Next]_vars => Inv'
  <2> SUFFICES ASSUME TypeOK, Inv, [Next]_vars, NEW c \in Coll PROVE ActivityInv(c)'
    OBVIOUS
  <2>1. ActivityInv(c)
    OBVIOUS
  <2>2. CASE Source \/ UNCHANGED vars
    <3>1. UNCHANGED <<fiber, poller, controller, requests, coll>>
      BY <2>2 DEF Source, Write, Commit, Rollback, vars, workerVars
    <3> QED BY <2>1, <3>1, ActivityFrame
  <2>3. CASE Restart
    BY <2>1, <2>3, ActivityRestart
  <2>4. ASSUME NEW d \in Coll,
               Admin(d) \/ \E f \in Fiber : InitialSync(d, f) \/ Poll(d, f) \/ Fault(d, f)
        PROVE  ActivityInv(c)'
    <3>1. CASE d # c
      BY <2>1, <2>4, <3>1, OthersStep, ActivityFrame
    <3>2. CASE d = c /\ Admin(d)
      BY <2>1, <3>2, ActivityRequest, ActivityRemoved DEF Admin
    <3>3. ASSUME NEW f \in Fiber, d = c, InitialSync(d, f) \/ Poll(d, f) \/ Fault(d, f)
          PROVE  ActivityInv(c)'
      <4>1. ~FiberDies(c, f)
        BY DEF FiberDies
      <4> QED BY <2>1, <3>3, <4>1, ActivityFill, ActivityPoll DEF Fault
    <3> QED BY <2>4, <3>1, <3>2, <3>3
  <2> QED BY <2>2, <2>3, <2>4 DEF Next
<1>3. TypeOK /\ Inv => EnabledIsPolled
  <2> SUFFICES ASSUME TypeOK, Inv, NEW c \in Coll, Live(c), coll[c].enabled,
                      coll[c].status # "error", requests[c] = {}
               PROVE  \E f \in Fiber : fiber[c][f].pc # "idle" /\ ~fiber[c][f].aborted
    BY DEF EnabledIsPolled
  <2>1. ActivityInv(c) /\ poller[c] \in Fiber \cup {None}
    BY DEF TypeOK, WorkerType
  <2>2. CASE poller[c] # None
    BY <2>1, <2>2 DEF ActivityInv, OnePollerInv, Polling, PollStep
  <2>3. CASE \E f \in Fiber : Filling(c, f)
    BY <2>1, <2>3 DEF ActivityInv, OnePollerInv, Filling, InitialStep, PollStep
  <2> QED BY <2>1, <2>2, <2>3 DEF ActivityInv, PolledInv, Live
<1> QED BY <1>1, <1>2, <1>3, TypeCorrect, PTL DEF Spec

(***************************************************************************)
(* No change of the source table is lost on its way to the index: proof of *)
(* LiveRowsIndexed, GcOnlyApplied and NoStaleAfterFirstFill of             *)
(* PgOutboxSync for one collection whose activities do not overlap, over a *)
(* table whose transactions commit in the order of their outbox ids and    *)
(* never reuse a deleted key.                                              *)
(***************************************************************************)
Alone(c, f) ==
  /\ Coll = {c} /\ Fiber = {f} /\ MaxRequests = 1
  /\ OrderedCommits /\ ~KeyReuse /\ ~ResyncOverlap

-----------------------------------------------------------------------------
(* Operators                                                               *)

(* What LIMIT keeps is a prefix.                                           *)
LEMMA FirstIsPrefix ==
  ASSUME NEW n \in Nat, NEW S, IsFiniteSet(S), \A e \in S : e.id \in Nat,
         NEW e \in First(n, S), NEW d \in S, d.id <= e.id
  PROVE  d \in First(n, S)
<1> DEFINE upToD == {x \in S : x.id <= d.id}
           upToE == {x \in S : x.id <= e.id}
<1>1. e \in S /\ Cardinality(upToE) <= n
  BY DEF First
<1>2. upToD \subseteq upToE /\ upToE \subseteq S
  BY <1>1
<1>3. /\ Cardinality(upToD) <= Cardinality(upToE)
      /\ Cardinality(upToD) \in Nat /\ Cardinality(upToE) \in Nat
  BY <1>2, FS_Subset, FS_CardinalityType
<1>4. Cardinality(upToD) <= n
  BY <1>1, <1>3
<1> QED BY <1>4 DEF First

LEMMA FiniteTriple ==
  ASSUME NEW x, NEW y, NEW z
  PROVE  IsFiniteSet({x, y, z})
<1>1. {x, y, z} = ({x} \cup {y}) \cup {z}
  OBVIOUS
<1>2. IsFiniteSet({x}) /\ IsFiniteSet({y}) /\ IsFiniteSet({z})
  BY FS_Singleton
<1>3. IsFiniteSet({x} \cup {y})
  BY <1>2, FS_Union
<1>4. IsFiniteSet(({x} \cup {y}) \cup {z})
  BY <1>2, <1>3, FS_Union
<1> QED BY <1>1, <1>4

(* A new request finds no other and no initial sync.                       *)
LEMMA NoOtherRequest ==
  ASSUME TypeOK, NEW c \in Coll, NEW f \in Fiber, Alone(c, f), NewRequest(c)
  PROVE  requests[c] = {} /\ fiber[c][f].pc \notin InitialStep
<1> DEFINE filling == {g \in Fiber : fiber[c][g].pc \in InitialStep}
<1>1. requests[c] \subseteq RequestStep
  BY DEF TypeOK, RequestType
<1>2. IsFiniteSet(RequestStep)
  <2>1. RequestStep = ({"provisionDrop", "provisionCreate", "addInitial"}
                         \cup {"addPoll", "remove", "reset"})
                         \cup {"untrigger", "unindex", "erase"}
    BY DEF RequestStep
  <2> QED BY <2>1, FiniteTriple, FS_Union
<1>3. IsFiniteSet(requests[c]) /\ IsFiniteSet(filling)
  BY <1>1, <1>2, FS_Subset, FS_Singleton DEF Alone
<1>4. Cardinality(requests[c]) = 0 /\ Cardinality(filling) = 0
  BY <1>3, FS_CardinalityType DEF NewRequest, Alone
<1>5. requests[c] = {} /\ filling = {}
  BY <1>3, <1>4, FS_EmptySet
<1> QED BY <1>5

-----------------------------------------------------------------------------
(* The parts of the invariant that a step leaves alone                     *)

LEMMA Frame ==
  ASSUME NEW c \in Coll, NEW f \in Fiber, IInv(c, f)
  PROVE  /\ UNCHANGED sourceVars => SourceInv'
         /\ UNCHANGED <<requests, fiber, poller>> => ControlInv(c, f)'
         /\ UNCHANGED <<coll, requests, fiber, trigger, past>> => RowInv(c, f)'
         /\ UNCHANGED <<sourceVars, coll, index, past>> => FilledInv(c)'
         /\ UNCHANGED <<sourceVars, index, fiber, past>> => FillingInv(c, f)'
         /\ UNCHANGED <<sourceVars, coll, index, fiber, past>> => PollingInv(c, f)'
<1>1. UNCHANGED sourceVars => SourceInv'
  BY DEF IInv, sourceVars, SourceInv, OutboxInv, InflightInv, LastOfKey
<1>2. UNCHANGED <<requests, fiber, poller>> => ControlInv(c, f)'
  BY DEF IInv, ControlInv
<1>3. UNCHANGED <<coll, requests, fiber, trigger, past>> => RowInv(c, f)'
  BY DEF IInv, RowInv
<1>4. UNCHANGED <<sourceVars, coll, index, past>> => FilledInv(c)'
  BY DEF IInv, sourceVars, FilledInv, NothingBehind, TailCurrent, Unapplied, LastOfKey
<1>5. UNCHANGED <<sourceVars, index, fiber, past>> => FillingInv(c, f)'
  BY DEF IInv, sourceVars, FillingInv, NothingBehind, TailCurrent, Unapplied, LastOfKey
<1>6. UNCHANGED <<sourceVars, coll, index, fiber, past>> => PollingInv(c, f)'
  BY DEF IInv, sourceVars, PollingInv, NothingBehind, LastOfKey
<1> QED BY <1>1, <1>2, <1>3, <1>4, <1>5, <1>6

LEMMA Plain ==
  ASSUME TypeOK, NEW c \in Coll, NEW f \in Fiber
  PROVE  /\ seq \in Nat
         /\ \A e \in outbox \cup inflight \cup fiber[c][f].batch :
              e \in Change /\ e.id \in Nat /\ e.key \in Key /\ e.val \in Cell
         /\ coll[c].cursor \in Nat /\ fiber[c][f].cursor \in Nat
         /\ coll[c].synced \in BOOLEAN /\ trigger \in BOOLEAN
         /\ table \in [Key -> Cell] /\ index[c] \in [Key -> Cell]
<1>1. SourceType /\ StoreType /\ WorkerType
  BY DEF TypeOK
<1>2. outbox \in SUBSET Change /\ inflight \in SUBSET Change
  BY <1>1 DEF SourceType
<1>3. fiber[c][f].batch \in SUBSET Change /\ fiber[c][f].cursor \in 0 .. MaxId
  BY <1>1, FiberStateType
<1>4. \A e \in Change : e.id \in Nat /\ e.key \in Key /\ e.val \in Cell
  BY ConstantsAssumption DEF Change
<1>5. coll[c].cursor \in 0 .. MaxId /\ coll[c].synced \in BOOLEAN
  BY <1>1, CollType
<1>6. seq \in Nat /\ trigger \in BOOLEAN /\ table \in [Key -> Cell]
  BY <1>1, ConstantsAssumption DEF SourceType
<1>7. index[c] \in [Key -> Cell]
  BY <1>1 DEF StoreType
<1> QED BY <1>2, <1>3, <1>4, <1>5, <1>6, <1>7, ConstantsAssumption

(* The trigger is installed whenever the invariant speaks of the index.    *)
LEMMA TriggerInstalled ==
  ASSUME NEW c \in Coll, NEW f \in Fiber, IInv(c, f), "delete" \notin past[c]
  PROVE  /\ coll[c].synced => trigger
         /\ fiber[c][f].pc \in {"open", "snapshot"} => trigger
         /\ fiber[c][f].pc \in PollStep => trigger
BY DEF IInv, RowInv

-----------------------------------------------------------------------------
(* Writers                                                                 *)

LEMMA WriteKeeps ==
  ASSUME TypeOK, NEW c \in Coll, NEW f \in Fiber, Alone(c, f), IInv(c, f),
         NEW k \in Key, NEW v \in Cell, Write(k, v)
  PROVE  IInv(c, f)'
<1> USE DEF workerVars
<1> DEFINE new == [id |-> IF trigger THEN seq + 1 ELSE 0, key |-> k, val |-> v]
<1>1. /\ inflight' = inflight \cup {new} /\ new.key = k
      /\ trigger => new.id = seq + 1 /\ seq' = seq + 1
      /\ ~trigger => new.id = 0 /\ seq' = seq
      /\ k \notin dead /\ \A e \in inflight : e.key # k
      /\ UNCHANGED <<table, dead, outbox, trigger, coll, index, fiber, poller, requests, past>>
  BY DEF Write, Alone
<1>2. SourceInv
  BY DEF IInv
<1> HIDE DEF new
<1>3. SourceInv'
  <2>1. OutboxInv'
    BY <1>1, <1>2, Plain DEF SourceInv, OutboxInv, LastOfKey
  <2>2. InflightInv'
    <3>1. \A e \in inflight' : e.id <= seq' /\ (e.id # 0 <=> trigger') /\ e.key \notin dead'
      BY <1>1, <1>2, Plain DEF SourceInv, InflightInv
    <3>2. \A d, e \in inflight' : d.key = e.key \/ (trigger' /\ d.id = e.id) => d = e
      BY <1>1, <1>2, Plain DEF SourceInv, InflightInv
    <3>3. trigger' => \A d \in outbox', e \in inflight' : d.id < e.id
      BY <1>1, <1>2, Plain DEF SourceInv, InflightInv, OutboxInv
    <3> QED BY <3>1, <3>2, <3>3 DEF InflightInv
  <2> QED BY <2>1, <2>2 DEF SourceInv
<1>4. ASSUME trigger, NEW m \in Nat, NothingBehind(m)
      PROVE  NothingBehind(m)'
  BY <1>1, <1>4, Plain DEF NothingBehind
<1>5. ControlInv(c, f)' /\ RowInv(c, f)'
  BY <1>1, Frame
<1>6. FilledInv(c)'
  BY <1>1, <1>4, TriggerInstalled, Plain
     DEF IInv, FilledInv, TailCurrent, Unapplied, LastOfKey
<1>7. FillingInv(c, f)'
  BY <1>1, <1>4, TriggerInstalled, Plain
     DEF IInv, FillingInv, TailCurrent, Unapplied, LastOfKey
<1>8. PollingInv(c, f)'
  BY <1>1, <1>4, TriggerInstalled, Plain DEF IInv, PollingInv, LastOfKey, PollStep
<1> QED BY <1>3, <1>5, <1>6, <1>7, <1>8 DEF IInv

LEMMA RollbackKeeps ==
  ASSUME TypeOK, NEW c \in Coll, NEW f \in Fiber, IInv(c, f),
         NEW e \in inflight, Rollback(e)
  PROVE  IInv(c, f)'
<1> USE DEF workerVars
<1>1. /\ inflight' \subseteq inflight
      /\ UNCHANGED <<table, dead, outbox, seq, trigger, coll, index, fiber, poller,
                     requests, past>>
  BY DEF Rollback
<1>2. SourceInv'
  BY <1>1 DEF IInv, SourceInv, OutboxInv, InflightInv, LastOfKey
<1>3. \A m : NothingBehind(m) => NothingBehind(m)'
  BY <1>1 DEF NothingBehind
<1>4. ControlInv(c, f)' /\ RowInv(c, f)'
  BY <1>1, Frame
<1>5. FilledInv(c)'
  BY <1>1, <1>3 DEF IInv, FilledInv, TailCurrent, Unapplied, LastOfKey
<1>6. FillingInv(c, f)'
  BY <1>1, <1>3 DEF IInv, FillingInv, TailCurrent, Unapplied, LastOfKey
<1>7. PollingInv(c, f)'
  BY <1>1, <1>3 DEF IInv, PollingInv, LastOfKey
<1> QED BY <1>2, <1>4, <1>5, <1>6, <1>7 DEF IInv

LEMMA CommitKeeps ==
  ASSUME TypeOK, NEW c \in Coll, NEW f \in Fiber, Alone(c, f), IInv(c, f),
         NEW e \in inflight, Commit(e)
  PROVE  IInv(c, f)'
<1> USE DEF workerVars
<1>1. /\ inflight' = inflight \ {e}
      /\ table' = [table EXCEPT ![e.key] = e.val]
      /\ dead' = IF e.val = Absent THEN dead \cup {e.key} ELSE dead
      /\ UNCHANGED <<seq, trigger, coll, index, fiber, poller, requests, past>>
      /\ \A d \in inflight : e.id <= d.id
  BY DEF Commit, Alone
<1>2. /\ trigger => outbox' = outbox \cup {e}
      /\ ~trigger => outbox' = outbox
  BY DEF Commit, IInv, SourceInv, InflightInv
<1>3. SourceInv /\ e \in Change /\ e.id \in Nat /\ e.key \in Key /\ e.val \in Cell
      /\ e.id <= seq /\ e.key \notin dead /\ (trigger => e.id > 0)
  BY Plain DEF IInv, SourceInv, InflightInv
<1>4. /\ trigger => \A d \in outbox : d.id < e.id
      /\ \A d \in outbox : d.key = e.key => d.val # Absent
  BY <1>3 DEF SourceInv, OutboxInv, InflightInv
<1>5. ASSUME trigger
      PROVE  LastOfKey(e, outbox')
  BY <1>2, <1>4, <1>5, Plain DEF LastOfKey
<1>6. ASSUME NEW d \in outbox, d.key # e.key, LastOfKey(d, outbox)
      PROVE  LastOfKey(d, outbox')
  BY <1>2, <1>6, Plain DEF LastOfKey
<1>7. SourceInv'
  <2>1. OutboxInv'
    <3>1. IsFiniteSet(outbox')
      BY <1>2, <1>3, FS_AddElement DEF SourceInv, OutboxInv
    <3>2. \A d \in outbox' : 0 < d.id /\ d.id <= seq'
      BY <1>1, <1>2, <1>3 DEF SourceInv, OutboxInv
    <3>3. \A d, b \in outbox' : d.id = b.id => d = b
      BY <1>2, <1>3, <1>4, Plain DEF SourceInv, OutboxInv
    <3>4. \A b \in outbox' : \E d \in outbox' : d.key = b.key /\ LastOfKey(d, outbox')
      <4>1. CASE trigger
        <5> SUFFICES ASSUME NEW b \in outbox'
                     PROVE  \E d \in outbox' : d.key = b.key /\ LastOfKey(d, outbox')
          OBVIOUS
        <5>1. CASE b.key = e.key
          BY <1>2, <1>5, <4>1, <5>1
        <5>2. CASE b.key # e.key
          <6>1. b \in outbox
            BY <1>2, <4>1, <5>2
          <6>2. PICK d \in outbox : d.key = b.key /\ LastOfKey(d, outbox)
            BY <1>3, <6>1 DEF SourceInv, OutboxInv
          <6> QED BY <1>2, <1>6, <4>1, <5>2, <6>2
        <5> QED BY <5>1, <5>2
      <4>2. CASE ~trigger
        BY <1>2, <1>3, <4>2 DEF SourceInv, OutboxInv
      <4> QED BY <4>1, <4>2
    <3>5. ASSUME NEW d \in outbox', d.val = Absent
          PROVE  d.key \in dead' /\ LastOfKey(d, outbox')
      <4>1. CASE d \in outbox
        <5>1. d.key # e.key /\ d.key \in dead /\ LastOfKey(d, outbox)
          BY <1>3, <1>4, <3>5, <4>1 DEF SourceInv, OutboxInv
        <5> QED BY <1>1, <1>6, <4>1, <5>1
      <4>2. CASE d \notin outbox
        <5>1. d = e /\ trigger
          BY <1>2, <4>2
        <5> QED BY <1>1, <1>5, <3>5, <5>1
      <4> QED BY <4>1, <4>2
    <3> QED BY <3>1, <3>2, <3>3, <3>4, <3>5 DEF OutboxInv
  <2>2. InflightInv'
    <3>1. \A d \in inflight' : d.id <= seq' /\ (d.id # 0 <=> trigger') /\ d.key \notin dead'
      BY <1>1, <1>3 DEF SourceInv, InflightInv
    <3>2. \A d, b \in inflight' : d.key = b.key \/ (trigger' /\ d.id = b.id) => d = b
      BY <1>1, <1>3 DEF SourceInv, InflightInv
    <3>3. trigger' => \A d \in outbox', b \in inflight' : d.id < b.id
      <4> SUFFICES ASSUME trigger, NEW d \in outbox', NEW b \in inflight' PROVE d.id < b.id
        BY <1>1
      <4>1. b \in inflight /\ b # e /\ b.id # e.id /\ e.id <= b.id /\ b.id \in Nat
        BY <1>1, <1>3, Plain DEF SourceInv, InflightInv
      <4>2. CASE d = e
        BY <1>3, <4>1, <4>2
      <4>3. CASE d # e
        BY <1>2, <1>3, <4>1, <4>3 DEF SourceInv, InflightInv
      <4> QED BY <4>2, <4>3
    <3> QED BY <3>1, <3>2, <3>3 DEF InflightInv
  <2> QED BY <2>1, <2>2 DEF SourceInv
<1>8. ASSUME trigger, NEW m \in Nat, NothingBehind(m)
      PROVE  NothingBehind(m)' /\ m < e.id
  BY <1>1, <1>8 DEF NothingBehind
<1>9. ASSUME trigger, NEW m \in Nat, TailCurrent(m)
      PROVE  TailCurrent(m)'
  <2> SUFFICES ASSUME NEW d \in outbox', d.id > m, LastOfKey(d, outbox')
               PROVE  d.val = table'[d.key]
    BY DEF TailCurrent
  <2>1. CASE d.key = e.key
    <3>1. d = e
      BY <1>2, <1>4, <1>9, <2>1, Plain DEF LastOfKey
    <3> QED BY <1>1, <1>3, <3>1, Plain
  <2>2. CASE d.key # e.key
    <3>1. d \in outbox /\ LastOfKey(d, outbox)
      BY <1>2, <1>9, <2>2 DEF LastOfKey
    <3> QED BY <1>1, <1>9, <2>2, <3>1, Plain DEF TailCurrent
  <2> QED BY <2>1, <2>2
<1>10. ASSUME trigger, NEW m \in Nat, NothingBehind(m), NEW k \in Key, Unapplied(m, k)' = {}
       PROVE  k # e.key /\ table'[k] = table[k] /\ Unapplied(m, k) = {}
  <2>1. e.id > m
    BY <1>3, <1>8, <1>10
  <2>2. k # e.key
    BY <1>2, <1>10, <2>1 DEF Unapplied
  <2> QED BY <1>1, <1>2, <1>10, <2>2, Plain DEF Unapplied
<1>11. ControlInv(c, f)' /\ RowInv(c, f)'
  BY <1>1, Frame
<1>12. FilledInv(c)'
  <2> SUFFICES ASSUME coll[c].synced, "delete" \notin past[c]
               PROVE  /\ NothingBehind(coll[c].cursor)'
                      /\ TailCurrent(coll[c].cursor)'
                      /\ \A k \in Key : table'[k] # Absent /\ Unapplied(coll[c].cursor, k)' = {}
                                          => index[c][k] = table'[k]
    BY <1>1 DEF FilledInv
  <2>1. trigger /\ NothingBehind(coll[c].cursor) /\ TailCurrent(coll[c].cursor)
        /\ coll[c].cursor \in Nat
    BY TriggerInstalled, Plain DEF IInv, FilledInv
  <2>2. NothingBehind(coll[c].cursor)' /\ TailCurrent(coll[c].cursor)'
    BY <1>1, <1>8, <1>9, <2>1
  <2>3. ASSUME NEW k \in Key, table'[k] # Absent, Unapplied(coll[c].cursor, k)' = {}
        PROVE  index[c][k] = table'[k]
    BY <1>1, <1>10, <2>1, <2>3 DEF IInv, FilledInv
  <2> QED BY <2>2, <2>3
<1>13. FillingInv(c, f)'
  <2> DEFINE m == fiber[c][f].cursor
             todo == fiber[c][f].todo
             pc == fiber[c][f].pc
  <2> SUFFICES ASSUME pc \in {"open", "snapshot"}, "delete" \notin past[c]
               PROVE  /\ NothingBehind(m)' /\ TailCurrent(m)'
                      /\ pc = "snapshot" =>
                         \A k \in Key : Unapplied(m, k)' = {} =>
                           /\ \A v \in Val : <<k, v>> \in todo => v = table'[k]
                           /\ table'[k] # Absent /\ <<k, table'[k]>> \notin todo
                                => index[c][k] = table'[k]
    BY <1>1 DEF FillingInv
  <2>1. trigger /\ m \in Nat /\ NothingBehind(m) /\ TailCurrent(m)
    BY TriggerInstalled, Plain DEF IInv, FillingInv
  <2>2. NothingBehind(m)' /\ TailCurrent(m)'
    BY <1>1, <1>8, <1>9, <2>1
  <2>3. ASSUME pc = "snapshot", NEW k \in Key, Unapplied(m, k)' = {}
        PROVE  /\ \A v \in Val : <<k, v>> \in todo => v = table'[k]
               /\ table'[k] # Absent /\ <<k, table'[k]>> \notin todo => index[c][k] = table'[k]
    <3>1. table'[k] = table[k] /\ Unapplied(m, k) = {}
      BY <1>1, <1>10, <2>1, <2>3
    <3> QED BY <2>3, <3>1 DEF IInv, FillingInv
  <2> QED BY <2>2, <2>3
<1>14. PollingInv(c, f)'
  <2> SUFFICES ASSUME "delete" \notin past[c], fiber[c][f].pc \in PollStep
               PROVE  PollingInv(c, f)'
    BY <1>1 DEF PollingInv, PollStep
  <2>1. trigger /\ outbox' = outbox \cup {e}
    BY <1>2, TriggerInstalled
  <2>2. ASSUME fiber[c][f].pc \in {"upsert", "delete", "gc"}, NEW b \in fiber[c][f].batch
        PROVE  /\ b \in outbox' /\ b.id > coll[c].cursor
               /\ \A d \in outbox' : coll[c].cursor < d.id /\ d.id <= b.id => d \in fiber[c][f].batch
    <3>1. /\ b \in outbox /\ b.id > coll[c].cursor
          /\ \A d \in outbox : coll[c].cursor < d.id /\ d.id <= b.id => d \in fiber[c][f].batch
      BY <2>2 DEF IInv, PollingInv
    <3>2. ~(e.id <= b.id)
      BY <1>3, <1>4, <2>1, <3>1, Plain
    <3> QED BY <2>1, <3>1, <3>2
  <2>3. ASSUME fiber[c][f].pc = "save", NEW b \in fiber[c][f].batch
        PROVE  NothingBehind(b.id)' /\ coll[c].cursor < b.id /\ \A d \in outbox' : b.id < d.id
    <3>1. NothingBehind(b.id) /\ coll[c].cursor < b.id /\ \A d \in outbox : b.id < d.id
      BY <2>3 DEF IInv, PollingInv
    <3>2. NothingBehind(b.id)' /\ b.id < e.id
      BY <1>8, <2>1, <3>1, Plain
    <3> QED BY <2>1, <3>1, <3>2
  <2> QED BY <1>1, <2>2, <2>3 DEF IInv, PollingInv
<1> QED BY <1>7, <1>11, <1>12, <1>13, <1>14 DEF IInv

-----------------------------------------------------------------------------
(* Steps that move the row or the activity, not the index                  *)

LEMMA RowFrame ==
  ASSUME NEW c \in Coll, NEW f \in Fiber, IInv(c, f), UNCHANGED <<sourceVars, index, past>>
  PROVE  /\ coll'[c].cursor = coll[c].cursor /\ coll'[c].synced = coll[c].synced
              => FilledInv(c)'
         /\ (/\ fiber'[c][f].pc = fiber[c][f].pc
             /\ fiber'[c][f].cursor = fiber[c][f].cursor
             /\ fiber'[c][f].todo = fiber[c][f].todo) => FillingInv(c, f)'
         /\ (/\ coll'[c].cursor = coll[c].cursor
             /\ fiber'[c][f].pc = fiber[c][f].pc
             /\ fiber'[c][f].cursor = fiber[c][f].cursor
             /\ fiber'[c][f].batch = fiber[c][f].batch) => PollingInv(c, f)'
<1>1. coll'[c].cursor = coll[c].cursor /\ coll'[c].synced = coll[c].synced => FilledInv(c)'
  BY DEF IInv, sourceVars, FilledInv, NothingBehind, TailCurrent, Unapplied, LastOfKey
<1>2. (/\ fiber'[c][f].pc = fiber[c][f].pc
       /\ fiber'[c][f].cursor = fiber[c][f].cursor
       /\ fiber'[c][f].todo = fiber[c][f].todo) => FillingInv(c, f)'
  <2> SUFFICES ASSUME fiber'[c][f].pc = fiber[c][f].pc,
                      fiber'[c][f].cursor = fiber[c][f].cursor,
                      fiber'[c][f].todo = fiber[c][f].todo,
                      "delete" \notin past'[c]
               PROVE  FillingInv(c, f)'
    BY DEF FillingInv
  <2>1. "delete" \notin past[c] /\ FillingInv(c, f) /\ index' = index /\ table' = table
        /\ outbox' = outbox /\ inflight' = inflight /\ seq' = seq
    BY DEF IInv, sourceVars
  <2>2. fiber'[c][f].pc \in {"open", "snapshot"} =>
          NothingBehind(fiber[c][f].cursor)' /\ TailCurrent(fiber[c][f].cursor)'
    BY <2>1 DEF FillingInv, NothingBehind, TailCurrent, LastOfKey
  <2>3. ASSUME fiber'[c][f].pc = "snapshot", NEW k \in Key,
               Unapplied(fiber[c][f].cursor, k)' = {}
        PROVE  /\ \A v \in Val : <<k, v>> \in fiber'[c][f].todo => v = table'[k]
               /\ table'[k] # Absent /\ <<k, table'[k]>> \notin fiber'[c][f].todo
                    => index'[c][k] = table'[k]
    <3>1. Unapplied(fiber[c][f].cursor, k) = {}
      BY <2>1, <2>3 DEF Unapplied
    <3> QED BY <2>1, <2>3, <3>1 DEF FillingInv
  <2> QED BY <2>2, <2>3 DEF FillingInv
<1>3. (/\ coll'[c].cursor = coll[c].cursor
       /\ fiber'[c][f].pc = fiber[c][f].pc
       /\ fiber'[c][f].cursor = fiber[c][f].cursor
       /\ fiber'[c][f].batch = fiber[c][f].batch) => PollingInv(c, f)'
  <2> SUFFICES ASSUME coll'[c].cursor = coll[c].cursor,
                      fiber'[c][f].pc = fiber[c][f].pc,
                      fiber'[c][f].cursor = fiber[c][f].cursor,
                      fiber'[c][f].batch = fiber[c][f].batch,
                      "delete" \notin past'[c]
               PROVE  PollingInv(c, f)'
    BY DEF PollingInv
  <2>1. "delete" \notin past[c] /\ PollingInv(c, f) /\ index' = index /\ outbox' = outbox
        /\ inflight' = inflight /\ seq' = seq
    BY DEF IInv, sourceVars
  <2>2. \A b \in fiber[c][f].batch : NothingBehind(b.id) => NothingBehind(b.id)'
    BY <2>1 DEF NothingBehind
  <2>3. \A b : LastOfKey(b, fiber'[c][f].batch) <=> LastOfKey(b, fiber[c][f].batch)
    BY DEF LastOfKey
  <2> QED BY <2>1, <2>2, <2>3 DEF PollingInv
<1> QED BY <1>1, <1>2, <1>3

LEMMA Vacuous ==
  ASSUME NEW c \in Coll, NEW f \in Fiber
  PROVE  /\ ~coll'[c].synced => FilledInv(c)'
         /\ fiber'[c][f].pc \notin {"open", "snapshot"} => FillingInv(c, f)'
         /\ fiber'[c][f].pc \notin {"poll", "upsert", "delete", "gc", "save"}
              => PollingInv(c, f)'
         /\ "delete" \in past'[c]
              => RowInv(c, f)' /\ FilledInv(c)' /\ FillingInv(c, f)' /\ PollingInv(c, f)'
BY DEF RowInv, FilledInv, FillingInv, PollingInv

LEMMA AlterTriggerKeeps ==
  ASSUME NEW c \in Coll, NEW f \in Fiber, IInv(c, f), NEW b, AlterTrigger(b)
  PROVE  SourceInv'
BY DEF IInv, SourceInv, OutboxInv, InflightInv, AlterTrigger, LastOfKey

(* Activities that stop, or go on unaware, after removeCollection.         *)
LEMMA RemovedKeeps ==
  ASSUME WorkerType, NEW c \in Coll, NEW f \in Fiber, IInv(c, f), Removed(c)
  PROVE  /\ fiber'[c][f].pc # "timer"
         /\ fiber'[c][f].pc = "idle" \/
              /\ fiber'[c][f].pc = fiber[c][f].pc
              /\ fiber'[c][f].cursor = fiber[c][f].cursor
              /\ fiber'[c][f].batch = fiber[c][f].batch
              /\ fiber'[c][f].todo = fiber[c][f].todo
<1>1. fiber[c][f].pc = "timer" => poller[c] = f
  BY DEF IInv, ControlInv
<1> QED BY <1>1, RemovedValue

-----------------------------------------------------------------------------
(* Admin requests                                                          *)

LEMMA ProvisionKeeps ==
  ASSUME TypeOK, NEW c \in Coll, NEW f \in Fiber, Alone(c, f), IInv(c, f),
         CreateCollection(c) \/ ProvisionDrop(c) \/ ProvisionCreate(c) \/ ProvisionFails(c)
  PROVE  IInv(c, f)'
<1>1. StoreType /\ WorkerType /\ RequestType
  BY DEF TypeOK
<1>2. ControlInv(c, f) /\ RowInv(c, f) /\ UNCHANGED <<fiber, poller, past, index>>
  BY DEF IInv, CreateCollection, ProvisionDrop, ProvisionCreate, ProvisionFails
<1>3. CASE CreateCollection(c)
  <2>1. /\ requests[c] = {} /\ fiber[c][f].pc \notin InitialStep
        /\ requests'[c] = {"provisionDrop"}
        /\ coll[c].row = "none"
        /\ coll'[c].row = "live" /\ coll'[c].synced = coll[c].synced
        /\ coll'[c].cursor = coll[c].cursor
    <3>1. requests[c] = {} /\ fiber[c][f].pc \notin InitialStep
      BY <1>3, NoOtherRequest DEF CreateCollection
    <3>2. requests'[c] = (requests[c] \ {}) \cup {"provisionDrop"}
      BY <1>1, <1>3, BecomeValue DEF CreateCollection
    <3>3. coll[c].row = "none" /\ coll' = [coll EXCEPT ![c].row = "live"]
      BY <1>3 DEF CreateCollection
    <3> QED BY <1>1, <3>1, <3>2, <3>3, RowFieldValue
  <2>2. ControlInv(c, f)'
    BY <1>2, <2>1 DEF ControlInv
  <2>3. RowInv(c, f)'
    BY <1>2, <1>3, <2>1 DEF RowInv, CreateCollection, sourceVars, InitialStep
  <2> QED BY <1>2, <1>3, <2>1, <2>2, <2>3, Frame, RowFrame DEF IInv, CreateCollection
<1>4. CASE ProvisionDrop(c) \/ ProvisionCreate(c)
  <2>1. PICK r \in {"provisionDrop", "provisionCreate"},
             s \in {"provisionCreate", "addInitial"} :
          r \in requests[c] /\ Become(c, {r}, {s})
    BY <1>4 DEF ProvisionDrop, ProvisionCreate
  <2>2. requests'[c] = {s} /\ coll' = coll /\ fiber[c][f].pc \notin InitialStep
    <3>1. requests'[c] = (requests[c] \ {r}) \cup {s}
      BY <1>1, <2>1, BecomeValue
    <3> QED BY <1>2, <1>4, <2>1, <3>1 DEF ControlInv, ProvisionDrop, ProvisionCreate
  <2>3. ControlInv(c, f)'
    BY <1>2, <2>2 DEF ControlInv
  <2>4. SourceInv'
    BY <1>4, AlterTriggerKeeps DEF ProvisionDrop, ProvisionCreate
  <2>5. CASE "delete" \in past[c]
    BY <1>2, <2>3, <2>4, <2>5, Vacuous DEF IInv
  <2>6. CASE "delete" \notin past[c]
    <3>1. ~coll[c].synced /\ fiber[c][f].pc = "idle"
      BY <1>2, <2>1, <2>6 DEF RowInv
    <3>2. RowInv(c, f)'
      <4>1. coll'[c].row = "live" /\ (coll'[c].cursor # 0 => coll'[c].synced)
        BY <1>2, <2>1, <2>2, <2>6 DEF RowInv
      <4>2. fiber'[c][f].pc \notin InitialStep \cup PollStep \cup {"timer"}
        BY <1>2, <3>1 DEF InitialStep, PollStep
      <4> QED BY <1>2, <2>2, <3>1, <4>1, <4>2 DEF RowInv, InitialStep
    <3> QED BY <1>2, <2>2, <2>3, <2>4, <3>1, <3>2, Vacuous DEF IInv
  <2> QED BY <2>5, <2>6
<1>5. CASE ProvisionFails(c)
  <2>1. PICK r \in {"provisionDrop", "provisionCreate"} : r \in requests[c] /\ Become(c, {r}, {})
    BY <1>5 DEF ProvisionFails
  <2>2. /\ requests'[c] = {} /\ coll'[c].row = "deleted"
        /\ coll'[c].synced = coll[c].synced /\ coll'[c].cursor = coll[c].cursor
    <3>1. requests'[c] = (requests[c] \ {r}) \cup {}
      BY <1>1, <2>1, BecomeValue
    <3>2. coll' = [coll EXCEPT ![c].row = "deleted"]
      BY <1>5 DEF ProvisionFails
    <3> QED BY <1>1, <1>2, <2>1, <3>1, <3>2, RowFieldValue DEF ControlInv
  <2>3. ControlInv(c, f)'
    BY <1>2, <2>2 DEF ControlInv
  <2>4. RowInv(c, f)'
    BY <1>2, <1>5, <2>1, <2>2 DEF RowInv, ProvisionFails, sourceVars
  <2> QED BY <1>2, <1>5, <2>2, <2>3, <2>4, Frame, RowFrame DEF IInv, ProvisionFails
<1> QED BY <1>3, <1>4, <1>5

LEMMA ToggleKeeps ==
  ASSUME TypeOK, NEW c \in Coll, NEW f \in Fiber, Alone(c, f), IInv(c, f),
         Disable(c) \/ Remove(c) \/ Enable(c) \/ AddIgnored(c)
  PROVE  IInv(c, f)'
<1>1. StoreType /\ WorkerType /\ RequestType
  BY DEF TypeOK
<1>2. ControlInv(c, f) /\ RowInv(c, f) /\ UNCHANGED <<sourceVars, past, index>>
  BY DEF IInv, Disable, Remove, Enable, AddIgnored
<1>3. CASE Disable(c)
  <2>1. /\ requests[c] = {} /\ fiber[c][f].pc \notin InitialStep
        /\ requests'[c] = {"remove"}
        /\ coll'[c].row = coll[c].row /\ coll[c].row = "live"
        /\ coll'[c].synced = coll[c].synced /\ coll'[c].cursor = coll[c].cursor
        /\ UNCHANGED <<fiber, poller>>
    BY <1>1, <1>3, NoOtherRequest, BecomeValue, RowFieldValue DEF Disable, Live
  <2>2. ControlInv(c, f)'
    BY <1>2, <2>1 DEF ControlInv
  <2>3. RowInv(c, f)'
    BY <1>2, <2>1 DEF RowInv, sourceVars
  <2> QED BY <1>2, <2>1, <2>2, <2>3, Frame, RowFrame DEF IInv
<1>4. CASE Remove(c)
  <2>1. requests'[c] = {} /\ coll' = coll
    BY <1>1, <1>2, <1>4, BecomeValue DEF Remove, ControlInv
  <2>2. /\ fiber'[c][f].pc # "timer"
        /\ fiber'[c][f].pc = "idle" \/
             /\ fiber'[c][f].pc = fiber[c][f].pc
             /\ fiber'[c][f].cursor = fiber[c][f].cursor
             /\ fiber'[c][f].batch = fiber[c][f].batch
             /\ fiber'[c][f].todo = fiber[c][f].todo
    BY <1>1, <1>4, RemovedKeeps DEF Remove
  <2>3. ControlInv(c, f)'
    BY <2>1, <2>2 DEF ControlInv
  <2>4. RowInv(c, f)'
    BY <1>2, <2>1, <2>2 DEF RowInv, sourceVars, InitialStep, PollStep
  <2>5. FillingInv(c, f)' /\ PollingInv(c, f)'
    BY <1>2, <2>1, <2>2, RowFrame, Vacuous
  <2> QED BY <1>2, <2>1, <2>3, <2>4, <2>5, Frame DEF IInv
<1>5. CASE Enable(c)
  <2>1. /\ requests[c] = {} /\ fiber[c][f].pc \notin InitialStep
        /\ requests'[c] = {AddStep(coll[c])}
        /\ coll'[c].row = coll[c].row /\ coll[c].row = "live"
        /\ coll'[c].synced = coll[c].synced /\ coll'[c].cursor = coll[c].cursor
        /\ UNCHANGED <<fiber, poller>>
    BY <1>1, <1>5, NoOtherRequest, BecomeValue, RowFieldValue DEF Enable, Live
  <2>2. ControlInv(c, f)'
    BY <1>2, <2>1 DEF ControlInv
  <2>3. RowInv(c, f)'
    BY <1>2, <2>1 DEF RowInv, sourceVars, AddStep
  <2> QED BY <1>2, <2>1, <2>2, <2>3, Frame, RowFrame DEF IInv
<1>6. CASE AddIgnored(c)
  <2>1. requests'[c] = {} /\ UNCHANGED <<coll, fiber, poller>>
    BY <1>1, <1>2, <1>6, BecomeValue DEF AddIgnored, ControlInv
  <2>2. ControlInv(c, f)'
    BY <1>2, <2>1 DEF ControlInv
  <2>3. RowInv(c, f)'
    BY <1>2, <2>1 DEF RowInv, sourceVars
  <2> QED BY <1>2, <2>1, <2>2, <2>3, Frame DEF IInv
<1> QED BY <1>3, <1>4, <1>5, <1>6

LEMMA ResyncKeeps ==
  ASSUME TypeOK, NEW c \in Coll, NEW f \in Fiber, Alone(c, f), IInv(c, f),
         Resync(c) \/ Reset(c)
  PROVE  IInv(c, f)'
<1>1. StoreType /\ WorkerType /\ RequestType /\ HistoryType
  BY DEF TypeOK
<1>2. ControlInv(c, f) /\ RowInv(c, f) /\ UNCHANGED <<sourceVars, index>>
  BY DEF IInv, Resync, Reset
<1>3. SourceInv'
  BY <1>2, Frame
<1>4. CASE Resync(c)
  <2>1. requests[c] = {} /\ fiber[c][f].pc \notin Busy
    BY <1>4, NoOtherRequest DEF Resync, Alone, BusyFibers
  <2>2. requests'[c] = {"reset"}
    <3>1. requests'[c] = (requests[c] \ {}) \cup {"reset"}
      BY <1>1, <1>4, BecomeValue DEF Resync
    <3> QED BY <2>1, <3>1
  <2>3. coll' = coll /\ coll[c].row = "live" /\ past'[c] = past[c] \cup {"refill"}
    BY <1>1, <1>4 DEF Resync, Live, HistoryType
  <2>4. fiber'[c][f].pc = "idle"
    <3>1. fiber[c][f].pc \in {"idle", "timer"}
      BY <1>1, <2>1, FiberStateType
    <3>2. fiber'[c][f].pc # "timer"
          /\ (fiber'[c][f].pc = "idle" \/ fiber'[c][f].pc = fiber[c][f].pc)
      BY <1>1, <1>4, RemovedKeeps DEF Resync
    <3> QED BY <3>1, <3>2
  <2>5. ControlInv(c, f)'
    BY <2>2, <2>4 DEF ControlInv, InitialStep
  <2>6. RowInv(c, f)'
    BY <1>2, <2>2, <2>3, <2>4 DEF RowInv, sourceVars, InitialStep, PollStep
  <2>7. FilledInv(c)'
    BY <1>2, <2>3
       DEF IInv, sourceVars, FilledInv, NothingBehind, TailCurrent, Unapplied, LastOfKey
  <2> QED BY <1>3, <2>4, <2>5, <2>6, <2>7, Vacuous DEF IInv
<1>5. CASE Reset(c)
  <2>1. UNCHANGED <<fiber, poller, past>> /\ "reset" \in requests[c]
        /\ fiber[c][f].pc \notin InitialStep
    BY <1>2, <1>5 DEF Reset, ControlInv
  <2>2. requests'[c] = {"addInitial"} \/ (requests'[c] = {} /\ ~Live(c))
    <3>1. \/ Become(c, {"reset"}, {"addInitial"})
          \/ ~Live(c) /\ Become(c, {"reset"}, {})
      BY <1>5 DEF Reset
    <3>2. CASE Become(c, {"reset"}, {"addInitial"})
      <4>1. requests'[c] = (requests[c] \ {"reset"}) \cup {"addInitial"}
        BY <1>1, <3>2, BecomeValue
      <4> QED BY <1>2, <2>1, <4>1 DEF ControlInv
    <3>3. CASE ~Live(c) /\ Become(c, {"reset"}, {})
      <4>1. requests'[c] = (requests[c] \ {"reset"}) \cup {}
        BY <1>1, <3>3, BecomeValue
      <4> QED BY <1>2, <2>1, <3>3, <4>1 DEF ControlInv
    <3> QED BY <3>1, <3>2, <3>3
  <2>3. ControlInv(c, f)'
    BY <1>2, <2>1, <2>2 DEF ControlInv
  <2>4. CASE "delete" \in past[c]
    BY <1>3, <2>1, <2>3, <2>4, Vacuous DEF IInv
  <2>5. CASE "delete" \notin past[c]
    <3>1. Live(c) /\ coll[c].row = "live" /\ fiber[c][f].pc = "idle" /\ requests'[c] = {"addInitial"}
      BY <1>2, <2>1, <2>2, <2>5 DEF RowInv, Live
    <3>2. SetRow(c, [coll[c] EXCEPT !.status = "idle", !.cursor = 0, !.synced = FALSE])
      BY <1>5 DEF Reset
    <3>3. coll'[c] = [coll[c] EXCEPT !.status = "idle", !.cursor = 0, !.synced = FALSE]
      BY <1>1, <3>1, <3>2, SetRowValue
    <3>4. coll'[c].row = "live" /\ coll'[c].cursor = 0 /\ coll'[c].synced = FALSE
      BY <1>1, <3>1, <3>3, CollType DEF CollRow
    <3>5. RowInv(c, f)'
      BY <2>1, <3>1, <3>4 DEF RowInv, InitialStep, PollStep
    <3> QED BY <1>3, <2>1, <2>3, <3>1, <3>4, <3>5, Vacuous DEF IInv
  <2> QED BY <2>4, <2>5
<1> QED BY <1>4, <1>5

(* Once a deletion has begun the invariant only keeps requests apart.      *)
LEMMA DeletionKeeps ==
  ASSUME TypeOK, NEW c \in Coll, NEW f \in Fiber, Alone(c, f), IInv(c, f),
         \/ DeleteCollection(c) \/ DeleteProject(c)
         \/ Untrigger(c) \/ Unindex(c) \/ Erase(c)
  PROVE  IInv(c, f)'
<1>1. WorkerType /\ RequestType /\ HistoryType
  BY DEF TypeOK
<1>2. ControlInv(c, f) /\ RowInv(c, f)
  BY DEF IInv
<1>3. CASE DeleteCollection(c) \/ DeleteProject(c)
  <2>1. requests[c] = {} /\ fiber[c][f].pc \notin InitialStep
    BY <1>3, NoOtherRequest DEF DeleteCollection, DeleteProject
  <2>2. PICK s \in {"untrigger", "erase"} : Become(c, {}, {s})
    BY <1>3 DEF DeleteCollection, DeleteProject
  <2>3. requests'[c] = {s}
    <3>1. requests'[c] = (requests[c] \ {}) \cup {s}
      BY <1>1, <2>2, BecomeValue
    <3> QED BY <2>1, <3>1
  <2>4. "delete" \in past'[c] /\ UNCHANGED sourceVars
    BY <1>1, <1>3 DEF DeleteCollection, DeleteProject, HistoryType
  <2>5. ControlInv(c, f)'
    <3>1. CASE DeleteCollection(c)
      <4>1. fiber'[c][f].pc # "timer" /\ fiber'[c][f].pc \notin InitialStep
        BY <1>1, <2>1, <3>1, RemovedKeeps DEF DeleteCollection, InitialStep
      <4> QED BY <2>3, <4>1 DEF ControlInv
    <3>2. CASE DeleteProject(c)
      BY <1>2, <2>1, <2>3, <3>2 DEF ControlInv, DeleteProject
    <3> QED BY <1>3, <3>1, <3>2
  <2> QED BY <2>4, <2>5, Frame, Vacuous DEF IInv
<1>4. CASE Untrigger(c) \/ Unindex(c) \/ Erase(c)
  <2>1. "delete" \in past[c] /\ fiber[c][f].pc \notin InitialStep
        /\ UNCHANGED <<fiber, poller, past>>
    BY <1>2, <1>4 DEF Untrigger, Unindex, Erase, RowInv, ControlInv
  <2>2. PICK r, s \in {"untrigger", "unindex", "erase"} :
          r \in requests[c] /\ (Become(c, {r}, {s}) \/ Become(c, {r}, {}))
    BY <1>4 DEF Untrigger, Unindex, Erase
  <2>3. \A p, q \in requests'[c] : p = q
    <3>1. requests'[c] = (requests[c] \ {r}) \cup {s} \/ requests'[c] = (requests[c] \ {r}) \cup {}
      BY <1>1, <2>2, BecomeValue
    <3> QED BY <1>2, <2>2, <3>1 DEF ControlInv
  <2>4. ControlInv(c, f)'
    BY <1>2, <2>1, <2>3 DEF ControlInv
  <2>5. SourceInv'
    BY <1>4, Frame, AlterTriggerKeeps DEF Untrigger, Unindex, Erase
  <2> QED BY <2>1, <2>4, <2>5, Vacuous DEF IInv
<1> QED BY <1>3, <1>4

-----------------------------------------------------------------------------
(* Filling the index                                                       *)

(* A busy activity and the requests pending at that time: before deletion. *)
LEMMA BusyRow ==
  ASSUME TypeOK, NEW c \in Coll, NEW f \in Fiber, IInv(c, f)
  PROVE  /\ fiber[c][f].pc \in InitialStep => requests[c] = {}
         /\ "delete" \notin past[c] /\ fiber[c][f].pc \in Busy =>
              /\ coll[c].row = "live"
              /\ requests[c] \cap {"provisionDrop", "provisionCreate", "reset"} = {}
              /\ fiber[c][f].pc \in InitialStep => ~coll[c].synced
              /\ fiber[c][f].pc \in PollStep => coll[c].synced
BY DEF IInv, ControlInv, RowInv, Busy, InitialStep, PollStep

LEMMA FillKeeps ==
  ASSUME TypeOK, NEW c \in Coll, NEW f \in Fiber, Alone(c, f), IInv(c, f),
         \/ AddInitial(c, f) \/ SyncBegin(c, f) \/ SyncDrop(c, f) \/ SyncCreate(c, f)
         \/ SyncMark(c, f) \/ SyncOpen(c, f)
  PROVE  IInv(c, f)'
<1>1. StoreType /\ WorkerType /\ RequestType /\ HistoryType
  BY DEF TypeOK
<1>2. ControlInv(c, f) /\ RowInv(c, f) /\ poller' = poller
  BY DEF IInv, AddInitial, SyncBegin, SyncDrop, SyncCreate, SyncMark, SyncOpen
<1>3. CASE AddInitial(c, f)
  <2>1. requests'[c] = {} /\ "addInitial" \in requests[c]
    <3>1. requests'[c] = (requests[c] \ {"addInitial"}) \cup {}
      BY <1>1, <1>3, BecomeValue DEF AddInitial
    <3> QED BY <1>2, <1>3, <3>1 DEF ControlInv, AddInitial
  <2>2. fiber'[c][f].pc = "sync"
    BY <1>1, <1>3, GotoValue DEF AddInitial
  <2>3. UNCHANGED <<sourceVars, coll, index, past>>
    BY <1>3 DEF AddInitial
  <2>4. ControlInv(c, f)'
    BY <2>1, <2>2 DEF ControlInv
  <2>5. RowInv(c, f)'
    BY <1>2, <2>1, <2>2, <2>3 DEF RowInv, sourceVars, InitialStep, PollStep
  <2> QED BY <2>2, <2>3, <2>4, <2>5, Frame, Vacuous DEF IInv
<1>4. CASE SyncBegin(c, f)
  <2>1. fiber[c][f].pc = "sync" /\ requests' = requests /\ UNCHANGED <<sourceVars, index, past>>
    BY <1>4 DEF SyncBegin
  <2>2. fiber'[c][f].pc = "drop" /\ requests[c] = {}
    BY <1>1, <1>4, <2>1, GotoValue, BusyRow DEF SyncBegin, InitialStep
  <2>3. coll'[c].row = coll[c].row /\ coll'[c].synced = coll[c].synced
        /\ coll'[c].cursor = coll[c].cursor
    <3>1. SetRow(c, [coll[c] EXCEPT !.status = "syncing"])
      BY <1>4 DEF SyncBegin
    <3>2. coll'[c] = coll[c] \/ coll'[c] = [coll[c] EXCEPT !.status = "syncing"]
      BY <1>1, <3>1, SetRowValue
    <3> QED BY <1>1, <3>2, CollType DEF CollRow
  <2>4. ControlInv(c, f)'
    BY <2>1, <2>2 DEF ControlInv
  <2>5. RowInv(c, f)'
    BY <1>2, <2>1, <2>2, <2>3 DEF RowInv, sourceVars, InitialStep, PollStep
  <2> QED BY <2>1, <2>2, <2>3, <2>4, <2>5, Frame, RowFrame, Vacuous DEF IInv
<1>5. CASE SyncDrop(c, f) \/ SyncCreate(c, f)
  <2>1. /\ fiber[c][f].pc \in {"drop", "create"}
        /\ \/ fiber[c][f].pc = "drop" /\ Goto(c, f, "create") /\ AlterTrigger(FALSE)
           \/ fiber[c][f].pc = "create" /\ Goto(c, f, "mark") /\ AlterTrigger(TRUE)
        /\ UNCHANGED <<coll, index, requests, past>>
    BY <1>5 DEF SyncDrop, SyncCreate
  <2>2. \/ fiber'[c][f].pc = "create"
        \/ fiber'[c][f].pc = "mark" /\ trigger'
    BY <1>1, <2>1, GotoValue DEF AlterTrigger
  <2>3. requests[c] = {} /\ ("delete" \notin past[c] => ~coll[c].synced)
    BY <2>1, BusyRow DEF InitialStep, Busy
  <2>4. ControlInv(c, f)'
    BY <2>1, <2>2, <2>3 DEF ControlInv
  <2>5. RowInv(c, f)'
    BY <1>2, <2>1, <2>2, <2>3 DEF RowInv, InitialStep, PollStep
  <2>6. SourceInv'
    BY <2>1, AlterTriggerKeeps
  <2>7. FilledInv(c)'
    BY <2>1, <2>3, Vacuous DEF FilledInv
  <2> QED BY <2>2, <2>4, <2>5, <2>6, <2>7, Vacuous DEF IInv
<1>6. CASE SyncMark(c, f)
  <2>1. fiber[c][f].pc = "mark" /\ UNCHANGED <<sourceVars, coll, index, requests>>
    BY <1>6 DEF SyncMark
  <2>2. PICK m \in 0 .. MaxId :
          /\ IF outbox = {} THEN m = 0 ELSE \E e \in outbox : IsLast(e, outbox) /\ m = e.id
          /\ Step(c, f, [fiber[c][f] EXCEPT !.pc = "open", !.cursor = m])
    BY <1>6 DEF SyncMark
  <2>3. fiber'[c][f].pc = "open" /\ fiber'[c][f].cursor = m
    <3>1. fiber'[c][f] = [fiber[c][f] EXCEPT !.pc = "open", !.cursor = m]
      BY <1>1, <2>2, StepValue
    <3>2. fiber[c][f] \in FiberState
      BY <1>1 DEF WorkerType
    <3> QED BY <3>1, <3>2 DEF FiberState
  <2>4. requests[c] = {} /\ ("delete" \notin past[c] => ~coll[c].synced)
    BY <2>1, BusyRow DEF InitialStep, Busy
  <2>5. ControlInv(c, f)'
    BY <2>1, <2>3, <2>4 DEF ControlInv
  <2>6. "delete" \in past[c] => "delete" \in past'[c]
    BY <1>1, <1>6, Zenon DEF SyncMark, HistoryType
  <2>7. CASE "delete" \in past[c]
    BY <2>1, <2>5, <2>6, <2>7, Frame, Vacuous DEF IInv
  <2>8. CASE "delete" \notin past[c]
    <3>1. trigger /\ ~coll[c].synced
      BY <1>2, <2>1, <2>4, <2>8 DEF RowInv
    <3>2. RowInv(c, f)'
      BY <1>2, <2>1, <2>3, <2>4, <2>8, <3>1 DEF RowInv, sourceVars, InitialStep, PollStep
    <3>3. \A e \in outbox : e.id <= m
      BY <2>2 DEF IsLast
    <3>4. m <= seq /\ \A e \in inflight : m < e.id
      <4>1. CASE outbox = {}
        BY <2>2, <3>1, <4>1, Plain DEF IInv, SourceInv, InflightInv
      <4>2. CASE outbox # {}
        BY <2>2, <3>1, <4>2, Plain DEF IInv, SourceInv, InflightInv, OutboxInv
      <4> QED BY <4>1, <4>2
    <3>5. FillingInv(c, f)'
      <4>1. NothingBehind(m)' /\ TailCurrent(m)'
        BY <2>1, <3>3, <3>4, Plain DEF NothingBehind, TailCurrent, sourceVars
      <4> QED BY <2>3, <4>1 DEF FillingInv, NothingBehind, TailCurrent
    <3> QED BY <2>1, <2>3, <2>5, <3>1, <3>2, <3>5, Frame, Vacuous DEF IInv
  <2> QED BY <2>7, <2>8
<1>7. CASE SyncOpen(c, f)
  <2> DEFINE rows == {r \in Key \X Val : table[r[1]] = r[2]}
  <2>1. /\ fiber[c][f].pc = "open"
        /\ UNCHANGED <<sourceVars, coll, index, requests, past>>
        /\ Step(c, f, [fiber[c][f] EXCEPT !.pc = "snapshot", !.todo = rows])
    BY <1>7 DEF SyncOpen
  <2>2. /\ \A k \in Key, v \in Val : <<k, v>> \in rows => v = table[k]
        /\ \A k \in Key : table[k] # Absent => <<k, table[k]>> \in rows
    BY Plain DEF Cell
  <2> HIDE DEF rows
  <2>3. /\ fiber'[c][f].pc = "snapshot" /\ fiber'[c][f].todo = rows
        /\ fiber'[c][f].cursor = fiber[c][f].cursor
    <3>1. fiber'[c][f] = [fiber[c][f] EXCEPT !.pc = "snapshot", !.todo = rows]
      BY <1>1, <2>1, StepValue
    <3>2. fiber[c][f] \in FiberState
      BY <1>1 DEF WorkerType
    <3> QED BY <3>1, <3>2 DEF FiberState
  <2>4. requests[c] = {} /\ ("delete" \notin past[c] => ~coll[c].synced)
    BY <2>1, BusyRow DEF InitialStep, Busy
  <2>5. ControlInv(c, f)'
    BY <2>1, <2>3, <2>4 DEF ControlInv
  <2>6. RowInv(c, f)'
    BY <1>2, <2>1, <2>3, <2>4 DEF RowInv, sourceVars, InitialStep, PollStep
  <2>7. FillingInv(c, f)'
    <3> SUFFICES ASSUME "delete" \notin past[c] PROVE FillingInv(c, f)'
      BY <2>1 DEF FillingInv
    <3>1. NothingBehind(fiber[c][f].cursor) /\ TailCurrent(fiber[c][f].cursor)
      BY <2>1 DEF IInv, FillingInv
    <3>2. NothingBehind(fiber[c][f].cursor)' /\ TailCurrent(fiber[c][f].cursor)'
      BY <2>1, <2>3, <3>1 DEF NothingBehind, TailCurrent, sourceVars, LastOfKey
    <3>3. \A k \in Key : /\ \A v \in Val : <<k, v>> \in fiber'[c][f].todo => v = table'[k]
                         /\ table'[k] # Absent => <<k, table'[k]>> \in fiber'[c][f].todo
      BY <2>1, <2>2, <2>3 DEF sourceVars
    <3> QED BY <3>2, <3>3 DEF FillingInv
  <2> QED BY <2>1, <2>3, <2>5, <2>6, <2>7, Frame, Vacuous DEF IInv
<1> QED BY <1>3, <1>4, <1>5, <1>6, <1>7

(* A batch of the snapshot: rows sent carry the current contents unless a  *)
(* change of theirs still waits in the outbox.                             *)
LEMMA SyncBatchKeeps ==
  ASSUME TypeOK, NEW c \in Coll, NEW f \in Fiber, Alone(c, f), IInv(c, f), SyncBatch(c, f)
  PROVE  IInv(c, f)'
<1>1. StoreType /\ WorkerType
  BY DEF TypeOK
<1>2. /\ fiber[c][f].pc = "snapshot" /\ ControlInv(c, f) /\ RowInv(c, f)
      /\ UNCHANGED <<sourceVars, coll, poller, requests, past>>
  BY DEF IInv, SyncBatch
<1>3. PICK D \in SUBSET fiber[c][f].todo :
        /\ index' = [index EXCEPT ![c] = WithDocs(@, D)]
        /\ Step(c, f, [fiber[c][f] EXCEPT !.todo = @ \ D])
  BY DEF SyncBatch
<1>4. /\ fiber'[c][f].pc = "snapshot" /\ fiber'[c][f].cursor = fiber[c][f].cursor
      /\ fiber'[c][f].todo = fiber[c][f].todo \ D
  <2>1. fiber'[c][f] = [fiber[c][f] EXCEPT !.todo = @ \ D]
    BY <1>1, <1>3, StepValue
  <2>2. fiber[c][f] \in FiberState
    BY <1>1 DEF WorkerType
  <2> QED BY <1>2, <2>1, <2>2 DEF FiberState
<1>5. requests[c] = {} /\ ("delete" \notin past[c] => ~coll[c].synced)
  BY <1>2, BusyRow DEF InitialStep, Busy
<1>6. ControlInv(c, f)'
  BY <1>2, <1>4, <1>5 DEF ControlInv
<1>7. RowInv(c, f)'
  BY <1>2, <1>4, <1>5 DEF RowInv, sourceVars
<1>8. FilledInv(c)'
  BY <1>2, <1>5 DEF FilledInv
<1>9. FillingInv(c, f)'
  <2> DEFINE m == fiber[c][f].cursor
             todo == fiber[c][f].todo
  <2> SUFFICES ASSUME "delete" \notin past[c] PROVE FillingInv(c, f)'
    BY <1>2 DEF FillingInv
  <2>1. NothingBehind(m)' /\ TailCurrent(m)'
    BY <1>2, <1>4 DEF IInv, FillingInv, NothingBehind, TailCurrent, sourceVars, LastOfKey
  <2>2. ASSUME NEW k \in Key, Unapplied(m, k)' = {}
        PROVE  /\ \A v \in Val : <<k, v>> \in todo \ D => v = table'[k]
               /\ table'[k] # Absent /\ <<k, table'[k]>> \notin todo \ D => index'[c][k] = table'[k]
    <3>1. table' = table /\ Unapplied(m, k) = {}
      BY <1>2, <1>4, <2>2 DEF sourceVars, Unapplied
    <3>2. /\ \A v \in Val : <<k, v>> \in todo => v = table[k]
          /\ table[k] # Absent /\ <<k, table[k]>> \notin todo => index[c][k] = table[k]
      BY <1>2, <3>1 DEF IInv, FillingInv
    <3>3. index'[c] = WithDocs(index[c], D)
      BY <1>1, <1>3 DEF StoreType
    <3>4. ASSUME table[k] # Absent, <<k, table[k]>> \notin todo \ D
          PROVE  index'[c][k] = table[k]
      <4>1. CASE \E v \in Val : <<k, v>> \in D
        <5>1. \A v \in Val : <<k, v>> \in D => v = table[k]
          BY <3>2
        <5>2. (CHOOSE v \in Val : <<k, v>> \in D) = table[k]
          BY <4>1, <5>1
        <5> QED BY <3>3, <4>1, <5>2 DEF WithDocs
      <4>2. CASE ~\E v \in Val : <<k, v>> \in D
        <5>1. table[k] \in Val
          BY <3>4, Plain DEF Cell
        <5>2. index'[c][k] = index[c][k]
          BY <3>3, <4>2 DEF WithDocs
        <5> QED BY <3>2, <3>4, <4>2, <5>1, <5>2
      <4> QED BY <4>1, <4>2
    <3> QED BY <3>1, <3>2, <3>4
  <2> QED BY <1>2, <1>4, <2>1, <2>2 DEF FillingInv, NothingBehind, TailCurrent, Unapplied
<1> QED BY <1>2, <1>4, <1>6, <1>7, <1>8, <1>9, Frame, Vacuous DEF IInv

(* The mark becomes the cursor: what was true of it stays true.            *)
LEMMA SyncFinishKeeps ==
  ASSUME TypeOK, NEW c \in Coll, NEW f \in Fiber, Alone(c, f), IInv(c, f), SyncFinish(c, f)
  PROVE  IInv(c, f)'
<1>1. StoreType /\ WorkerType
  BY DEF TypeOK
<1>2. /\ fiber[c][f].pc = "snapshot" /\ fiber[c][f].todo = {}
      /\ ControlInv(c, f) /\ RowInv(c, f)
      /\ UNCHANGED <<sourceVars, index, requests, past>>
  BY DEF IInv, SyncFinish
<1>3. fiber'[c][f].pc = "timer" /\ poller'[c] = f /\ requests[c] = {}
  BY <1>1, <1>2, StepValue, BusyRow
     DEF SyncFinish, ArmedFiber, IdleFiber, WorkerType, InitialStep
<1>4. ControlInv(c, f)'
  BY <1>2, <1>3 DEF ControlInv
<1>5. SourceInv'
  BY <1>2, Frame
<1>6. CASE "delete" \in past[c]
  BY <1>2, <1>4, <1>5, <1>6, Vacuous DEF IInv
<1>7. CASE "delete" \notin past[c]
  <2>1. coll[c].row = "live" /\ trigger
    BY <1>2, <1>7, BusyRow DEF RowInv, InitialStep, Busy
  <2>2. coll'[c].row = "live" /\ coll'[c].synced = TRUE /\ coll'[c].cursor = fiber[c][f].cursor
    <3>1. SetRow(c, [coll[c] EXCEPT !.status = "idle", !.synced = TRUE,
                                    !.cursor = fiber[c][f].cursor])
      BY DEF SyncFinish
    <3>2. coll'[c] = [coll[c] EXCEPT !.status = "idle", !.synced = TRUE,
                                     !.cursor = fiber[c][f].cursor]
      BY <1>1, <2>1, <3>1, SetRowValue DEF Live
    <3> QED BY <1>1, <2>1, <3>2, CollType DEF CollRow
  <2>3. RowInv(c, f)'
    BY <1>2, <1>3, <2>1, <2>2 DEF RowInv, sourceVars, InitialStep
  <2>4. FilledInv(c)'
    <3>1. /\ NothingBehind(fiber[c][f].cursor) /\ TailCurrent(fiber[c][f].cursor)
          /\ \A k \in Key : Unapplied(fiber[c][f].cursor, k) = {} /\ table[k] # Absent
                              => index[c][k] = table[k]
      BY <1>2, <1>7 DEF IInv, FillingInv
    <3> QED BY <1>2, <2>2, <3>1
            DEF FilledInv, NothingBehind, TailCurrent, Unapplied, LastOfKey, sourceVars
  <2> QED BY <1>3, <1>4, <1>5, <2>3, <2>4, Vacuous DEF IInv
<1> QED BY <1>6, <1>7

-----------------------------------------------------------------------------
(* Failures and restarts                                                   *)

LEMMA StatusValue ==
  ASSUME StoreType, NEW c \in Coll, NEW s, SetRow(c, [coll[c] EXCEPT !.status = s])
  PROVE  /\ coll'[c].row = coll[c].row /\ coll'[c].synced = coll[c].synced
         /\ coll'[c].cursor = coll[c].cursor
<1>1. coll'[c] = coll[c] \/ coll'[c] = [coll[c] EXCEPT !.status = s]
  BY SetRowValue
<1> QED BY <1>1, CollType DEF CollRow

LEMMA FaultKeeps ==
  ASSUME TypeOK, NEW c \in Coll, NEW f \in Fiber, Alone(c, f), IInv(c, f), Fault(c, f)
  PROVE  IInv(c, f)'
<1>1. StoreType /\ WorkerType
  BY DEF TypeOK
<1>2. /\ ControlInv(c, f) /\ RowInv(c, f) /\ fiber[c][f].pc \in Busy
      /\ UNCHANGED <<sourceVars, index, requests, past>>
  BY DEF IInv, Fault, SyncFails, PollFails, FiberDies, Busy, InitialStep, PollStep
<1>3. /\ coll'[c].row = coll[c].row /\ coll'[c].synced = coll[c].synced
      /\ coll'[c].cursor = coll[c].cursor
  BY <1>1, StatusValue DEF Fault, SyncFails, PollFails, FiberDies
<1>4. \/ fiber'[c][f].pc = "idle"
      \/ fiber'[c][f].pc = "timer" /\ poller'[c] = f /\ fiber[c][f].pc \in PollStep
  <2>1. CASE SyncFails(c, f) \/ FiberDies(c, f)
    <3>1. Step(c, f, IdleFiber)
      BY <2>1 DEF SyncFails, FiberDies
    <3>2. fiber'[c][f] = IdleFiber
      BY <1>1, <3>1, StepValue
    <3> QED BY <3>2 DEF IdleFiber
  <2>2. CASE PollFails(c, f)
    <3>1. Reschedule(c, f) /\ fiber[c][f].pc \in PollStep
      BY <2>2 DEF PollFails
    <3> QED BY <1>1, <3>1, RescheduleValue
  <2> QED BY <2>1, <2>2 DEF Fault
<1>5. ControlInv(c, f)'
  BY <1>2, <1>4 DEF ControlInv, InitialStep
<1>6. RowInv(c, f)'
  <2> SUFFICES ASSUME "delete" \notin past[c] PROVE RowInv(c, f)'
    BY <1>2 DEF RowInv
  <2>1. /\ coll[c].row = "live" /\ fiber[c][f].pc \in PollStep => coll[c].synced
        /\ requests[c] \cap {"provisionDrop", "provisionCreate", "reset"} = {}
    BY <1>2, BusyRow
  <2> QED BY <1>2, <1>3, <1>4, <2>1 DEF RowInv, sourceVars, InitialStep, PollStep
<1> QED BY <1>2, <1>3, <1>4, <1>5, <1>6, Frame, RowFrame, Vacuous DEF IInv

LEMMA RestartKeeps ==
  ASSUME TypeOK, NEW c \in Coll, NEW f \in Fiber, Alone(c, f), IInv(c, f), Restart
  PROVE  IInv(c, f)'
<1>1. /\ ControlInv(c, f) /\ RowInv(c, f)
      /\ UNCHANGED <<sourceVars, coll, index, past>>
  BY DEF IInv, Restart
<1>2. /\ fiber'[c][f].pc = "idle"
      /\ \/ requests'[c] = {}
         \/ requests'[c] = {AddStep(coll[c])} /\ Live(c)
  <2>1. fiber' = [d \in Coll |-> [g \in Fiber |-> IdleFiber]]
    BY DEF Restart
  <2>2. requests'[c] = IF Live(c) /\ coll[c].enabled /\ coll[c].status # "error"
                       THEN {AddStep(coll[c])} ELSE {}
    BY DEF Restart
  <2>3. fiber'[c][f].pc = "idle"
    BY <2>1 DEF IdleFiber
  <2> DEFINE starts == Live(c) /\ coll[c].enabled /\ coll[c].status # "error"
  <2>4. CASE starts
    BY <2>2, <2>3, <2>4
  <2>5. CASE ~starts
    BY <2>2, <2>3, <2>5
  <2> QED BY <2>4, <2>5
<1>3. ControlInv(c, f)'
  BY <1>2 DEF ControlInv, InitialStep
<1>4. RowInv(c, f)'
  BY <1>1, <1>2 DEF RowInv, sourceVars, AddStep, Live, InitialStep, PollStep
<1> QED BY <1>1, <1>2, <1>3, <1>4, Frame, Vacuous DEF IInv

-----------------------------------------------------------------------------
(* Polling                                                                 *)

(* Starting a tick, and ending one without having read anything.           *)
LEMMA TickKeeps ==
  ASSUME TypeOK, NEW c \in Coll, NEW f \in Fiber, Alone(c, f), IInv(c, f),
         \/ AddPoll(c, f) \/ Tick(c, f) \/ ReadCursor(c, f)
         \/ ReadSkips(c, f) \/ PollEmpty(c, f)
  PROVE  IInv(c, f)'
<1>1. StoreType /\ WorkerType /\ RequestType
  BY DEF TypeOK
<1>2. ControlInv(c, f) /\ RowInv(c, f) /\ UNCHANGED <<sourceVars, coll, index, past>>
  BY DEF IInv, AddPoll, Tick, ReadCursor, ReadSkips, PollEmpty
<1>3. CASE AddPoll(c, f)
  <2>1. requests'[c] = {} /\ "addPoll" \in requests[c]
    <3>1. requests'[c] = (requests[c] \ {"addPoll"}) \cup {}
      BY <1>1, <1>3, BecomeValue DEF AddPoll
    <3> QED BY <1>2, <1>3, <3>1 DEF ControlInv, AddPoll
  <2>2. fiber'[c][f].pc = "timer" /\ poller'[c] = f
    BY <1>1, <1>3, GotoValue DEF AddPoll, WorkerType
  <2>3. ControlInv(c, f)'
    BY <2>1, <2>2 DEF ControlInv
  <2>4. RowInv(c, f)'
    BY <1>2, <2>1, <2>2 DEF RowInv, sourceVars, InitialStep
  <2> QED BY <1>2, <2>2, <2>3, <2>4, Frame, Vacuous DEF IInv
<1>4. CASE Tick(c, f)
  <2>1. fiber[c][f].pc = "timer" /\ UNCHANGED <<poller, requests>>
    BY <1>4 DEF Tick
  <2>2. fiber'[c][f].pc \in {"idle", "read"}
    <3>1. Step(c, f, IdleFiber) \/ Goto(c, f, "read")
      BY <1>4, Zenon DEF Tick
    <3> QED BY <1>1, <3>1, StepValue, GotoValue DEF IdleFiber
  <2>3. ControlInv(c, f)'
    BY <1>2, <2>1, <2>2 DEF ControlInv, InitialStep
  <2>4. RowInv(c, f)'
    BY <1>2, <2>1, <2>2 DEF RowInv, sourceVars, InitialStep, PollStep
  <2> QED BY <1>2, <2>2, <2>3, <2>4, Frame, Vacuous DEF IInv
<1>5. CASE ReadCursor(c, f)
  <2>1. fiber[c][f].pc = "read" /\ UNCHANGED <<poller, requests>>
    BY <1>5 DEF ReadCursor
  <2>2. fiber'[c][f].pc = "poll" /\ fiber'[c][f].cursor = coll[c].cursor
    <3>1. fiber'[c][f] = [fiber[c][f] EXCEPT !.pc = "poll", !.cursor = coll[c].cursor]
      BY <1>1, <1>5, StepValue DEF ReadCursor
    <3>2. fiber[c][f] \in FiberState
      BY <1>1 DEF WorkerType
    <3> QED BY <3>1, <3>2 DEF FiberState
  <2>3. ControlInv(c, f)'
    BY <1>2, <2>1, <2>2 DEF ControlInv, InitialStep
  <2>4. RowInv(c, f)'
    BY <1>2, <2>1, <2>2 DEF RowInv, sourceVars, InitialStep, PollStep
  <2>5. PollingInv(c, f)'
    BY <1>2, <2>2 DEF PollingInv
  <2> QED BY <1>2, <2>2, <2>3, <2>4, <2>5, Frame, Vacuous DEF IInv
<1>6. CASE ReadSkips(c, f) \/ PollEmpty(c, f)
  <2>1. fiber[c][f].pc \in {"read", "poll"} /\ requests' = requests /\ Reschedule(c, f)
    BY <1>6 DEF ReadSkips, PollEmpty
  <2>2. \/ fiber'[c][f].pc = "idle"
        \/ fiber'[c][f].pc = "timer" /\ poller'[c] = f
    BY <1>1, <2>1, RescheduleValue
  <2>3. ControlInv(c, f)'
    BY <1>2, <2>1, <2>2 DEF ControlInv, InitialStep
  <2>4. RowInv(c, f)'
    BY <1>2, <2>1, <2>2 DEF RowInv, sourceVars, InitialStep, PollStep
  <2> QED BY <1>2, <2>2, <2>3, <2>4, Frame, Vacuous DEF IInv
<1> QED BY <1>3, <1>4, <1>5, <1>6

(* A step of the chain poll -> upsert -> delete -> gc -> save: nothing but *)
(* the program counter decides ControlInv and RowInv.                      *)
LEMMA ChainKeeps ==
  ASSUME NEW c \in Coll, NEW f \in Fiber, IInv(c, f), fiber[c][f].pc \in PollStep,
         fiber'[c][f].pc \in PollStep, UNCHANGED <<trigger, coll, requests, past>>
  PROVE  ControlInv(c, f)' /\ RowInv(c, f)' /\ FillingInv(c, f)'
<1>1. ControlInv(c, f)'
  BY DEF IInv, ControlInv, InitialStep, PollStep
<1>2. RowInv(c, f)'
  BY DEF IInv, RowInv, InitialStep, PollStep
<1>3. FillingInv(c, f)'
  BY Vacuous DEF PollStep
<1> QED BY <1>1, <1>2, <1>3

(* The batch is a prefix of what the outbox holds after the cursor.        *)
LEMMA PollOutboxKeeps ==
  ASSUME TypeOK, NEW c \in Coll, NEW f \in Fiber, Alone(c, f), IInv(c, f), PollOutbox(c, f)
  PROVE  IInv(c, f)'
<1> DEFINE rows == First(BatchSize, Unread(c, f))
<1>1. WorkerType /\ fiber[c][f].pc = "poll"
      /\ UNCHANGED <<sourceVars, coll, index, poller, requests, past>>
      /\ Step(c, f, [fiber[c][f] EXCEPT !.pc = "upsert", !.batch = rows])
  BY DEF TypeOK, PollOutbox
<1>2. \A e \in Unread(c, f) : e \in outbox /\ e.id > fiber[c][f].cursor /\ e.id \in Nat
  BY Plain DEF Unread
<1>3. ASSUME NEW e \in rows, NEW d \in Unread(c, f), d.id <= e.id
      PROVE  d \in rows
  <2>1. IsFiniteSet(Unread(c, f))
    BY FS_Subset DEF Unread, IInv, SourceInv, OutboxInv
  <2>2. BatchSize \in Nat
    BY ConstantsAssumption
  <2> QED BY <1>2, <1>3, <2>1, <2>2, FirstIsPrefix
<1>4. rows \subseteq Unread(c, f)
  BY FirstSubset
<1> HIDE DEF rows
<1>5. fiber'[c][f].pc = "upsert" /\ fiber'[c][f].batch = rows
  <2>1. fiber'[c][f] = [fiber[c][f] EXCEPT !.pc = "upsert", !.batch = rows]
    BY <1>1, StepValue
  <2>2. fiber[c][f] \in FiberState
    BY <1>1 DEF WorkerType
  <2> QED BY <2>1, <2>2 DEF FiberState
<1>6. PollingInv(c, f)'
  <2> SUFFICES ASSUME "delete" \notin past[c] PROVE PollingInv(c, f)'
    BY <1>1 DEF PollingInv
  <2>1. fiber[c][f].cursor = coll[c].cursor
    BY <1>1 DEF IInv, PollingInv
  <2>2. \A e \in rows : /\ e \in outbox /\ e.id > coll[c].cursor
                        /\ \A d \in outbox : coll[c].cursor < d.id /\ d.id <= e.id => d \in rows
    BY <1>2, <1>3, <1>4, <2>1, Plain DEF Unread
  <2> QED BY <1>1, <1>5, <2>2 DEF PollingInv, sourceVars
<1> QED BY <1>1, <1>5, <1>6, ChainKeeps, Frame DEF IInv, PollStep, sourceVars

(* What the batch says of a key reaches the index; a key whose changes are *)
(* all in the batch gets its current contents, the others are not settled. *)
LEMMA SendKeeps ==
  ASSUME TypeOK, NEW c \in Coll, NEW f \in Fiber, Alone(c, f), IInv(c, f),
         SendUpserts(c, f) \/ SendDeletes(c, f)
  PROVE  IInv(c, f)'
<1> DEFINE batch == fiber[c][f].batch
<1>1. StoreType /\ WorkerType /\ UNCHANGED <<sourceVars, coll, poller, requests, past>>
  BY DEF TypeOK, SendUpserts, SendDeletes
<1>2. \/ /\ fiber[c][f].pc = "upsert" /\ fiber'[c][f].pc = "delete"
         /\ index'[c] = WithUpserts(index[c], batch)
      \/ /\ fiber[c][f].pc = "delete" /\ fiber'[c][f].pc = "gc"
         /\ index'[c] = WithDeletes(index[c], batch)
  BY <1>1, GotoValue DEF SendUpserts, SendDeletes, StoreType
<1>3. fiber'[c][f].batch = batch
  BY <1>1, GotoValue DEF SendUpserts, SendDeletes
<1>4. ControlInv(c, f)' /\ RowInv(c, f)' /\ FillingInv(c, f)' /\ SourceInv'
  BY <1>1, <1>2, ChainKeeps, Frame DEF PollStep, sourceVars
<1>5. CASE "delete" \in past[c]
  BY <1>1, <1>4, <1>5, Vacuous DEF IInv
<1>6. CASE "delete" \notin past[c]
  <2>1. /\ \A e \in batch :
             /\ e \in outbox /\ e.id > coll[c].cursor
             /\ \A d \in outbox : coll[c].cursor < d.id /\ d.id <= e.id => d \in batch
        /\ fiber[c][f].pc = "delete" =>
             \A e \in batch : LastOfKey(e, batch) /\ e.val # Absent => index[c][e.key] = e.val
        /\ SourceInv /\ coll[c].synced
    BY <1>2, <1>6 DEF IInv, PollingInv, RowInv, PollStep
  <2>2. ASSUME NEW e \in batch, NEW d \in batch, d.key = e.key, d.val = Absent
        PROVE  d.id >= e.id
    BY <2>1, <2>2, Plain DEF SourceInv, OutboxInv, LastOfKey
  <2>3. ASSUME NEW e \in batch, LastOfKey(e, batch), e.val # Absent
        PROVE  index'[c][e.key] = e.val
    <3>1. \A d \in batch : d.key = e.key => d.val # Absent
      BY <2>1, <2>2, <2>3, Plain DEF SourceInv, OutboxInv, LastOfKey
    <3>2. CASE fiber[c][f].pc = "upsert"
      <4>1. LastUpsert(e, batch)
        BY <2>3 DEF LastOfKey, LastUpsert
      <4>2. \A d \in batch : d.key = e.key /\ LastUpsert(d, batch) => d = e
        <5> SUFFICES ASSUME NEW d \in batch, d.key = e.key, LastUpsert(d, batch)
                     PROVE  d = e
          OBVIOUS
        <5>1. d.id <= e.id /\ e.id <= d.id
          BY <2>3 DEF LastOfKey, LastUpsert
        <5> QED BY <2>1, <5>1, Plain DEF SourceInv, OutboxInv
      <4>3. (CHOOSE d \in batch : d.key = e.key /\ LastUpsert(d, batch)) = e
        BY <4>1, <4>2
      <4> QED BY <1>2, <3>2, <4>1, <4>3, Plain DEF WithUpserts
    <3>3. CASE fiber[c][f].pc = "delete"
      BY <1>2, <2>1, <2>3, <3>1, <3>3, Plain DEF WithDeletes
    <3> QED BY <1>2, <3>2, <3>3
  <2>4. ASSUME fiber[c][f].pc = "delete", NEW e \in batch, e.val = Absent
        PROVE  index'[c][e.key] = Absent
    BY <1>2, <2>4, Plain DEF WithDeletes
  <2>5. PollingInv(c, f)'
    <3>1. \A e \in batch : LastOfKey(e, batch) /\ (e.val # Absent \/ fiber'[c][f].pc = "gc")
                             => index'[c][e.key] = e.val
      BY <1>2, <2>3, <2>4
    <3> QED BY <1>1, <1>2, <1>3, <2>1, <3>1 DEF PollingInv, sourceVars, LastOfKey
  <2>6. ASSUME NEW k \in Key, table[k] # Absent, Unapplied(coll[c].cursor, k) = {}
        PROVE  index'[c][k] = table[k]
    <3>1. \A e \in batch : e.key # k
      BY <2>1, <2>6 DEF Unapplied
    <3>2. index'[c][k] = index[c][k]
      BY <1>2, <3>1 DEF WithUpserts, WithDeletes
    <3> QED BY <1>6, <2>1, <2>6, <3>2 DEF IInv, FilledInv
  <2>7. FilledInv(c)'
    <3>1. NothingBehind(coll[c].cursor)' /\ TailCurrent(coll[c].cursor)'
      BY <1>1, <1>6, <2>1
         DEF IInv, FilledInv, NothingBehind, TailCurrent, sourceVars, LastOfKey
    <3> QED BY <1>1, <2>6, <3>1 DEF FilledInv, Unapplied, sourceVars
  <2> QED BY <1>4, <2>5, <2>7 DEF IInv
<1> QED BY <1>5, <1>6

(* Deleting a prefix of the outbox: the rows after it keep their place.    *)
LEMMA PrunedOutbox ==
  ASSUME TypeOK, NEW c \in Coll, NEW f \in Fiber, IInv(c, f), NEW m \in Nat,
         outbox' = {e \in outbox : e.id > m}, UNCHANGED <<table, dead, inflight, seq, trigger>>
  PROVE  /\ SourceInv'
         /\ \A e \in outbox' : LastOfKey(e, outbox') => LastOfKey(e, outbox)
<1>1. \A e \in outbox : e.id \in Nat
  BY Plain
<1>2. outbox' \subseteq outbox
  OBVIOUS
<1>3. ASSUME NEW e \in outbox', LastOfKey(e, outbox')
      PROVE  LastOfKey(e, outbox)
  <2> SUFFICES ASSUME NEW d \in outbox, d.key = e.key PROVE d.id <= e.id
    BY <1>2 DEF LastOfKey
  <2>1. CASE d.id > m
    BY <1>3, <2>1 DEF LastOfKey
  <2>2. CASE ~(d.id > m)
    BY <1>1, <2>2
  <2> QED BY <2>1, <2>2
<1>4. OutboxInv'
  <2>1. IsFiniteSet(outbox')
    BY <1>2, FS_Subset DEF IInv, SourceInv, OutboxInv
  <2>2. ASSUME NEW e \in outbox'
        PROVE  \E d \in outbox' : d.key = e.key /\ LastOfKey(d, outbox')
    <3>1. PICK d \in outbox : d.key = e.key /\ LastOfKey(d, outbox)
      BY <1>2 DEF IInv, SourceInv, OutboxInv
    <3>2. d.id >= e.id /\ e.id > m
      BY <1>1, <3>1 DEF LastOfKey
    <3>3. d \in outbox'
      BY <1>1, <3>2
    <3> QED BY <1>2, <3>1, <3>3 DEF LastOfKey
  <2> QED BY <1>2, <2>1, <2>2 DEF IInv, SourceInv, OutboxInv, LastOfKey
<1>5. InflightInv'
  BY <1>2 DEF IInv, SourceInv, InflightInv
<1> QED BY <1>3, <1>4, <1>5 DEF SourceInv

(* Whatever is deleted from the outbox is in the index by then, except     *)
(* changes that a later one in the outbox supersedes.                      *)
LEMMA GcKeeps ==
  ASSUME TypeOK, NEW c \in Coll, NEW f \in Fiber, Alone(c, f), IInv(c, f), GcOutbox(c, f)
  PROVE  IInv(c, f)'
<1> DEFINE batch == fiber[c][f].batch
<1>1. WorkerType /\ fiber[c][f].pc = "gc"
      /\ UNCHANGED <<table, dead, inflight, seq, trigger, coll, index, poller, requests, past>>
  BY DEF TypeOK, GcOutbox
<1>2. fiber'[c][f].pc = "save" /\ fiber'[c][f].batch = batch
  BY <1>1, GotoValue DEF GcOutbox
<1>3. PICK last \in batch : IsLast(last, batch) /\ outbox' = {e \in outbox : e.id > last.id}
  BY DEF GcOutbox
<1>4. last.id \in Nat /\ \A e \in batch : e.id <= last.id /\ e.id \in Nat
  BY <1>3, Plain DEF IsLast
<1>5. /\ SourceInv'
      /\ \A e \in outbox' : LastOfKey(e, outbox') => LastOfKey(e, outbox)
  BY <1>1, <1>3, <1>4, PrunedOutbox
<1>6. ControlInv(c, f)' /\ RowInv(c, f)' /\ FillingInv(c, f)'
  BY <1>1, <1>2, ChainKeeps DEF PollStep
<1>7. CASE "delete" \in past[c]
  BY <1>1, <1>5, <1>6, <1>7, Vacuous DEF IInv
<1>8. CASE "delete" \notin past[c]
  <2>1. /\ \A e \in batch : e \in outbox /\ e.id > coll[c].cursor
        /\ \A d \in outbox : coll[c].cursor < d.id /\ d.id <= last.id => d \in batch
        /\ \A e \in batch : LastOfKey(e, batch) => index[c][e.key] = e.val
    BY <1>1, <1>8 DEF IInv, PollingInv
  <2>2. coll[c].synced /\ trigger /\ NothingBehind(coll[c].cursor) /\ TailCurrent(coll[c].cursor)
    <3>1. coll[c].synced
      BY <1>1, <1>8 DEF IInv, RowInv, PollStep
    <3> QED BY <1>8, <3>1, TriggerInstalled DEF IInv, FilledInv
  <2>3. TailCurrent(coll[c].cursor)'
    BY <1>1, <1>3, <1>5, <2>2 DEF TailCurrent
  <2>4. ASSUME NEW k \in Key, table[k] # Absent, Unapplied(coll[c].cursor, k)' = {}
        PROVE  index[c][k] = table[k]
    <3>1. CASE Unapplied(coll[c].cursor, k) = {}
      BY <1>8, <2>2, <2>4, <3>1 DEF IInv, FilledInv
    <3>2. CASE Unapplied(coll[c].cursor, k) # {}
      <4>1. PICK x \in outbox : x.id > coll[c].cursor /\ x.key = k
        BY <3>2 DEF Unapplied
      <4>2. PICK d \in outbox : d.key = k /\ LastOfKey(d, outbox)
        BY <4>1 DEF IInv, SourceInv, OutboxInv
      <4>3. d.id >= x.id /\ d.id > coll[c].cursor
        BY <4>1, <4>2, Plain DEF LastOfKey
      <4>4. ~(d.id > last.id)
        BY <1>1, <1>3, <2>4, <4>2, <4>3 DEF Unapplied
      <4>5. d.id <= last.id
        BY <1>4, <4>4, Plain
      <4>6. d \in batch /\ LastOfKey(d, batch)
        BY <2>1, <4>2, <4>3, <4>5 DEF LastOfKey
      <4>7. d.val = table[k]
        BY <2>2, <4>2, <4>3 DEF TailCurrent
      <4> QED BY <2>1, <4>2, <4>6, <4>7
    <3> QED BY <3>1, <3>2
  <2>5. FilledInv(c)'
    BY <1>1, <2>2, <2>3, <2>4 DEF FilledInv, NothingBehind
  <2>6. ASSUME NEW e \in batch
        PROVE  /\ NothingBehind(e.id) /\ coll[c].cursor < e.id
               /\ \A d \in outbox' : e.id < d.id
    <3>1. e \in outbox /\ coll[c].cursor < e.id
      BY <1>4, <2>1, Plain
    <3>2. NothingBehind(e.id)
      BY <2>2, <3>1 DEF NothingBehind, IInv, SourceInv, OutboxInv, InflightInv
    <3>3. ASSUME NEW d \in outbox' PROVE e.id < d.id
      <4>1. d.id > last.id /\ d.id \in Nat
        BY <1>3, Plain
      <4> QED BY <1>4, <4>1
    <3> QED BY <3>1, <3>2, <3>3
  <2>7. PollingInv(c, f)'
    BY <1>1, <1>2, <2>6 DEF PollingInv, NothingBehind
  <2> QED BY <1>5, <1>6, <2>5, <2>7 DEF IInv
<1> QED BY <1>7, <1>8

(* Saving the cursor: what was unapplied after the old one is so after the *)
(* new one, because everything between them has left the outbox.           *)
LEMMA SaveKeeps ==
  ASSUME TypeOK, NEW c \in Coll, NEW f \in Fiber, Alone(c, f), IInv(c, f), SaveCursor(c, f)
  PROVE  IInv(c, f)'
<1>1. StoreType /\ WorkerType /\ fiber[c][f].pc = "save" /\ Reschedule(c, f)
      /\ ControlInv(c, f) /\ RowInv(c, f)
      /\ UNCHANGED <<sourceVars, index, requests, past>>
  BY DEF TypeOK, SaveCursor, IInv
<1>2. PICK last \in fiber[c][f].batch :
        SetRow(c, [coll[c] EXCEPT !.status = "idle", !.synced = TRUE, !.cursor = last.id])
  BY DEF SaveCursor
<1>3. \/ fiber'[c][f].pc = "idle"
      \/ fiber'[c][f].pc = "timer" /\ poller'[c] = f
  BY <1>1, RescheduleValue
<1>4. ControlInv(c, f)'
  BY <1>1, <1>3 DEF ControlInv, InitialStep
<1>5. SourceInv'
  BY <1>1, Frame
<1>6. CASE "delete" \in past[c]
  BY <1>1, <1>4, <1>5, <1>6, Vacuous DEF IInv
<1>7. CASE "delete" \notin past[c]
  <2>1. coll[c].row = "live" /\ coll[c].synced
        /\ requests[c] \cap {"provisionDrop", "provisionCreate", "reset"} = {}
    BY <1>1, <1>7, BusyRow DEF PollStep, Busy
  <2>2. coll'[c].row = "live" /\ coll'[c].synced = TRUE /\ coll'[c].cursor = last.id
    <3>1. coll'[c] = [coll[c] EXCEPT !.status = "idle", !.synced = TRUE, !.cursor = last.id]
      BY <1>1, <1>2, <2>1, SetRowValue DEF Live
    <3> QED BY <1>1, <2>1, <3>1, CollType DEF CollRow
  <2>3. RowInv(c, f)'
    BY <1>1, <1>3, <1>7, <2>1, <2>2 DEF RowInv, sourceVars, InitialStep, PollStep
  <2>4. /\ NothingBehind(last.id) /\ coll[c].cursor < last.id
        /\ \A d \in outbox : last.id < d.id
    BY <1>1, <1>7 DEF IInv, PollingInv
  <2>5. /\ TailCurrent(coll[c].cursor)
        /\ \A k \in Key : table[k] # Absent /\ Unapplied(coll[c].cursor, k) = {}
                            => index[c][k] = table[k]
    BY <1>7, <2>1 DEF IInv, FilledInv
  <2>6. \A d \in outbox : d.id > coll[c].cursor
    <3> SUFFICES ASSUME NEW d \in outbox PROVE d.id > coll[c].cursor
      OBVIOUS
    <3>1. last.id < d.id /\ last.id \in Nat /\ d.id \in Nat /\ coll[c].cursor \in Nat
      BY <2>4, Plain
    <3> QED BY <2>4, <3>1
  <2>7. TailCurrent(last.id)
    BY <2>4, <2>5, <2>6 DEF TailCurrent
  <2>8. \A k \in Key : Unapplied(last.id, k) = {} => Unapplied(coll[c].cursor, k) = {}
    BY <2>4, Plain DEF Unapplied
  <2>9. FilledInv(c)'
    BY <1>1, <2>2, <2>4, <2>5, <2>7, <2>8
       DEF FilledInv, NothingBehind, TailCurrent, Unapplied, LastOfKey, sourceVars
  <2> QED BY <1>3, <1>4, <1>5, <2>3, <2>9, Vacuous DEF IInv
<1> QED BY <1>6, <1>7

-----------------------------------------------------------------------------
(* The theorems                                                            *)

LEMMA InitIInv ==
  ASSUME NEW c \in Coll, NEW f \in Fiber, Init
  PROVE  IInv(c, f)
<1>1. /\ inflight = {} /\ outbox = {} /\ seq = 0 /\ trigger = FALSE
      /\ requests[c] = {} /\ past[c] = {}
      /\ fiber[c][f].pc = "idle"
      /\ coll[c].row = "none" /\ coll[c].synced = FALSE /\ coll[c].cursor = 0
  BY DEF Init, IdleFiber
<1>2. SourceInv
  BY <1>1, FS_EmptySet DEF SourceInv, OutboxInv, InflightInv
<1>3. ControlInv(c, f) /\ RowInv(c, f)
  BY <1>1 DEF ControlInv, RowInv, InitialStep, PollStep
<1>4. FilledInv(c) /\ FillingInv(c, f) /\ PollingInv(c, f)
  BY <1>1 DEF FilledInv, FillingInv, PollingInv
<1> QED BY <1>2, <1>3, <1>4 DEF IInv

LEMMA StepIInv ==
  ASSUME TypeOK, NEW c \in Coll, NEW f \in Fiber, Alone(c, f), IInv(c, f), [Next]_vars
  PROVE  IInv(c, f)'
<1>1. CASE Source
  BY <1>1, WriteKeeps, CommitKeeps, RollbackKeeps DEF Source
<1>2. ASSUME NEW d \in Coll, Admin(d)
      PROVE  IInv(c, f)'
  <2>1. d = c
    BY DEF Alone
  <2> QED BY <1>2, <2>1, ProvisionKeeps, ToggleKeeps, ResyncKeeps, DeletionKeeps DEF Admin
<1>3. ASSUME NEW d \in Coll, NEW g \in Fiber, InitialSync(d, g)
      PROVE  IInv(c, f)'
  <2>1. d = c /\ g = f
    BY DEF Alone
  <2> QED BY <1>3, <2>1, FillKeeps, SyncBatchKeeps, SyncFinishKeeps DEF InitialSync
<1>4. ASSUME NEW d \in Coll, NEW g \in Fiber, Poll(d, g)
      PROVE  IInv(c, f)'
  <2>1. d = c /\ g = f
    BY DEF Alone
  <2> QED BY <1>4, <2>1, TickKeeps, PollOutboxKeeps, SendKeeps, GcKeeps, SaveKeeps DEF Poll
<1>5. ASSUME NEW d \in Coll, NEW g \in Fiber, Fault(d, g)
      PROVE  IInv(c, f)'
  <2>1. d = c /\ g = f
    BY DEF Alone
  <2> QED BY <1>5, <2>1, FaultKeeps
<1>6. CASE Restart
  BY <1>6, RestartKeeps
<1>7. CASE UNCHANGED vars
  <2>1. /\ UNCHANGED <<sourceVars, coll, index, past>>
        /\ UNCHANGED <<trigger, fiber, poller, requests>>
    BY <1>7 DEF vars, workerVars, sourceVars
  <2> QED BY <2>1, Frame DEF IInv
<1> QED BY <1>1, <1>2, <1>3, <1>4, <1>5, <1>6, <1>7 DEF Next

(* The inductive invariant of one collection with one activity at a time:  *)
(* the batch in hand is a prefix of the outbox after the cursor, and the   *)
(* index differs from the table only where a change is still to be read.   *)
THEOREM InductiveCorrect ==
  ASSUME NEW c, NEW f, Alone(c, f)
  PROVE  Spec => []InductiveInv
<1>1. c \in Coll /\ f \in Fiber
  BY DEF Alone
<1>2. InductiveInv <=> IInv(c, f)
  BY DEF InductiveInv, Alone
<1>3. InductiveInv' <=> IInv(c, f)'
  BY DEF InductiveInv, Alone
<1>4. Init => InductiveInv
  BY <1>1, <1>2, InitIInv
<1>5. TypeOK /\ InductiveInv /\ [Next]_vars => InductiveInv'
  BY <1>1, <1>2, <1>3, StepIInv
<1> QED BY <1>4, <1>5, TypeCorrect, PTL DEF Spec

(* No committed change is lost: whenever the collection is idle with       *)
(* nothing to read, after any failures, restarts, pauses and resyncs, the  *)
(* index holds the current contents of every row.                          *)
THEOREM RowsReachTheIndex ==
  ASSUME NEW c, NEW f, Alone(c, f)
  PROVE  Spec => []LiveRowsIndexed
<1>1. TypeOK /\ InductiveInv => LiveRowsIndexed
  <2> SUFFICES ASSUME TypeOK, InductiveInv, NEW d \in Coll, Quiescent(d),
                      "delete" \notin past[d], NEW k \in Key, table[k] # Absent
               PROVE  index[d][k] = table[k]
    BY DEF LiveRowsIndexed
  <2>1. d = c /\ d \in Coll /\ f \in Fiber
    BY DEF Alone
  <2>2. IInv(d, f)
    BY <2>1 DEF InductiveInv
  <2>3. Unapplied(coll[d].cursor, k) = {}
    BY DEF Quiescent, Pending, Unapplied
  <2> QED BY <2>2, <2>3 DEF IInv, FilledInv, Quiescent
<1> QED BY <1>1, TypeCorrect, InductiveCorrect, PTL

(* gcOutbox deletes no change the index does not show, unless a later      *)
(* change of the same row is waiting behind it.                            *)
THEOREM GcDeletesAppliedOnly ==
  ASSUME NEW c, NEW f, Alone(c, f)
  PROVE  Spec => GcOnlyApplied
<1>1. TypeOK /\ InductiveInv /\ [Next]_vars => OnlyAppliedLeaves
  <2> SUFFICES ASSUME TypeOK, InductiveInv, [Next]_vars,
                      NEW e \in outbox, e \notin outbox', NEW d \in Coll,
                      e.id > coll[d].cursor, "delete" \notin past[d],
                      ~\E x \in outbox : x.key = e.key /\ x.id > e.id
               PROVE  index[d][e.key] = e.val
    BY DEF OnlyAppliedLeaves
  <2>1. d = c /\ d \in Coll /\ f \in Fiber /\ Coll = {d} /\ Fiber = {f}
    BY DEF Alone
  <2>2. IInv(d, f)
    BY <2>1 DEF InductiveInv
  <2>3. GcOutbox(d, f)
    <3>1. \A b : AlterTrigger(b) => outbox' = outbox
      BY DEF AlterTrigger
    <3>2. ~(UNCHANGED sourceVars)
      BY DEF sourceVars
    <3>3. ~Source
      BY DEF Source, Write, Commit, Rollback
    <3>4. ~Admin(d)
      BY <3>1, <3>2 DEF Admin, CreateCollection, ProvisionDrop, ProvisionCreate,
         ProvisionFails, Disable, Remove, Enable, Resync, Reset, DeleteCollection,
         DeleteProject, Untrigger, Unindex, Erase, AddIgnored
    <3>5. ~InitialSync(d, f)
      BY <3>1, <3>2 DEF InitialSync, AddInitial, SyncBegin, SyncDrop, SyncCreate, SyncMark,
         SyncOpen, SyncBatch, SyncFinish
    <3>6. ~Fault(d, f) /\ ~Restart /\ ~(UNCHANGED vars)
      BY <3>2 DEF Fault, SyncFails, PollFails, FiberDies, Restart, vars, sourceVars
    <3>7. Poll(d, f)
      BY <2>1, <3>3, <3>4, <3>5, <3>6 DEF Next
    <3> QED BY <3>2, <3>7 DEF Poll, AddPoll, Tick, ReadCursor, ReadSkips, PollOutbox,
            PollEmpty, SendUpserts, SendDeletes, SaveCursor
  <2>4. PICK last \in fiber[d][f].batch : outbox' = {x \in outbox : x.id > last.id}
    BY <2>3 DEF GcOutbox
  <2>5. e.id \in Nat /\ last.id \in Nat /\ \A x \in outbox : x.id \in Nat
    BY <2>1, Plain
  <2>6. ~(e.id > last.id)
    BY <2>4
  <2>7. e.id <= last.id
    BY <2>5, <2>6
  <2>8. /\ \A x \in fiber[d][f].batch : x \in outbox
        /\ e \in fiber[d][f].batch
        /\ LastOfKey(e, fiber[d][f].batch) => index[d][e.key] = e.val
    BY <2>2, <2>3, <2>7 DEF IInv, PollingInv, GcOutbox
  <2>9. LastOfKey(e, fiber[d][f].batch)
    BY <2>5, <2>8 DEF LastOfKey
  <2> QED BY <2>8, <2>9
<1> QED BY <1>1, TypeCorrect, InductiveCorrect, PTL DEF Spec, GcOnlyApplied

-----------------------------------------------------------------------------
(* No deleted row stays searchable after the first fill                    *)

(* No row deleted before the changes after id m still has a document.      *)
Clean(m, c) ==
  \A k \in Key : table[k] = Absent /\ Unapplied(m, k) = {} => index[c][k] = Absent

(* A filled index has documents of deleted rows only where the deletion is *)
(* still to be read; a snapshot starts from an empty index.                *)
CleanInv(c, f) ==
  past[c] = {} =>
    /\ coll[c].synced => Clean(coll[c].cursor, c)
    /\ fiber[c][f].pc = "open" => index[c] = EmptyIndex
    /\ fiber[c][f].pc = "snapshot" => Clean(fiber[c][f].cursor, c)

LEMMA CleanFrame ==
  ASSUME NEW c \in Coll, NEW f \in Fiber, CleanInv(c, f),
         past'[c] = {} => /\ past[c] = {} /\ table' = table /\ outbox' = outbox
                          /\ index'[c] = index[c]
                          /\ coll'[c].synced =>
                               coll[c].synced /\ coll'[c].cursor = coll[c].cursor
                          /\ fiber'[c][f].pc \in {"open", "snapshot"} =>
                               /\ fiber'[c][f].pc = fiber[c][f].pc
                               /\ fiber'[c][f].cursor = fiber[c][f].cursor
  PROVE  CleanInv(c, f)'
<1> SUFFICES ASSUME past'[c] = {} PROVE CleanInv(c, f)'
  BY DEF CleanInv
<1>1. past[c] = {} /\ table' = table /\ outbox' = outbox /\ index'[c] = index[c]
  OBVIOUS
<1>2. coll'[c].synced => Clean(coll[c].cursor, c)' /\ coll'[c].cursor = coll[c].cursor
  BY <1>1 DEF CleanInv, Clean, Unapplied
<1>3. fiber'[c][f].pc = "open" => index'[c] = EmptyIndex
  BY <1>1 DEF CleanInv
<1>4. fiber'[c][f].pc = "snapshot" =>
        fiber'[c][f].cursor = fiber[c][f].cursor /\ Clean(fiber[c][f].cursor, c)'
  BY <1>1 DEF CleanInv, Clean, Unapplied
<1>5. coll'[c].synced => Clean(coll[c].cursor, c)'
  BY <1>2
<1> QED BY <1>2, <1>3, <1>4 DEF CleanInv, Clean, Unapplied

LEMMA CleanRequest ==
  ASSUME TypeOK, NEW c \in Coll, NEW f \in Fiber, IInv(c, f), CleanInv(c, f), Admin(c)
  PROVE  CleanInv(c, f)'
<1>1. StoreType /\ WorkerType /\ HistoryType /\ RowInv(c, f)
  BY DEF TypeOK, IInv
<1>2. table' = table /\ outbox' = outbox
  BY DEF Admin, CreateCollection, ProvisionDrop, ProvisionCreate, ProvisionFails, Disable, Remove,
     Enable, Resync, Reset, DeleteCollection, DeleteProject, Untrigger, Unindex, Erase,
     AddIgnored, AlterTrigger, sourceVars
<1>3. past'[c] = {} => past[c] = {} /\ past' = past
                       /\ ~(Resync(c) \/ DeleteCollection(c) \/ DeleteProject(c))
  BY <1>1 DEF HistoryType, Admin, CreateCollection, ProvisionDrop, ProvisionCreate, ProvisionFails,
     Disable, Remove, Enable, Resync, Reset, DeleteCollection, DeleteProject, Untrigger, Unindex,
     Erase, AddIgnored
<1>4. SUFFICES ASSUME past[c] = {}, ~Resync(c), ~DeleteCollection(c), ~DeleteProject(c)
               PROVE  /\ index'[c] = index[c]
                      /\ coll'[c].synced => coll[c].synced /\ coll'[c].cursor = coll[c].cursor
                      /\ fiber'[c][f].pc \in {"open", "snapshot"} =>
                           /\ fiber'[c][f].pc = fiber[c][f].pc
                           /\ fiber'[c][f].cursor = fiber[c][f].cursor
  BY <1>2, <1>3, CleanFrame
<1>5. ~Untrigger(c) /\ ~Unindex(c) /\ ~Erase(c)
  BY <1>1, <1>4 DEF RowInv, Untrigger, Unindex, Erase
<1>6. index' = index
  BY <1>4, <1>5 DEF Admin, CreateCollection, ProvisionDrop, ProvisionCreate, ProvisionFails,
     Disable, Remove, Enable, Reset, AddIgnored
<1>7. coll'[c].synced => coll[c].synced /\ coll'[c].cursor = coll[c].cursor
  <2>1. CASE CreateCollection(c) \/ ProvisionFails(c) \/ Disable(c) \/ Enable(c)
    BY <1>1, <2>1, RowValue, ZenonT(60) DEF CreateCollection, ProvisionFails, Disable, Enable
  <2>2. CASE Reset(c)
    <3>1. SetRow(c, [coll[c] EXCEPT !.status = "idle", !.cursor = 0, !.synced = FALSE])
      BY <2>2 DEF Reset
    <3>2. coll'[c] = coll[c]
          \/ coll'[c] = [coll[c] EXCEPT !.status = "idle", !.cursor = 0, !.synced = FALSE]
      BY <1>1, <3>1, SetRowValue
    <3>3. coll[c] \in CollRow
      BY <1>1 DEF StoreType
    <3> QED BY <3>2, <3>3 DEF CollRow
  <2>3. CASE ProvisionDrop(c) \/ ProvisionCreate(c) \/ Remove(c) \/ AddIgnored(c)
    BY <2>3 DEF ProvisionDrop, ProvisionCreate, Remove, AddIgnored
  <2> QED BY <1>4, <1>5, <2>1, <2>2, <2>3 DEF Admin
<1>8. fiber'[c][f].pc \in {"open", "snapshot"} =>
        fiber'[c][f].pc = fiber[c][f].pc /\ fiber'[c][f].cursor = fiber[c][f].cursor
  <2>1. CASE Remove(c)
    <3>1. Removed(c)
      BY <2>1 DEF Remove
    <3> QED BY <1>1, <3>1, RemovedValue
  <2>2. CASE ~Remove(c)
    <3>1. fiber' = fiber
      BY <1>4, <1>5, <2>2 DEF Admin, CreateCollection, ProvisionDrop, ProvisionCreate,
         ProvisionFails, Disable, Enable, Reset, AddIgnored
    <3> QED BY <3>1
  <2> QED BY <2>1, <2>2
<1> QED BY <1>6, <1>7, <1>8

(* A commit takes its key off the keys without an unread change.           *)
LEMMA CleanSource ==
  ASSUME TypeOK, NEW c \in Coll, NEW f \in Fiber, Alone(c, f), IInv(c, f), CleanInv(c, f), Source
  PROVE  CleanInv(c, f)'
<1>1. CASE \E k \in Key, v \in Cell : Write(k, v)
  BY <1>1, CleanFrame DEF Write, workerVars
<1>2. CASE \E e \in inflight : Rollback(e)
  BY <1>2, CleanFrame DEF Rollback, workerVars
<1>3. ASSUME NEW e \in inflight, Commit(e) PROVE CleanInv(c, f)'
  <2>1. /\ table' = [table EXCEPT ![e.key] = e.val]
        /\ UNCHANGED <<coll, index, fiber, past>>
    BY <1>3 DEF Commit, workerVars
  <2> SUFFICES ASSUME past[c] = {} PROVE CleanInv(c, f)'
    BY <2>1 DEF CleanInv
  <2>2. e.id \in Nat /\ e.key \in Key /\ table \in [Key -> Cell]
    BY Plain
  <2>3. ASSUME NEW m, NothingBehind(m), trigger, Clean(m, c) PROVE Clean(m, c)'
    <3>1. outbox' = outbox \cup {e}
      BY <1>3, <2>3 DEF Commit, IInv, SourceInv, InflightInv
    <3>2. e.id > m
      BY <2>3 DEF NothingBehind
    <3>3. ASSUME NEW k \in Key, table'[k] = Absent, Unapplied(m, k)' = {}
          PROVE  index'[c][k] = Absent
      <4>1. k # e.key
        BY <3>1, <3>2, <3>3 DEF Unapplied
      <4>2. Unapplied(m, k) = {}
        BY <3>1, <3>3 DEF Unapplied
      <4> QED BY <2>1, <2>2, <2>3, <3>3, <4>1, <4>2 DEF Clean
    <3> QED BY <3>3 DEF Clean
  <2>4. coll'[c].synced => Clean(coll[c].cursor, c)'
    BY <2>1, <2>3, TriggerInstalled DEF IInv, FilledInv, CleanInv
  <2>5. fiber'[c][f].pc = "snapshot" => Clean(fiber[c][f].cursor, c)'
    BY <2>1, <2>3, TriggerInstalled DEF IInv, FillingInv, CleanInv
  <2> QED BY <2>1, <2>4, <2>5 DEF CleanInv, Clean, Unapplied
<1> QED BY <1>1, <1>2, <1>3 DEF Source

LEMMA CleanFill ==
  ASSUME TypeOK, NEW c \in Coll, NEW f \in Fiber, Alone(c, f), IInv(c, f), CleanInv(c, f),
         InitialSync(c, f)
  PROVE  CleanInv(c, f)'
<1>1. StoreType /\ WorkerType /\ HistoryType /\ fiber[c][f] \in FiberState
  BY FiberStateType DEF TypeOK
<1>2. CASE AddInitial(c, f) \/ SyncBegin(c, f) \/ SyncDrop(c, f) \/ SyncCreate(c, f)
  <2>1. table' = table /\ outbox' = outbox /\ index' = index /\ past' = past
    BY <1>2 DEF AddInitial, SyncBegin, SyncDrop, SyncCreate, AlterTrigger, sourceVars
  <2>2. coll'[c].synced = coll[c].synced /\ coll'[c].cursor = coll[c].cursor
    BY <1>1, <1>2, RowValue DEF AddInitial, SyncBegin, SyncDrop, SyncCreate
  <2>3. fiber'[c][f].pc \notin {"open", "snapshot"}
    <3>1. PICK s \in {"sync", "drop", "create", "mark"} : Goto(c, f, s)
      BY <1>2 DEF AddInitial, SyncBegin, SyncDrop, SyncCreate
    <3> QED BY <1>1, <3>1, GotoValue
  <2> QED BY <2>1, <2>2, <2>3, CleanFrame
<1>3. CASE SyncMark(c, f)
  <2> SUFFICES ASSUME past'[c] = {} PROVE CleanInv(c, f)'
    BY DEF CleanInv
  <2>1. past[c] = {} /\ index[c] = EmptyIndex
    BY <1>1, <1>3, Zenon DEF SyncMark, HistoryType
  <2>2. UNCHANGED <<sourceVars, coll, index>>
    BY <1>3 DEF SyncMark
  <2>3. fiber'[c][f].pc = "open"
    <3>1. PICK m : Step(c, f, [fiber[c][f] EXCEPT !.pc = "open", !.cursor = m])
      BY <1>3 DEF SyncMark
    <3>2. fiber'[c][f] = [fiber[c][f] EXCEPT !.pc = "open", !.cursor = m]
      BY <1>1, <3>1, StepValue
    <3> QED BY <1>1, <3>2 DEF FiberState
  <2>4. coll'[c].synced => Clean(coll[c].cursor, c)'
    BY <2>1, <2>2 DEF CleanInv, Clean, Unapplied, sourceVars
  <2> QED BY <2>1, <2>2, <2>3, <2>4 DEF CleanInv
<1>4. CASE SyncOpen(c, f)
  <2> SUFFICES ASSUME past'[c] = {} PROVE CleanInv(c, f)'
    BY DEF CleanInv
  <2>1. /\ fiber[c][f].pc = "open" /\ UNCHANGED <<sourceVars, coll, index, past>>
        /\ index[c] = EmptyIndex
    BY <1>4 DEF SyncOpen, CleanInv
  <2>2. fiber'[c][f].pc = "snapshot"
    <3>1. PICK t : Step(c, f, [fiber[c][f] EXCEPT !.pc = "snapshot", !.todo = t])
      BY <1>4 DEF SyncOpen
    <3>2. fiber'[c][f] = [fiber[c][f] EXCEPT !.pc = "snapshot", !.todo = t]
      BY <1>1, <3>1, StepValue
    <3> QED BY <1>1, <3>2 DEF FiberState
  <2>3. coll'[c].synced => Clean(coll[c].cursor, c)'
    BY <2>1 DEF CleanInv, Clean, Unapplied, sourceVars
  <2>4. Clean(fiber[c][f].cursor, c)'
    BY <2>1 DEF Clean, EmptyIndex
  <2> QED BY <2>2, <2>3, <2>4 DEF CleanInv
<1>5. CASE SyncBatch(c, f)
  <2>1. /\ fiber[c][f].pc = "snapshot" /\ UNCHANGED <<sourceVars, coll, past>>
    BY <1>5 DEF SyncBatch
  <2> SUFFICES ASSUME past[c] = {} PROVE CleanInv(c, f)'
    BY <2>1 DEF CleanInv
  <2>2. PICK D \in SUBSET fiber[c][f].todo :
          /\ index' = [index EXCEPT ![c] = WithDocs(@, D)]
          /\ Step(c, f, [fiber[c][f] EXCEPT !.todo = @ \ D])
    BY <1>5 DEF SyncBatch
  <2>3. fiber'[c][f].pc = "snapshot" /\ fiber'[c][f].cursor = fiber[c][f].cursor
    <3>1. fiber'[c][f] = [fiber[c][f] EXCEPT !.todo = @ \ D]
      BY <1>1, <2>2, StepValue
    <3> QED BY <1>1, <2>1, <3>1 DEF FiberState
  <2>4. index'[c] = WithDocs(index[c], D)
    BY <1>1, <2>2 DEF StoreType
  <2>5. ~coll[c].synced
    BY <2>1, BusyRow DEF InitialStep, Busy
  <2>6. ASSUME NEW k \in Key, table[k] = Absent, Unapplied(fiber[c][f].cursor, k) = {}
        PROVE  index'[c][k] = Absent
    <3>1. ~\E v \in Val : <<k, v>> \in D
      BY <2>1, <2>6, ConstantsAssumption DEF IInv, FillingInv
    <3>2. index[c][k] = Absent
      BY <2>1, <2>6 DEF CleanInv, Clean
    <3> QED BY <2>4, <3>1, <3>2 DEF WithDocs
  <2>7. Clean(fiber[c][f].cursor, c)'
    BY <2>1, <2>3, <2>6 DEF Clean, Unapplied, sourceVars
  <2> QED BY <2>1, <2>3, <2>5, <2>7 DEF CleanInv
<1>6. CASE SyncFinish(c, f)
  <2>1. /\ fiber[c][f].pc = "snapshot" /\ UNCHANGED <<sourceVars, index, past>>
    BY <1>6 DEF SyncFinish
  <2> SUFFICES ASSUME past[c] = {} PROVE CleanInv(c, f)'
    BY <2>1 DEF CleanInv
  <2>2. fiber'[c][f].pc = "timer"
    BY <1>1, <1>6, StepValue DEF SyncFinish, ArmedFiber, IdleFiber
  <2>3. coll'[c].cursor = fiber[c][f].cursor
    <3>1. Live(c)
      BY <2>1, BusyRow DEF InitialStep, Busy, Live
    <3>2. SetRow(c, [coll[c] EXCEPT !.status = "idle", !.synced = TRUE,
                                    !.cursor = fiber[c][f].cursor])
      BY <1>6 DEF SyncFinish
    <3>3. coll'[c] = [coll[c] EXCEPT !.status = "idle", !.synced = TRUE,
                                     !.cursor = fiber[c][f].cursor]
      BY <1>1, <3>1, <3>2, SetRowValue
    <3>4. coll[c] \in CollRow
      BY <1>1 DEF StoreType
    <3> QED BY <3>3, <3>4 DEF CollRow
  <2>4. Clean(fiber[c][f].cursor, c)
    BY <2>1 DEF CleanInv
  <2> QED BY <2>1, <2>2, <2>3, <2>4 DEF CleanInv, Clean, Unapplied, sourceVars
<1> QED BY <1>2, <1>3, <1>4, <1>5, <1>6 DEF InitialSync

(* What fails, and what a restart leaves, fills nothing.                   *)
LEMMA CleanFault ==
  ASSUME TypeOK, NEW c \in Coll, NEW f \in Fiber, CleanInv(c, f), Fault(c, f) \/ Restart
  PROVE  CleanInv(c, f)'
<1>1. StoreType /\ WorkerType
  BY DEF TypeOK
<1>2. UNCHANGED <<sourceVars, index, past>>
  BY DEF Fault, SyncFails, PollFails, FiberDies, Restart
<1>3. coll'[c].synced = coll[c].synced /\ coll'[c].cursor = coll[c].cursor
  BY <1>1, StatusValue DEF Fault, SyncFails, PollFails, FiberDies, Restart
<1>4. fiber'[c][f].pc \in {"idle", "timer"}
  <2>1. CASE SyncFails(c, f) \/ FiberDies(c, f)
    <3>1. Step(c, f, IdleFiber)
      BY <2>1 DEF SyncFails, FiberDies
    <3> QED BY <1>1, <3>1, StepValue DEF IdleFiber
  <2>2. CASE PollFails(c, f)
    BY <1>1, <2>2, RescheduleValue DEF PollFails
  <2>3. CASE Restart
    BY <2>3 DEF Restart, IdleFiber
  <2> QED BY <2>1, <2>2, <2>3 DEF Fault
<1> QED BY <1>2, <1>3, <1>4, CleanFrame DEF sourceVars

(* A poll sends a deletion before the outbox forgets it.                   *)
LEMMA CleanPoll ==
  ASSUME TypeOK, NEW c \in Coll, NEW f \in Fiber, Alone(c, f), IInv(c, f), CleanInv(c, f),
         Poll(c, f)
  PROVE  CleanInv(c, f)'
<1> DEFINE batch == fiber[c][f].batch
<1>1. StoreType /\ WorkerType /\ fiber[c][f] \in FiberState
  BY FiberStateType DEF TypeOK
<1>2. CASE \/ AddPoll(c, f) \/ Tick(c, f) \/ ReadCursor(c, f) \/ ReadSkips(c, f)
           \/ PollOutbox(c, f) \/ PollEmpty(c, f)
  <2>1. UNCHANGED <<sourceVars, coll, index, past>>
    BY <1>2 DEF AddPoll, Tick, ReadCursor, ReadSkips, PollOutbox, PollEmpty
  <2>2. fiber'[c][f].pc \notin {"open", "snapshot"}
    <3>1. CASE AddPoll(c, f)
      BY <1>1, <3>1, GotoValue DEF AddPoll
    <3>2. CASE Tick(c, f)
      <4>1. Step(c, f, IdleFiber) \/ Goto(c, f, "read")
        BY <3>2, Zenon DEF Tick
      <4> QED BY <1>1, <4>1, StepValue, GotoValue DEF IdleFiber
    <3>3. CASE ReadCursor(c, f)
      <4>1. fiber'[c][f] = [fiber[c][f] EXCEPT !.pc = "poll", !.cursor = coll[c].cursor]
        BY <1>1, <3>3, StepValue DEF ReadCursor
      <4> QED BY <1>1, <4>1 DEF FiberState
    <3>4. CASE PollOutbox(c, f)
      <4>1. PICK b : Step(c, f, [fiber[c][f] EXCEPT !.pc = "upsert", !.batch = b])
        BY <3>4 DEF PollOutbox
      <4>2. fiber'[c][f] = [fiber[c][f] EXCEPT !.pc = "upsert", !.batch = b]
        BY <1>1, <4>1, StepValue
      <4> QED BY <1>1, <4>2 DEF FiberState
    <3>5. CASE ReadSkips(c, f) \/ PollEmpty(c, f)
      BY <1>1, <3>5, RescheduleValue DEF ReadSkips, PollEmpty
    <3> QED BY <1>2, <3>1, <3>2, <3>3, <3>4, <3>5
  <2> QED BY <2>1, <2>2, CleanFrame DEF sourceVars
<1>3. CASE SendUpserts(c, f) \/ SendDeletes(c, f)
  <2>1. fiber[c][f].pc \in {"upsert", "delete"} /\ UNCHANGED <<sourceVars, coll, past>>
    BY <1>3 DEF SendUpserts, SendDeletes
  <2> SUFFICES ASSUME past[c] = {} PROVE CleanInv(c, f)'
    BY <2>1 DEF CleanInv
  <2>2. fiber'[c][f].pc \in {"delete", "gc"}
    BY <1>1, <1>3, GotoValue DEF SendUpserts, SendDeletes
  <2>3. index'[c] = WithUpserts(index[c], batch) \/ index'[c] = WithDeletes(index[c], batch)
    BY <1>1, <1>3 DEF SendUpserts, SendDeletes, StoreType
  <2>4. \A e \in batch : e \in outbox /\ e.id > coll[c].cursor
    BY <2>1 DEF IInv, PollingInv
  <2>5. ASSUME NEW k \in Key, Unapplied(coll[c].cursor, k) = {}
        PROVE  index'[c][k] = index[c][k]
    <3>1. \A e \in batch : e.key # k
      BY <2>4, <2>5 DEF Unapplied
    <3> QED BY <2>3, <3>1 DEF WithUpserts, WithDeletes
  <2>6. coll[c].synced => Clean(coll[c].cursor, c)'
    BY <2>1, <2>5 DEF CleanInv, Clean, Unapplied, sourceVars
  <2> QED BY <2>1, <2>2, <2>6 DEF CleanInv, Clean, Unapplied
<1>4. CASE GcOutbox(c, f)
  <2>1. fiber[c][f].pc = "gc" /\ UNCHANGED <<table, coll, index, past>>
    BY <1>4 DEF GcOutbox
  <2> SUFFICES ASSUME past[c] = {} PROVE CleanInv(c, f)'
    BY <2>1 DEF CleanInv
  <2>2. fiber'[c][f].pc = "save"
    BY <1>1, <1>4, GotoValue DEF GcOutbox
  <2>3. PICK last \in batch : IsLast(last, batch) /\ outbox' = {e \in outbox : e.id > last.id}
    BY <1>4 DEF GcOutbox
  <2>4. /\ \A d \in outbox : coll[c].cursor < d.id /\ d.id <= last.id => d \in batch
        /\ \A e \in batch : e \in outbox /\ (LastOfKey(e, batch) => index[c][e.key] = e.val)
        /\ coll[c].synced
    BY <2>1, BusyRow DEF IInv, PollingInv, PollStep, Busy
  <2>5. TailCurrent(coll[c].cursor) /\ Clean(coll[c].cursor, c)
    BY <2>4 DEF IInv, FilledInv, CleanInv
  <2>6. ASSUME NEW k \in Key, table[k] = Absent, Unapplied(coll[c].cursor, k)' = {}
        PROVE  index[c][k] = Absent
    <3>1. CASE Unapplied(coll[c].cursor, k) = {}
      BY <2>5, <2>6, <3>1 DEF Clean
    <3>2. CASE Unapplied(coll[c].cursor, k) # {}
      <4>1. PICK x \in outbox : x.id > coll[c].cursor /\ x.key = k
        BY <3>2 DEF Unapplied
      <4>2. PICK d \in outbox : d.key = k /\ LastOfKey(d, outbox)
        BY <4>1 DEF IInv, SourceInv, OutboxInv
      <4>3. d.id >= x.id /\ d.id > coll[c].cursor /\ d.id \in Nat /\ last.id \in Nat
        BY <2>4, <4>1, <4>2, Plain DEF LastOfKey
      <4>4. ~(d.id > last.id)
        BY <2>1, <2>3, <2>6, <4>2, <4>3 DEF Unapplied
      <4>5. d \in batch /\ LastOfKey(d, batch)
        BY <2>4, <4>2, <4>3, <4>4 DEF LastOfKey
      <4>6. d.val = Absent
        BY <2>5, <2>6, <4>2, <4>3 DEF TailCurrent
      <4> QED BY <2>4, <4>2, <4>5, <4>6
    <3> QED BY <3>1, <3>2
  <2>7. Clean(coll[c].cursor, c)'
    BY <2>1, <2>6 DEF Clean
  <2> QED BY <2>1, <2>2, <2>7 DEF CleanInv, Clean, Unapplied
<1>5. CASE SaveCursor(c, f)
  <2>1. fiber[c][f].pc = "save" /\ UNCHANGED <<sourceVars, index, past>> /\ Reschedule(c, f)
    BY <1>5 DEF SaveCursor
  <2> SUFFICES ASSUME past[c] = {} PROVE CleanInv(c, f)'
    BY <2>1 DEF CleanInv
  <2>2. fiber'[c][f].pc \in {"idle", "timer"}
    BY <1>1, <2>1, RescheduleValue
  <2>3. PICK last \in batch :
          SetRow(c, [coll[c] EXCEPT !.status = "idle", !.synced = TRUE, !.cursor = last.id])
    BY <1>5 DEF SaveCursor
  <2>4. coll'[c].cursor = last.id /\ coll[c].synced
    <3>1. Live(c) /\ coll[c].synced
      BY <2>1, BusyRow DEF PollStep, Busy, Live
    <3>2. coll'[c] = [coll[c] EXCEPT !.status = "idle", !.synced = TRUE, !.cursor = last.id]
      BY <1>1, <2>3, <3>1, SetRowValue
    <3>3. coll[c] \in CollRow
      BY <1>1 DEF StoreType
    <3> QED BY <3>1, <3>2, <3>3 DEF CollRow
  <2>5. \A d \in outbox : last.id < d.id
    BY <2>1 DEF IInv, PollingInv
  <2>6. \A k \in Key : Unapplied(last.id, k) = {} => Unapplied(coll[c].cursor, k) = {}
    BY <2>5, Plain DEF Unapplied
  <2>7. Clean(last.id, c)
    BY <2>4, <2>6 DEF CleanInv, Clean
  <2>8. Clean(last.id, c)'
    BY <2>1, <2>7 DEF Clean, Unapplied, sourceVars
  <2> QED BY <2>2, <2>4, <2>8 DEF CleanInv, Clean, Unapplied
<1> QED BY <1>2, <1>3, <1>4, <1>5 DEF Poll

(* As long as nothing refills the index, a collection that is idle with    *)
(* nothing to read has no document of a row that was deleted, after any    *)
(* failures, restarts and pauses.                                          *)
THEOREM DeletedRowsLeaveTheIndex ==
  ASSUME NEW c, NEW f, Alone(c, f)
  PROVE  Spec => []NoStaleAfterFirstFill
<1>1. c \in Coll /\ f \in Fiber /\ Coll = {c} /\ Fiber = {f}
  BY DEF Alone
<1>2. Init => CleanInv(c, f)
  BY <1>1 DEF Init, CleanInv, IdleFiber
<1>3. TypeOK /\ InductiveInv /\ CleanInv(c, f) /\ [Next]_vars => CleanInv(c, f)'
  <2> SUFFICES ASSUME TypeOK, InductiveInv, CleanInv(c, f), [Next]_vars PROVE CleanInv(c, f)'
    OBVIOUS
  <2>1. IInv(c, f)
    BY <1>1 DEF InductiveInv
  <2>2. CASE Source
    BY <1>1, <2>1, <2>2, CleanSource
  <2>3. ASSUME NEW d \in Coll, Admin(d) PROVE CleanInv(c, f)'
    <3>1. Admin(c)
      BY <1>1, <2>3
    <3> QED BY <1>1, <2>1, <3>1, CleanRequest
  <2>4. ASSUME NEW d \in Coll, NEW g \in Fiber, InitialSync(d, g) \/ Poll(d, g) \/ Fault(d, g)
        PROVE  CleanInv(c, f)'
    <3>1. InitialSync(c, f) \/ Poll(c, f) \/ Fault(c, f)
      BY <1>1, <2>4
    <3> QED BY <1>1, <2>1, <3>1, CleanFill, CleanPoll, CleanFault
  <2>5. CASE Restart
    BY <1>1, <2>5, CleanFault
  <2>6. CASE UNCHANGED vars
    BY <1>1, <2>6, CleanFrame DEF vars, sourceVars, workerVars
  <2> QED BY <2>2, <2>3, <2>4, <2>5, <2>6 DEF Next
<1>4. CleanInv(c, f) => NoStaleAfterFirstFill
  <2> SUFFICES ASSUME CleanInv(c, f), NEW d \in Coll, Quiescent(d), past[d] = {},
                      NEW k \in Key, table[k] = Absent
               PROVE  index[d][k] = Absent
    BY DEF NoStaleAfterFirstFill
  <2>1. d = c
    BY <1>1
  <2>2. Unapplied(coll[d].cursor, k) = {}
    BY DEF Quiescent, Pending, Unapplied
  <2> QED BY <2>1, <2>2 DEF CleanInv, Clean, Quiescent
<1> QED BY <1>2, <1>3, <1>4, TypeCorrect, InductiveCorrect, PTL DEF Spec

=============================================================================
