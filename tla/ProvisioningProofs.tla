------------------------ MODULE ProvisioningProofs ------------------------
(***************************************************************************)
(* Proofs about Provisioning: the types of its state, that a stored        *)
(* password opens its database, that the key of the project is known, that *)
(* an enabled collection is followed and that the limits are kept, for any *)
(* number of requests at a time, collections, tables, indexes and faults.  *)
(*                                                                         *)
(* Outside of doubt a request works alone on what it names: each invariant *)
(* is framed by the steps of the requests that work on something else, and *)
(* the steps of the one that works on the thing are looked at one by one.  *)
(***************************************************************************)
EXTENDS Provisioning, FiniteSetTheorems, TLAPS
-----------------------------------------------------------------------------
(* The requests: what a step leaves of them *)

Typed == req \in [Handler -> {None} \cup Request]

(* After the step, the request of h is at s with this id, secret and value
   read, and the other requests are what they were. *)
Now(h, s, i, k, w) ==
  /\ Typed'
  /\ \A g \in Handler \ {h} : req'[g] = req[g]
  /\ req'[h] \in Request
  /\ req'[h].kind = req[h].kind /\ req'[h].on = req[h].on /\ req'[h].value = req[h].value
  /\ req'[h].step = s /\ req'[h].id = i /\ req'[h].secret = k /\ req'[h].was = w

Goes(h, s) == Now(h, s, req[h].id, req[h].secret, req[h].was)

(* After the step, the request of h is over. *)
Over(h) == Typed' /\ req'[h] = None /\ \A g \in Handler \ {h} : req'[g] = req[g]

(* The bounds are numbers.                                                 *)
LEMMA Bounds ==
  /\ MaxSynced \in Nat /\ MaxVectors \in Nat /\ MaxRequests \in Nat /\ MaxFaults \in Nat
  /\ 0 \in 0..MaxRequests
BY ProvisioningAssumption

(* A request in flight is a request.                                       *)
LEMMA InFlight == ASSUME Typed, NEW h \in Handler, req[h] # None PROVE req[h] \in Request
BY DEF Typed

(* A request that replaces that of h.                                      *)
LEMMA Replacing ==
  ASSUME Typed, NEW h \in Handler, NEW m \in {None} \cup Request,
         req' = [req EXCEPT ![h] = m]
  PROVE  Typed' /\ req'[h] = m /\ \A g \in Handler \ {h} : req'[g] = req[g]
BY DEF Typed

LEMMA Ending == ASSUME Typed, NEW h \in Handler, End(h) PROVE Over(h)
BY Replacing DEF End, Over

(* The fields of a request are changed one by one.                         *)
LEMMA FieldsOf ==
  ASSUME NEW m \in Request, NEW s \in Step, NEW i \in 0..MaxRequests,
         NEW k \in 0..MaxRequests, NEW w \in BOOLEAN
  PROVE  /\ [m EXCEPT !.step = s] \in Request
         /\ [m EXCEPT !.step = s, !.id = i] \in Request
         /\ [m EXCEPT !.step = s, !.secret = k] \in Request
         /\ [m EXCEPT !.step = s, !.id = i, !.secret = k] \in Request
         /\ [m EXCEPT !.step = s, !.id = i, !.was = w] \in Request
BY DEF Request

(* What each of the five ways to move on makes of the request.             *)
LEMMA Going ==
  ASSUME Typed, NEW h \in Handler, req[h] # None, NEW s \in Step, Go(h, s)
  PROVE  Goes(h, s)
<1>1. req[h] \in Request
  BY InFlight
<1> DEFINE m == [req[h] EXCEPT !.step = s]
<1>2. req' = [req EXCEPT ![h] = m]
  BY DEF Go, Typed
<1>3. m \in Request
  BY <1>1, FieldsOf, Bounds
<1>4. /\ m.kind = req[h].kind /\ m.on = req[h].on /\ m.value = req[h].value
      /\ m.step = s /\ m.id = req[h].id /\ m.secret = req[h].secret /\ m.was = req[h].was
  BY <1>1 DEF Request
<1> HIDE DEF m
<1> QED
  BY <1>2, <1>3, <1>4, Replacing DEF Goes, Now

LEMMA Identifying ==
  ASSUME Typed, NEW h \in Handler, req[h] # None, NEW s \in Step, NEW i \in 0..MaxRequests,
         req' = [req EXCEPT ![h].step = s, ![h].id = i]
  PROVE  Now(h, s, i, req[h].secret, req[h].was)
<1>1. req[h] \in Request
  BY InFlight
<1> DEFINE m == [req[h] EXCEPT !.step = s, !.id = i]
<1>2. req' = [req EXCEPT ![h] = m]
  BY DEF Typed
<1>3. m \in Request
  BY <1>1, FieldsOf, Bounds
<1>4. /\ m.kind = req[h].kind /\ m.on = req[h].on /\ m.value = req[h].value
      /\ m.step = s /\ m.id = i /\ m.secret = req[h].secret /\ m.was = req[h].was
  BY <1>1 DEF Request
<1> HIDE DEF m
<1> QED
  BY <1>2, <1>3, <1>4, Replacing DEF Now

LEMMA Minting ==
  ASSUME Typed, NEW h \in Handler, req[h] # None, NEW s \in Step, NEW k \in 0..MaxRequests,
         req' = [req EXCEPT ![h].step = s, ![h].secret = k]
  PROVE  Now(h, s, req[h].id, k, req[h].was)
<1>1. req[h] \in Request
  BY InFlight
<1> DEFINE m == [req[h] EXCEPT !.step = s, !.secret = k]
<1>2. req' = [req EXCEPT ![h] = m]
  BY DEF Typed
<1>3. m \in Request
  BY <1>1, FieldsOf, Bounds
<1>4. /\ m.kind = req[h].kind /\ m.on = req[h].on /\ m.value = req[h].value
      /\ m.step = s /\ m.id = req[h].id /\ m.secret = k /\ m.was = req[h].was
  BY <1>1 DEF Request
<1> HIDE DEF m
<1> QED
  BY <1>2, <1>3, <1>4, Replacing DEF Now

LEMMA Noting ==
  ASSUME Typed, NEW h \in Handler, req[h] # None, NEW s \in Step, NEW i \in 0..MaxRequests,
         NEW k \in 0..MaxRequests,
         req' = [req EXCEPT ![h].step = s, ![h].id = i, ![h].secret = k]
  PROVE  Now(h, s, i, k, req[h].was)
<1>1. req[h] \in Request
  BY InFlight
<1> DEFINE m == [req[h] EXCEPT !.step = s, !.id = i, !.secret = k]
<1>2. req' = [req EXCEPT ![h] = m]
  BY DEF Typed
<1>3. m \in Request
  BY <1>1, FieldsOf, Bounds
<1>4. /\ m.kind = req[h].kind /\ m.on = req[h].on /\ m.value = req[h].value
      /\ m.step = s /\ m.id = i /\ m.secret = k /\ m.was = req[h].was
  BY <1>1 DEF Request
<1> HIDE DEF m
<1> QED
  BY <1>2, <1>3, <1>4, Replacing DEF Now

LEMMA Comparing ==
  ASSUME Typed, NEW h \in Handler, req[h] # None, NEW s \in Step, NEW i \in 0..MaxRequests,
         NEW w \in BOOLEAN,
         req' = [req EXCEPT ![h].step = s, ![h].id = i, ![h].was = w]
  PROVE  Now(h, s, i, req[h].secret, w)
<1>1. req[h] \in Request
  BY InFlight
<1> DEFINE m == [req[h] EXCEPT !.step = s, !.id = i, !.was = w]
<1>2. req' = [req EXCEPT ![h] = m]
  BY DEF Typed
<1>3. m \in Request
  BY <1>1, FieldsOf, Bounds
<1>4. /\ m.kind = req[h].kind /\ m.on = req[h].on /\ m.value = req[h].value
      /\ m.step = s /\ m.id = i /\ m.secret = req[h].secret /\ m.was = w
  BY <1>1 DEF Request
<1> HIDE DEF m
<1> QED
  BY <1>2, <1>3, <1>4, Replacing DEF Now
-----------------------------------------------------------------------------
(* The steps of each kind of request, and what it is about *)

(* What a request works on, how far it can be, and what it noted.          *)
Fits(r) ==
  /\ r.kind \in {"create", "delete"} => r.on = "project"
  /\ r.kind \in {"provision", "deprovision"} => r.on \in Type
  /\ r.kind \in {"collect", "switch", "drop", "resync"} => r.on \in Collection
  /\ r.kind \in {"vector", "unvector"} => r.on = "vectors"
  /\ r.kind = "create" => r.step \in {"read", "row"}
  /\ r.kind = "delete" => r.step \in {"read", "indexes", "key", "folder", "row"}
  /\ r.kind \in {"provision", "deprovision"} => r.step \in {"read", "user", "data", "record"}
  /\ r.kind = "collect" =>
       r.step \in {"read", "key", "mint", "note", "count", "row", "trigger", "start"}
  /\ r.kind = "switch" => r.step \in {"read", "count", "row", "start", "stop"}
  /\ r.kind = "drop" => r.step \in {"read", "stop", "trigger", "index", "row"}
  /\ r.kind = "resync" => r.step \in {"read", "stop", "start"}
  /\ r.kind = "vector" => r.step \in {"read", "build"}
  /\ r.kind = "unvector" => r.step = "read"
  /\ r.step # "read" /\ r.kind \notin {"create", "vector", "unvector"} => r.id # 0
  /\ r.step # "read" /\ r.kind = "provision" => r.secret # 0
  /\ r.step = "note" => r.secret # 0
  /\ r.kind = "switch" /\ r.step = "count" => r.value /\ ~r.was

(* The requests in flight fit, and were sent.                              *)
FitInv == \A h \in Handler : req[h] # None => Fits(req[h]) /\ sent # 0

(* The rows are typed, and every one belongs to the project.               *)
StoreType ==
  /\ project \in 0..MaxRequests /\ folder \in BOOLEAN
  /\ record \in [Type -> 0..MaxRequests] /\ user \in [Type -> 0..MaxRequests]
  /\ data \in [Type -> BOOLEAN]
  /\ key \in 0..MaxRequests /\ keys \subseteq 1..MaxRequests
  /\ rows \in [Collection -> BOOLEAN \cup {None}]
  /\ trigger \subseteq Table /\ index \subseteq Collection
  /\ worker \subseteq (1..MaxRequests) \X Collection
  /\ vectors \subseteq Vector
  /\ project = 0 =>
       /\ key = 0 /\ \A t \in Type : record[t] = 0
       /\ \A c \in Collection : rows[c] = None

PastType == sent \in 0..MaxRequests /\ faults \in 0..MaxFaults /\ doubt \subseteq Thing

Shape == Typed /\ FitInv /\ StoreType /\ PastType

(* A step of the request of h: it ends, or goes on with the same thing; the
   id it notes is that of the project, and it notes it when it starts.     *)
Advance(h) ==
  /\ req[h] # None
  /\ Typed'
  /\ \A g \in Handler \ {h} : req'[g] = req[g]
  /\ req'[h] # None =>
       /\ req'[h] \in Request /\ Fits(req'[h])
       /\ req'[h].step # "read"
       /\ req'[h].kind = req[h].kind /\ req'[h].on = req[h].on /\ req'[h].value = req[h].value
       /\ req[h].step # "read" => req'[h].id = req[h].id /\ req'[h].was = req[h].was
       /\ req[h].step = "read" /\ req[h].kind \notin {"create", "vector", "unvector"}
            => req'[h].id = project
       /\ req[h].step \notin {"read", "mint"} => req'[h].secret = req[h].secret
       /\ req'[h].step = "note" => req[h].step = "mint"

LEMMA OverAdvances == ASSUME NEW h \in Handler, req[h] # None, Over(h) PROVE Advance(h)
BY DEF Over, Advance

(* A request that goes on fits if its kind has such a step.                *)
LEMMA GoesAdvances ==
  ASSUME NEW h \in Handler, req[h] # None, req[h] \in Request, NEW s \in Step, Goes(h, s),
         req'[h] # None => Fits(req'[h]),
         s \notin {"read", "note"}, req[h].step = "read" => req[h].kind \in {"create", "vector"}
  PROVE  Advance(h)
BY DEF Goes, Now, Advance

LEMMA NowAdvances ==
  ASSUME NEW h \in Handler, req[h] # None, NEW s \in Step, NEW i, NEW k, NEW w,
         Now(h, s, i, k, w), Fits(req'[h]), s # "read",
         \/ req[h].step = "read" /\ i = project /\ s # "note"
         \/ req[h].step = "mint" /\ i = req[h].id /\ w = req[h].was
  PROVE  Advance(h)
BY DEF Now, Advance

(* The steps that a request of each kind goes on to.                       *)
Along(h, s) ==
  \/ s = "row" /\ req[h].kind = "create"
  \/ /\ req[h].step # "read"
     /\ \/ req[h].kind = "delete" /\ s \in {"indexes", "key", "folder", "row"}
        \/ req[h].kind = "provision" /\ s \in {"data", "record"}
        \/ req[h].kind = "deprovision" /\ s \in {"user", "data", "record"}
        \/ req[h].kind = "collect" /\ s \in {"count", "mint", "row", "trigger", "start"}
        \/ req[h].kind = "switch" /\ s \in {"row", "start", "stop"}
        \/ req[h].kind = "drop" /\ s \in {"trigger", "index", "row"}
        \/ req[h].kind = "resync" /\ s = "start"
  \/ s = "build" /\ req[h].kind = "vector"

(* Fits, read off the fields of the request after the step.                *)
LEMMA FitsGoes ==
  ASSUME NEW h \in Handler, NEW s \in Step, Goes(h, s), Fits(req[h]), Along(h, s)
  PROVE  Fits(req'[h])
<1>1. /\ req'[h].kind = req[h].kind /\ req'[h].on = req[h].on
      /\ req'[h].step = s /\ req'[h].id = req[h].id /\ req'[h].secret = req[h].secret
  BY DEF Goes, Now
<1> QED
  BY <1>1 DEF Fits, Along

LEMMA FitsNow ==
  ASSUME NEW h \in Handler, NEW s \in Step, NEW i, NEW k, NEW w, Now(h, s, i, k, w),
         Fits(req[h]), i # 0,
         \/ req[h].kind = "delete" /\ s \in {"folder", "indexes"}
         \/ req[h].kind = "provision" /\ s = "user" /\ k # 0
         \/ req[h].kind = "deprovision" /\ s \in {"user", "data"}
         \/ req[h].kind = "collect" /\ s = "key"
         \/ req[h].kind = "collect" /\ s = "note" /\ k # 0
         \/ req[h].kind = "switch" /\ s = "row"
         \/ req[h].kind = "switch" /\ s = "count" /\ req[h].value /\ ~w
         \/ req[h].kind \in {"drop", "resync"} /\ s = "stop"
  PROVE  Fits(req'[h])
<1>1. /\ req'[h].kind = req[h].kind /\ req'[h].on = req[h].on /\ req'[h].value = req[h].value
      /\ req'[h].step = s /\ req'[h].id = i /\ req'[h].secret = k /\ req'[h].was = w
  BY DEF Now
<1> QED
  BY <1>1 DEF Fits

(* A request that only moves on, or ends.                                  *)
Plain(h) == End(h) \/ \E s \in Step : Go(h, s) /\ Along(h, s)

LEMMA PlainAdvances ==
  ASSUME Shape, NEW h \in Handler, req[h] # None, Plain(h)
  PROVE  Advance(h)
<1>1. Typed /\ Fits(req[h]) /\ req[h] \in Request
  BY InFlight DEF Shape, FitInv
<1>2. CASE End(h)
  BY <1>1, <1>2, Ending, OverAdvances
<1>3. CASE ~End(h)
  <2>1. PICK s \in Step : Go(h, s) /\ Along(h, s)
    BY <1>3 DEF Plain
  <2>2. Goes(h, s)
    BY <1>1, <2>1, Going
  <2>3. Fits(req'[h])
    BY <1>1, <2>1, <2>2, FitsGoes
  <2> QED
    BY <1>1, <2>1, <2>2, <2>3, GoesAdvances DEF Along
<1> QED
  BY <1>2, <1>3
-----------------------------------------------------------------------------
(* Every action of a request is such a step *)

LEMMA ProjectPlain ==
  ASSUME Shape, NEW h \in Handler,
         \/ CreateFolder(h) \/ CreateRow(h) \/ DeleteIndexes(h) \/ DeleteKey(h)
         \/ DeleteFolder(h) \/ DeleteRow(h)
  PROVE  req[h] # None /\ Plain(h)
<1>1. {"row", "key", "folder"} \subseteq Step
  BY DEF Step
<1>2. CASE CreateFolder(h)
  BY <1>1, <1>2 DEF CreateFolder, At, Plain, Along
<1>3. CASE CreateRow(h) \/ DeleteRow(h)
  BY <1>3 DEF CreateRow, DeleteRow, At, Plain
<1>4. CASE DeleteIndexes(h)
  BY <1>1, <1>4 DEF DeleteIndexes, At, Plain, Along
<1>5. CASE DeleteKey(h)
  BY <1>1, <1>5 DEF DeleteKey, At, Plain, Along
<1>6. CASE DeleteFolder(h)
  BY <1>1, <1>6 DEF DeleteFolder, At, Plain, Along
<1> QED
  BY <1>2, <1>3, <1>4, <1>5, <1>6

LEMMA DatabasePlain ==
  ASSUME Shape, NEW h \in Handler,
         \/ CreateUser(h) \/ CreateData(h) \/ Record(h)
         \/ DropData(h) \/ DropUser(h) \/ DropRecord(h)
  PROVE  req[h] # None /\ Plain(h)
<1>1. {"user", "data", "record"} \subseteq Step
  BY DEF Step
<1>2. CASE CreateUser(h)
  BY <1>1, <1>2 DEF CreateUser, At, Plain, Along
<1>3. CASE Record(h) \/ DropRecord(h)
  BY <1>3 DEF Record, DropRecord, At, Plain
<1>4. CASE CreateData(h)
  BY <1>1, <1>4 DEF CreateData, At, Plain, Along
<1>5. CASE DropData(h)
  BY <1>1, <1>5 DEF DropData, At, Plain, Along
<1>6. CASE DropUser(h)
  BY <1>1, <1>6 DEF DropUser, At, Plain, Along
<1> QED
  BY <1>2, <1>3, <1>4, <1>5, <1>6

LEMMA CollectPlain ==
  ASSUME Shape, NEW h \in Handler,
         \/ ReadKey(h) \/ NoteKey(h) \/ CountSynced(h) \/ InsertRow(h)
         \/ InstallTrigger(h) \/ TakeBack(h) \/ Follow(h)
  PROVE  req[h] # None /\ Plain(h)
<1>1. {"count", "mint", "row", "trigger", "start"} \subseteq Step
  BY DEF Step
<1>2. CASE ReadKey(h)
  BY <1>1, <1>2 DEF ReadKey, At, Plain, Along
<1>3. CASE TakeBack(h) \/ Follow(h)
  BY <1>3 DEF TakeBack, Follow, At, Plain
<1>4. CASE NoteKey(h)
  BY <1>1, <1>4 DEF NoteKey, At, Plain, Along
<1>5. CASE CountSynced(h)
  BY <1>1, <1>5 DEF CountSynced, At, Plain, Along
<1>6. CASE InsertRow(h)
  BY <1>1, <1>6 DEF InsertRow, At, Plain, Along
<1>7. CASE InstallTrigger(h)
  BY <1>1, <1>7 DEF InstallTrigger, At, Plain, Along
<1> QED
  BY <1>2, <1>3, <1>4, <1>5, <1>6, <1>7

LEMMA SwitchPlain ==
  ASSUME Shape, NEW h \in Handler,
         \/ SwitchCount(h) \/ SwitchRow(h) \/ Unfollow(h)
         \/ DropTrigger(h) \/ DropIndex(h) \/ DropRow(h)
  PROVE  req[h] # None /\ Plain(h)
<1>1. {"row", "trigger", "start", "stop", "index"} \subseteq Step
  BY DEF Step
<1>2. CASE SwitchCount(h)
  BY <1>1, <1>2 DEF SwitchCount, At, Plain, Along
<1>3. CASE SwitchRow(h)
  BY <1>1, <1>3 DEF SwitchRow, At, Plain, Along
<1>4. CASE Unfollow(h)
  <2>1. req[h].kind \in {"switch", "resync", "drop"}
    BY <1>4, InFlight DEF Shape, FitInv, Fits, Unfollow, Request, Kind
  <2> QED
    BY <1>1, <1>4, <2>1 DEF Unfollow, Plain, Along
<1>5. CASE DropTrigger(h)
  BY <1>1, <1>5 DEF DropTrigger, At, Plain, Along
<1>6. CASE DropIndex(h)
  BY <1>1, <1>6 DEF DropIndex, At, Plain, Along
<1>7. CASE DropRow(h)
  BY <1>7 DEF DropRow, At, Plain
<1> QED
  BY <1>2, <1>3, <1>4, <1>5, <1>6, <1>7

LEMMA VectorPlain ==
  ASSUME NEW h \in Handler, VectorRead(h) \/ VectorBuild(h) \/ VectorDrop(h)
  PROVE  req[h] # None /\ Plain(h)
<1>1. "build" \in Step
  BY DEF Step
<1> QED
  BY <1>1 DEF VectorRead, VectorBuild, VectorDrop, At, Plain, Along

(* A failure that is swallowed moves on, another ends the request.         *)
LEMMA FailPlain ==
  ASSUME NEW h \in Handler, Fail(h)
  PROVE  req[h] # None /\ Plain(h)
<1>1. {"row", "folder", "data", "index"} \subseteq Step
  BY DEF Step
<1> QED
  BY <1>1 DEF Fail, Swallowed, Plain, Along

(* The requests that start to work: they note the id of the project.       *)
LEMMA ReadAdvances ==
  ASSUME Shape, NEW h \in Handler,
         \/ DeleteRead(h) \/ ProvisionRead(h) \/ DeprovisionRead(h)
         \/ CollectRead(h) \/ SwitchRead(h) \/ RowRead(h)
  PROVE  Advance(h)
<1>1. Typed /\ StoreType /\ PastType
  BY DEF Shape
<1>2. req[h] # None /\ req[h].step = "read"
  BY DEF DeleteRead, ProvisionRead, DeprovisionRead, CollectRead, SwitchRead, RowRead, At
<1>3. req[h] \in Request /\ Fits(req[h]) /\ sent # 0
  BY <1>1, <1>2, InFlight DEF Shape, FitInv
<1>4. CASE End(h)
  BY <1>1, <1>2, <1>4, Ending, OverAdvances
<1>5. project \in 0..MaxRequests /\ key \in 0..MaxRequests /\ sent \in 0..MaxRequests
  BY <1>1 DEF StoreType, PastType
<1>6. {"folder", "indexes", "user", "data", "key", "count", "row", "stop"} \subseteq Step
  BY DEF Step
<1>7. CASE ~End(h) /\ DeleteRead(h)
  <2> DEFINE s == IF key = 0 THEN "folder" ELSE "indexes"
  <2>1. s \in Step /\ s \in {"folder", "indexes"}
    BY <1>6
  <2>2. req' = [req EXCEPT ![h].step = s, ![h].id = project, ![h].secret = key] /\ project # 0
        /\ req[h].kind = "delete"
    BY <1>7 DEF DeleteRead, At
  <2> HIDE DEF s
  <2>3. Now(h, s, project, key, req[h].was)
    BY <1>1, <1>2, <1>5, <2>1, <2>2, Noting
  <2> QED
    BY <1>2, <1>3, <2>1, <2>2, <2>3, FitsNow, NowAdvances
<1>8. CASE ~End(h) /\ ProvisionRead(h)
  <2>1. req' = [req EXCEPT ![h].step = "user", ![h].id = project, ![h].secret = sent]
        /\ project # 0 /\ req[h].kind = "provision"
    BY <1>8 DEF ProvisionRead, At
  <2>2. Now(h, "user", project, sent, req[h].was)
    BY <1>1, <1>2, <1>5, <1>6, <2>1, Noting
  <2> QED
    BY <1>2, <1>3, <1>6, <2>1, <2>2, FitsNow, NowAdvances
<1>9. CASE ~End(h) /\ DeprovisionRead(h)
  <2> DEFINE t == req[h].on
             s == IF t = "mongodb" THEN "user" ELSE "data"
  <2>1. s \in Step /\ s \in {"user", "data"}
    BY <1>6
  <2>2. req' = [req EXCEPT ![h].step = s, ![h].id = project, ![h].secret = record[t]]
        /\ record[t] # 0 /\ req[h].kind = "deprovision"
    BY <1>9 DEF DeprovisionRead, At
  <2>3. record[t] \in 0..MaxRequests /\ project # 0
    BY <1>1, <1>3, <2>2 DEF Fits, StoreType
  <2> HIDE DEF s
  <2>4. Now(h, s, project, record[t], req[h].was)
    BY <1>1, <1>2, <1>5, <2>1, <2>2, <2>3, Noting
  <2> QED
    BY <1>2, <1>3, <2>1, <2>2, <2>3, <2>4, FitsNow, NowAdvances
<1>10. CASE ~End(h) /\ CollectRead(h)
  <2>1. req' = [req EXCEPT ![h].step = "key", ![h].id = project]
        /\ project # 0 /\ req[h].kind = "collect"
    BY <1>10 DEF CollectRead, At
  <2>2. Now(h, "key", project, req[h].secret, req[h].was)
    BY <1>1, <1>2, <1>5, <1>6, <2>1, Identifying
  <2> QED
    BY <1>2, <1>3, <1>6, <2>1, <2>2, FitsNow, NowAdvances
<1>11. CASE ~End(h) /\ SwitchRead(h)
  <2> DEFINE c == req[h].on
             s == IF req[h].value /\ ~rows[c] THEN "count" ELSE "row"
  <2>1. s \in Step /\ s \in {"count", "row"} /\ (s = "count" => req[h].value /\ ~rows[c])
    BY <1>6
  <2>2. req' = [req EXCEPT ![h].step = s, ![h].id = project, ![h].was = rows[c]]
        /\ rows[c] # None /\ req[h].kind = "switch"
    BY <1>11 DEF SwitchRead, At
  <2>3. rows[c] \in BOOLEAN /\ project # 0
    BY <1>1, <1>3, <2>2 DEF Fits, StoreType
  <2> HIDE DEF s
  <2>4. Now(h, s, project, req[h].secret, rows[c])
    BY <1>1, <1>2, <1>5, <2>1, <2>2, <2>3, Comparing
  <2> QED
    BY <1>2, <1>3, <2>1, <2>2, <2>3, <2>4, FitsNow, NowAdvances
<1>12. CASE ~End(h) /\ RowRead(h)
  <2>1. req' = [req EXCEPT ![h].step = "stop", ![h].id = project]
        /\ rows[req[h].on] # None /\ req[h].kind \in {"drop", "resync"}
    BY <1>12 DEF RowRead, At
  <2>2. project # 0
    BY <1>1, <1>3, <2>1 DEF Fits, StoreType
  <2>3. Now(h, "stop", project, req[h].secret, req[h].was)
    BY <1>1, <1>2, <1>5, <1>6, <2>1, Identifying
  <2> QED
    BY <1>2, <1>3, <1>6, <2>1, <2>2, <2>3, FitsNow, NowAdvances
<1> QED
  BY <1>4, <1>7, <1>8, <1>9, <1>10, <1>11, <1>12

LEMMA MintAdvances ==
  ASSUME Shape, NEW h \in Handler, MintKey(h)
  PROVE  Advance(h) /\ req'[h] # None /\ req'[h].secret = sent
<1>1. req[h] # None /\ req[h].step = "mint" /\ req[h].kind = "collect" /\ Typed
      /\ req' = [req EXCEPT ![h].step = "note", ![h].secret = sent]
  BY DEF MintKey, At, Shape
<1>2. Fits(req[h]) /\ sent # 0 /\ sent \in 0..MaxRequests /\ req[h].id # 0
  BY <1>1 DEF Shape, FitInv, PastType, Fits
<1>3. "note" \in Step
  BY DEF Step
<1>4. Now(h, "note", req[h].id, sent, req[h].was)
  BY <1>1, <1>2, <1>3, Minting
<1>5. Fits(req'[h])
  BY <1>1, <1>2, <1>3, <1>4, FitsNow
<1>6. req'[h] # None /\ req'[h].secret = sent
  BY <1>4, NoneAssumption DEF Now
<1> QED
  BY <1>1, <1>3, <1>4, <1>5, <1>6, NowAdvances

(* The actions of a request that was sent.                                 *)
Works(h) ==
  \/ ProjectNext(h) \/ DatabaseNext(h) \/ CollectionNext(h)
  \/ VectorRead(h) \/ VectorBuild(h) \/ VectorDrop(h) \/ Fail(h)

LEMMA Advances == ASSUME Shape, NEW h \in Handler, Works(h) PROVE Advance(h)
BY PlainAdvances, ProjectPlain, DatabasePlain, CollectPlain, SwitchPlain, VectorPlain, FailPlain,
   ReadAdvances, MintAdvances DEF Works, ProjectNext, DatabaseNext, CollectionNext
-----------------------------------------------------------------------------
(* Types *)

(* A request that is sent.                                                 *)
Fresh(h, r) ==
  /\ r \in Request /\ Fits(r) /\ r.step = "read" /\ r.id = 0
  /\ Typed' /\ req'[h] = r /\ \A g \in Handler \ {h} : req'[g] = req[g]
  /\ doubt' = doubt \cup UNION {Touches(r) \cap Touches(req[g]) : g \in Others(h)}

LEMMA Receiving ==
  ASSUME Typed, NEW h \in Handler, Receive(h)
  PROVE  /\ req[h] = None /\ \E r : Fresh(h, r)
         /\ sent < MaxRequests /\ sent' = sent + 1 /\ UNCHANGED <<store, faults>>
<1>1. PICK k \in Kind, on \in Thing, v \in BOOLEAN :
        /\ k \in {"create", "delete"} => on = "project"
        /\ k \in {"provision", "deprovision"} => on \in Type
        /\ k \in {"collect", "switch", "drop", "resync"} => on \in Collection
        /\ k \in {"vector", "unvector"} => on = "vectors"
        /\ Start(h, [kind |-> k, on |-> on, value |-> v, step |-> "read", id |-> 0, secret |-> 0,
                     was |-> FALSE])
  BY DEF Receive
<1> DEFINE r == [kind |-> k, on |-> on, value |-> v, step |-> "read", id |-> 0, secret |-> 0,
                 was |-> FALSE]
<1>2. r \in Request
  BY Bounds DEF Request, Step
<1>3. r.kind = k /\ r.on = on /\ r.step = "read" /\ r.id = 0
  OBVIOUS
<1>4. Fits(r)
  BY <1>1, <1>3 DEF Fits
<1>5. Start(h, r)
  BY <1>1
<1> HIDE DEF r
<1>6. Typed' /\ req'[h] = r /\ \A g \in Handler \ {h} : req'[g] = req[g]
  BY <1>2, <1>5, Replacing DEF Start
<1> QED
  BY <1>2, <1>3, <1>4, <1>5, <1>6 DEF Fresh, Start

(* What restarting leaves of the requests.                                 *)
LEMMA Restarting ==
  ASSUME Restart
  PROVE  Typed' /\ \A h \in Handler : req'[h] = None
BY DEF Restart, Typed

LEMMA TypedStep == Shape /\ [Next]_vars => Typed'
<1> SUFFICES ASSUME Shape, [Next]_vars PROVE Typed'
  OBVIOUS
<1>1. ASSUME NEW h \in Handler, Receive(h) PROVE Typed'
  BY <1>1, Receiving DEF Shape, Fresh
<1>2. ASSUME NEW h \in Handler, Works(h) PROVE Typed'
  BY <1>2, Advances DEF Advance
<1>3. ASSUME NEW c \in Collection, Feed(c) PROVE Typed'
  BY <1>3 DEF Feed, Shape, Typed
<1>4. CASE UNCHANGED vars
  BY <1>4 DEF vars, Shape, Typed
<1> QED
  BY <1>1, <1>2, <1>3, <1>4, Restarting DEF Next, Works

(* The requests do not count themselves.                                   *)
LEMMA SentKept == ASSUME NEW h \in Handler, Works(h) PROVE sent' = sent
<1>1. CASE ProjectNext(h)
  BY <1>1 DEF ProjectNext, CreateFolder, CreateRow, DeleteRead, DeleteIndexes, DeleteKey,
              DeleteFolder, DeleteRow, past
<1>2. CASE DatabaseNext(h)
  BY <1>2 DEF DatabaseNext, ProvisionRead, CreateUser, CreateData, Record, DeprovisionRead,
              DropData, DropUser, DropRecord, past
<1>3. CASE CollectionNext(h)
  <2>1. CASE CollectRead(h) \/ ReadKey(h) \/ MintKey(h) \/ NoteKey(h) \/ CountSynced(h)
             \/ InsertRow(h) \/ InstallTrigger(h) \/ TakeBack(h) \/ Follow(h)
    BY <2>1 DEF CollectRead, ReadKey, MintKey, NoteKey, CountSynced, InsertRow, InstallTrigger,
                TakeBack, Follow, past
  <2>2. CASE SwitchRead(h) \/ SwitchCount(h) \/ SwitchRow(h) \/ RowRead(h) \/ Unfollow(h)
             \/ DropTrigger(h) \/ DropIndex(h) \/ DropRow(h)
    BY <2>2 DEF SwitchRead, SwitchCount, SwitchRow, RowRead, Unfollow, DropTrigger, DropIndex,
                DropRow, past
  <2> QED
    BY <1>3, <2>1, <2>2 DEF CollectionNext
<1>4. CASE VectorRead(h) \/ VectorBuild(h) \/ VectorDrop(h) \/ Fail(h)
  BY <1>4 DEF VectorRead, VectorBuild, VectorDrop, Fail, past
<1> QED
  BY <1>1, <1>2, <1>3, <1>4 DEF Works

LEMMA FitStep == Shape /\ [Next]_vars => FitInv'
<1> SUFFICES ASSUME Shape, [Next]_vars PROVE FitInv'
  OBVIOUS
<1>0. FitInv /\ Typed /\ sent \in Nat
  BY Bounds DEF Shape, PastType
<1>1. ASSUME NEW h \in Handler, Receive(h) PROVE FitInv'
  <2>1. PICK r : Fresh(h, r)
    BY <1>0, <1>1, Receiving
  <2>2. sent' # 0
    BY <1>0, <1>1, Receiving
  <2>3. ASSUME NEW g \in Handler, req'[g] # None PROVE Fits(req'[g])
    BY <1>0, <2>1, <2>3 DEF Fresh, FitInv
  <2> QED
    BY <2>2, <2>3 DEF FitInv, Fits
<1>2. ASSUME NEW h \in Handler, Works(h) PROVE FitInv'
  <2>1. Advance(h) /\ sent' = sent
    BY <1>2, Advances, SentKept
  <2>2. ASSUME NEW g \in Handler, req'[g] # None PROVE Fits(req'[g]) /\ sent # 0
    BY <1>0, <2>1, <2>2 DEF Advance, FitInv
  <2> QED
    BY <2>1, <2>2 DEF FitInv, Fits
<1>3. ASSUME NEW c \in Collection, Feed(c) PROVE FitInv'
  BY <1>0, <1>3 DEF Feed, past, FitInv, Fits
<1>4. CASE UNCHANGED vars
  BY <1>0, <1>4 DEF vars, past, FitInv, Fits
<1>5. CASE Restart
  BY <1>5, Restarting DEF FitInv
<1> QED
  BY <1>1, <1>2, <1>3, <1>4, <1>5 DEF Next, Works

LEMMA PastStep == Shape /\ [Next]_vars => PastType'
<1> SUFFICES ASSUME Shape, [Next]_vars PROVE PastType'
  OBVIOUS
<1>0. PastType /\ FitInv /\ Typed
  BY DEF Shape
<1>t. \A r : Touches(r) \subseteq Thing \cup {r.on}
  BY DEF Touches, Thing
<1>h. \A r \in Request : Half(r) \subseteq Thing /\ r.on \in Thing
  BY DEF Half, Request
<1>1. ASSUME NEW h \in Handler, Receive(h) PROVE PastType'
  <2>1. PICK r : Fresh(h, r)
    BY <1>0, <1>1, Receiving
  <2>2. Touches(r) \subseteq Thing
    BY <1>t, <1>h, <2>1 DEF Fresh
  <2>3. doubt' \subseteq Thing
    BY <1>0, <2>1, <2>2 DEF Fresh, PastType
  <2>4. sent' \in 0..MaxRequests /\ faults' = faults
    BY <1>0, <1>1, Receiving, Bounds DEF PastType
  <2> QED
    BY <1>0, <2>3, <2>4 DEF PastType
<1>2. ASSUME NEW h \in Handler, Works(h) PROVE PastType'
  <2>1. sent' = sent
    BY <1>2, SentKept
  <2>2. CASE UNCHANGED <<faults, doubt>>
    BY <1>0, <2>1, <2>2 DEF PastType
  <2>3. CASE TakeBack(h)
    BY <1>0, <2>1, <2>3, Bounds DEF PastType, TakeBack
  <2>4. CASE DropRecord(h) \/ DropTrigger(h) \/ DropRow(h)
    BY <1>0, <2>1, <2>4 DEF PastType, DropRecord, DropTrigger, DropRow, Thing
  <2>5. CASE Fail(h)
    <3>1. req[h] \in Request
      BY <1>0, <2>5, InFlight DEF Fail
    <3>2. faults' \in 0..MaxFaults
      BY <1>0, <2>5, Bounds DEF PastType, Fail
    <3>3. doubt' \subseteq Thing
      BY <1>0, <1>h, <2>5, <3>1 DEF PastType, Fail
    <3> QED
      BY <1>0, <2>1, <3>2, <3>3 DEF PastType
  <2>6. CASE ProjectNext(h)
    BY <2>2, <2>6 DEF ProjectNext, CreateFolder, CreateRow, DeleteRead, DeleteIndexes, DeleteKey,
                DeleteFolder, DeleteRow, past
  <2>7. CASE ProvisionRead(h) \/ CreateUser(h) \/ CreateData(h) \/ Record(h) \/ DeprovisionRead(h)
             \/ DropData(h) \/ DropUser(h)
    BY <2>2, <2>7 DEF ProvisionRead, CreateUser, CreateData, Record, DeprovisionRead,
                DropData, DropUser, past
  <2>8. CASE CollectRead(h) \/ ReadKey(h) \/ MintKey(h) \/ NoteKey(h) \/ CountSynced(h)
             \/ InsertRow(h) \/ InstallTrigger(h) \/ Follow(h)
    BY <2>2, <2>8 DEF CollectRead, ReadKey, MintKey, NoteKey, CountSynced, InsertRow,
                InstallTrigger, Follow, past
  <2>9. CASE SwitchRead(h) \/ SwitchCount(h) \/ SwitchRow(h) \/ RowRead(h) \/ Unfollow(h)
             \/ DropIndex(h) \/ VectorRead(h) \/ VectorBuild(h) \/ VectorDrop(h)
    BY <2>2, <2>9 DEF SwitchRead, SwitchCount, SwitchRow, RowRead, Unfollow, DropIndex,
                VectorRead, VectorBuild, VectorDrop, past
  <2> QED
    BY <1>2, <2>3, <2>4, <2>5, <2>6, <2>7, <2>8, <2>9 DEF Works, DatabaseNext, CollectionNext
<1>3. ASSUME NEW c \in Collection, Feed(c) PROVE PastType'
  BY <1>0, <1>3 DEF Feed, past, PastType
<1>4. CASE UNCHANGED vars
  BY <1>0, <1>4 DEF vars, past, PastType
<1>5. CASE Restart
  <2>1. \A g \in Handler : req[g] # None => Half(req[g]) \subseteq Thing
    BY <1>0, <1>h, InFlight
  <2>2. UNION {Half(req[h]) : h \in {g \in Handler : req[g] # None}} \subseteq Thing
    BY <2>1
  <2>3. sent' = sent /\ faults' \in 0..MaxFaults
    BY <1>0, <1>5, Bounds DEF Restart, PastType
  <2>4. doubt' \subseteq Thing
    BY <1>0, <1>5, <2>2 DEF Restart, PastType
  <2> QED
    BY <1>0, <2>3, <2>4 DEF PastType
<1> QED
  BY <1>1, <1>2, <1>3, <1>4, <1>5 DEF Next, Works
LEMMA ProjectStore ==
  ASSUME Shape, NEW h \in Handler, ProjectNext(h)
  PROVE  StoreType'
<1>0. StoreType /\ PastType /\ Typed
  BY DEF Shape
<1>1. req[h] # None /\ sent # 0
  BY DEF ProjectNext, CreateFolder, CreateRow, DeleteRead, DeleteIndexes, DeleteKey,
         DeleteFolder, DeleteRow, At, Shape, FitInv
<1>2. CASE CreateFolder(h) \/ DeleteFolder(h)
  BY <1>0, <1>2 DEF CreateFolder, DeleteFolder, StoreType, dbs, search, sync, Mine
<1>3. CASE CreateRow(h)
  BY <1>0, <1>1, <1>3 DEF CreateRow, StoreType, dbs, search, sync, PastType
<1>4. CASE DeleteRead(h)
  BY <1>0, <1>4 DEF DeleteRead, StoreType, store, base, dbs, search, sync
<1>5. CASE DeleteIndexes(h)
  BY <1>0, <1>5 DEF DeleteIndexes, StoreType, base, dbs, search
<1>6. CASE DeleteKey(h)
  BY <1>0, <1>6 DEF DeleteKey, StoreType, base, dbs, sync
<1>7. CASE DeleteRow(h)
  <2>1. CASE Mine(h)
    BY <1>0, <1>7, <2>1, Bounds DEF DeleteRow, StoreType
  <2>2. CASE ~Mine(h)
    BY <1>0, <1>7, <2>2 DEF DeleteRow, StoreType
  <2> QED
    BY <2>1, <2>2
<1> QED
  BY <1>2, <1>3, <1>4, <1>5, <1>6, <1>7 DEF ProjectNext

LEMMA DatabaseStore ==
  ASSUME Shape, NEW h \in Handler, DatabaseNext(h)
  PROVE  StoreType'
<1>0. StoreType /\ PastType /\ Typed /\ FitInv
  BY DEF Shape
<1>1. req[h] # None /\ req[h].kind \in {"provision", "deprovision"}
  BY DEF DatabaseNext, ProvisionRead, CreateUser, CreateData, Record, DeprovisionRead, DropData,
         DropUser, DropRecord, At
<1>2. req[h].on \in Type /\ req[h].secret \in 0..MaxRequests
  BY <1>0, <1>1, InFlight DEF FitInv, Fits, Request
<1>3. CASE ProvisionRead(h) \/ DeprovisionRead(h)
  BY <1>0, <1>3 DEF ProvisionRead, DeprovisionRead, StoreType, store, base, dbs, search, sync
<1>4. CASE CreateUser(h) \/ DropUser(h)
  BY <1>0, <1>2, <1>4, Bounds DEF CreateUser, DropUser, StoreType, base, search, sync
<1>5. CASE CreateData(h) \/ DropData(h)
  BY <1>0, <1>2, <1>5 DEF CreateData, DropData, StoreType, base, search, sync
<1>6. CASE Record(h)
  <2>1. CASE Mine(h)
    BY <1>0, <1>2, <1>6, <2>1 DEF Record, StoreType, base, search, sync, Mine
  <2>2. CASE ~Mine(h)
    BY <1>0, <1>6, <2>2 DEF Record, StoreType, base, search, sync
  <2> QED
    BY <2>1, <2>2
<1>7. CASE DropRecord(h)
  BY <1>0, <1>2, <1>7, Bounds DEF DropRecord, StoreType, base, search, sync
<1> QED
  BY <1>3, <1>4, <1>5, <1>6, <1>7 DEF DatabaseNext

LEMMA CollectStore ==
  ASSUME Shape, NEW h \in Handler, CollectionNext(h)
  PROVE  StoreType'
<1>0. StoreType /\ PastType /\ Typed /\ FitInv
  BY DEF Shape
<1>1. req[h] # None
  BY DEF CollectionNext, CollectRead, ReadKey, MintKey, NoteKey, CountSynced, InsertRow,
         InstallTrigger, TakeBack, Follow, SwitchRead, SwitchCount, SwitchRow, RowRead, Unfollow,
         DropTrigger, DropIndex, DropRow, At
<1>2. /\ req[h] \in Request /\ Fits(req[h]) /\ sent # 0 /\ sent \in 0..MaxRequests
      /\ req[h].id \in 0..MaxRequests /\ req[h].secret \in 0..MaxRequests
      /\ req[h].value \in BOOLEAN
  BY <1>0, <1>1, InFlight DEF FitInv, Request, PastType
<1>3. CASE CollectRead(h) \/ ReadKey(h) \/ CountSynced(h) \/ SwitchRead(h) \/ SwitchCount(h)
           \/ RowRead(h)
  BY <1>0, <1>3 DEF CollectRead, ReadKey, CountSynced, SwitchRead, SwitchCount, RowRead,
                    StoreType, store, base, dbs, search, sync
<1>4. CASE MintKey(h)
  BY <1>0, <1>2, <1>4 DEF MintKey, StoreType, base, dbs, sync
<1>5. CASE NoteKey(h)
  BY <1>0, <1>2, <1>5 DEF NoteKey, StoreType, base, dbs, sync, Mine
<1>6. CASE InsertRow(h)
  <2>1. req[h].on \in Collection
    BY <1>2, <1>6 DEF InsertRow, At, Fits
  <2>2. CASE Mine(h)
    BY <1>0, <1>6, <2>1, <2>2 DEF InsertRow, StoreType, base, dbs, search, Mine
  <2>3. CASE ~Mine(h)
    BY <1>0, <1>6, <2>3 DEF InsertRow, StoreType, base, dbs, search
  <2> QED
    BY <2>2, <2>3
<1>7. CASE InstallTrigger(h) \/ DropTrigger(h)
  <2>1. req[h].on \in Collection
    BY <1>2, <1>7 DEF InstallTrigger, DropTrigger, At, Fits
  <2>2. TableOf[req[h].on] \in Table
    BY <2>1, ProvisioningAssumption
  <2> QED
    BY <1>0, <1>7, <2>2 DEF InstallTrigger, DropTrigger, StoreType, base, dbs, search
<1>8. CASE TakeBack(h) \/ DropRow(h)
  <2>1. req[h].on \in Collection
    BY <1>2, <1>8 DEF TakeBack, DropRow, At, Fits
  <2>2. rows' \in [Collection -> BOOLEAN \cup {None}]
        /\ \A c \in Collection : rows'[c] \in {rows[c], None}
    BY <1>0, <1>8, <2>1 DEF TakeBack, DropRow, StoreType
  <2> QED
    BY <1>0, <1>8, <2>2 DEF TakeBack, DropRow, StoreType, base, dbs, search
<1>9. CASE Follow(h)
  <2>1. req[h].on \in Collection /\ req[h].id \in 1..MaxRequests
    <3>1. req[h].kind \in {"collect", "switch", "resync"}
      BY <1>2, <1>9 DEF Follow, Fits, Request, Kind
    <3> QED
      BY <1>2, <1>9, <3>1 DEF Follow, Fits
  <2> QED
    BY <1>0, <1>9, <2>1 DEF Follow, StoreType, base, dbs, search
<1>10. CASE SwitchRow(h)
  <2>1. req[h].on \in Collection
    BY <1>2, <1>10 DEF SwitchRow, At, Fits
  <2>2. rows' \in [Collection -> BOOLEAN \cup {None}]
    BY <1>0, <1>2, <1>10 DEF SwitchRow, StoreType
  <2>3. \A c \in Collection : rows[c] = None => rows'[c] = None
    BY <1>0, <1>10 DEF SwitchRow, StoreType
  <2> QED
    BY <1>0, <1>10, <2>2, <2>3 DEF SwitchRow, StoreType, base, dbs, search
<1>11. CASE Unfollow(h)
  BY <1>0, <1>11 DEF Unfollow, StoreType, base, dbs, search
<1>12. CASE DropIndex(h)
  BY <1>0, <1>12 DEF DropIndex, StoreType, base, dbs, search
<1> QED
  BY <1>3, <1>4, <1>5, <1>6, <1>7, <1>8, <1>9, <1>10, <1>11, <1>12 DEF CollectionNext

LEMMA StoreStep == Shape /\ [Next]_vars => StoreType'
<1> SUFFICES ASSUME Shape, [Next]_vars PROVE StoreType'
  OBVIOUS
<1>0. StoreType
  BY DEF Shape
<1>1. ASSUME NEW h \in Handler, Receive(h) PROVE StoreType'
  BY <1>0, <1>1, Receiving DEF Shape, StoreType, store, base, dbs, search, sync
<1>2. ASSUME NEW h \in Handler, VectorRead(h) \/ Fail(h) PROVE StoreType'
  BY <1>0, <1>2 DEF VectorRead, Fail, StoreType, store, base, dbs, search, sync
<1>3. ASSUME NEW h \in Handler, VectorBuild(h) \/ VectorDrop(h) PROVE StoreType'
  <2>1. vectors' \subseteq Vector
    BY <1>0, <1>3 DEF VectorBuild, VectorDrop, StoreType
  <2> QED
    BY <1>0, <1>3, <2>1 DEF VectorBuild, VectorDrop, StoreType, base, dbs, search, sync
<1>4. ASSUME NEW c \in Collection, Feed(c) PROVE StoreType'
  BY <1>0, <1>4 DEF Feed, StoreType, base, dbs, search
<1>5. CASE UNCHANGED vars
  BY <1>0, <1>5 DEF vars, StoreType, store, base, dbs, search, sync
<1>6. CASE Restart
  <2>1. \A c \in Synced : c \in Collection /\ project \in 1..MaxRequests
    <3> SUFFICES ASSUME NEW c \in Synced PROVE c \in Collection /\ project \in 1..MaxRequests
      OBVIOUS
    <3>1. c \in Collection /\ rows[c] = TRUE
      BY DEF Synced
    <3>2. project # 0
      BY <1>0, <3>1, NoneAssumption DEF StoreType
    <3> QED
      BY <1>0, <3>1, <3>2 DEF StoreType
  <2>2. worker' \subseteq (1..MaxRequests) \X Collection
    BY <1>6, <2>1 DEF Restart
  <2>3. user' \in [Type -> 0..MaxRequests]
    BY <1>0, <1>6 DEF Restart, AclSync, StoreType
  <2> QED
    BY <1>0, <1>6, <2>2, <2>3 DEF Restart, StoreType, base, search
<1> QED
  BY <1>1, <1>2, <1>3, <1>4, <1>5, <1>6, ProjectStore, DatabaseStore, CollectStore DEF Next

(* Nothing is there at first.                                              *)
LEMMA ShapeInit == Init => Shape
<1> SUFFICES ASSUME Init PROVE Shape
  OBVIOUS
<1>1. Typed /\ FitInv
  BY DEF Init, Typed, FitInv
<1>2. StoreType
  BY Bounds DEF Init, StoreType
<1>3. PastType
  BY Bounds DEF Init, PastType
<1> QED
  BY <1>1, <1>2, <1>3 DEF Shape

LEMMA ShapeStep == Shape /\ [Next]_vars => Shape'
BY TypedStep, FitStep, StoreStep, PastStep DEF Shape

LEMMA ShapeTypes == Shape => TypeOK
<1> SUFFICES ASSUME Shape PROVE TypeOK
  OBVIOUS
<1>1. Typed /\ StoreType /\ PastType
  BY DEF Shape
<1>2. project = 0 => key = 0 /\ Synced = {} /\ \A t \in Type : record[t] = 0
  BY <1>1, NoneAssumption DEF StoreType, Synced
<1> QED
  BY <1>1, <1>2 DEF TypeOK, Typed, StoreType, PastType

LEMMA AlwaysShape == Spec => []Shape
BY ShapeInit, ShapeStep, PTL DEF Spec

(* The types of the state; every row belongs to the project
   (schema.ts:105-127, 163-221): what a request in flight writes after the
   deletion of the project leaves no row without one.                      *)
THEOREM TypeCorrect == Spec => []TypeOK
BY AlwaysShape, ShapeTypes, PTL
-----------------------------------------------------------------------------
(* Two requests on one thing are a race, and put it in doubt *)

SoleInv ==
  \A x \in Thing \ doubt : \A g, h \in Handler :
    g # h /\ req[g] # None /\ req[h] # None => x \notin Touches(req[g]) \cap Touches(req[h])

(* A request works on what it names.                                       *)
LEMMA TouchesOwn ==
  ASSUME NEW r \in Request, Fits(r)
  PROVE  r.on \in Touches(r) /\ r.on \in Thing
BY DEF Touches, Request, Fits, Thing

(* All that a request works on is named by its kind and its thing.         *)
LEMMA TouchesSame ==
  ASSUME NEW r, NEW s, r.kind = s.kind, r.on = s.on
  PROVE  Touches(r) = Touches(s)
BY DEF Touches

(* What is cleared of doubt is what the last request in flight removed.    *)
LEMMA DoubtShrinks ==
  ASSUME Shape, NEW h \in Handler, Works(h), NEW x \in doubt \ doubt'
  PROVE  /\ x = req[h].on /\ \A g \in Handler : req'[g] = None
         /\ DropRecord(h) \/ (DropRow(h) /\ rows'[x] = None)
<1>2. CASE DropRecord(h) \/ DropRow(h)
  <2>1. Over(h)
    BY <1>2, Ending DEF DropRecord, DropRow, Shape
  <2>2. x = req[h].on /\ Others(h) = {} /\ (DropRow(h) => rows'[x] = None)
    BY <1>2 DEF DropRecord, DropRow, At
  <2> QED
    BY <1>2, <2>1, <2>2 DEF Over, Others
<1>3. CASE ~DropRecord(h) /\ ~DropRow(h)
  <2>1. doubt \subseteq doubt'
    <3>1. CASE ProjectNext(h)
      BY <3>1 DEF ProjectNext, CreateFolder, CreateRow, DeleteRead, DeleteIndexes, DeleteKey,
                  DeleteFolder, DeleteRow, past
    <3>2. CASE ProvisionRead(h) \/ CreateUser(h) \/ CreateData(h) \/ Record(h)
               \/ DeprovisionRead(h) \/ DropData(h) \/ DropUser(h)
      BY <3>2 DEF ProvisionRead, CreateUser, CreateData, Record, DeprovisionRead,
                  DropData, DropUser, past
    <3>3. CASE CollectRead(h) \/ ReadKey(h) \/ MintKey(h) \/ NoteKey(h) \/ CountSynced(h)
               \/ InsertRow(h) \/ InstallTrigger(h) \/ TakeBack(h) \/ Follow(h)
      BY <3>3 DEF CollectRead, ReadKey, MintKey, NoteKey, CountSynced, InsertRow,
                  InstallTrigger, TakeBack, Follow, past
    <3>4. CASE SwitchRead(h) \/ SwitchCount(h) \/ SwitchRow(h) \/ RowRead(h) \/ Unfollow(h)
               \/ DropIndex(h) \/ DropTrigger(h)
      BY <3>4 DEF SwitchRead, SwitchCount, SwitchRow, RowRead, Unfollow, DropIndex,
                  DropTrigger, past
    <3>5. CASE VectorRead(h) \/ VectorBuild(h) \/ VectorDrop(h) \/ Fail(h)
      BY <3>5 DEF VectorRead, VectorBuild, VectorDrop, Fail, past
    <3> QED
      BY <1>3, <3>1, <3>2, <3>3, <3>4, <3>5 DEF Works, DatabaseNext, CollectionNext
  <2> QED
    BY <2>1
<1> QED
  BY <1>2, <1>3

LEMMA DoubtGrows ==
  ASSUME Shape, NEW h \in Handler, Works(h)
  PROVE  doubt \subseteq doubt' \/ \A g \in Handler : req'[g] = None
BY DoubtShrinks

LEMMA SoleStep == Shape /\ SoleInv /\ [Next]_vars => SoleInv'
<1> SUFFICES ASSUME Shape, SoleInv, [Next]_vars PROVE SoleInv'
  OBVIOUS
<1>0. Typed
  BY DEF Shape
<1>1. ASSUME NEW h \in Handler, Receive(h) PROVE SoleInv'
  <2>1. PICK r : Fresh(h, r)
    BY <1>0, <1>1, Receiving
  <2>2. req[h] = None
    BY <1>0, <1>1, Receiving
  <2>3. ASSUME NEW x \in Thing \ doubt', NEW g \in Handler \ {h}, req[g] # None
        PROVE  x \notin Touches(r) \cap Touches(req[g])
    <3>1. g \in Others(h)
      BY <2>3 DEF Others
    <3> QED
      BY <2>1, <2>3, <3>1 DEF Fresh
  <2>4. doubt \subseteq doubt'
    BY <2>1 DEF Fresh
  <2>5. ASSUME NEW x \in Thing \ doubt', NEW f \in Handler, NEW g \in Handler, f # g,
               req'[f] # None, req'[g] # None
        PROVE  x \notin Touches(req'[f]) \cap Touches(req'[g])
    <3>1. CASE f = h
      BY <2>1, <2>3, <2>5, <3>1 DEF Fresh
    <3>2. CASE g = h
      BY <2>1, <2>3, <2>5, <3>2 DEF Fresh
    <3>3. CASE f # h /\ g # h
      BY <2>1, <2>4, <2>5, <3>3 DEF Fresh, SoleInv
    <3> QED
      BY <3>1, <3>2, <3>3
  <2> QED
    BY <2>5 DEF SoleInv, Touches
<1>2. ASSUME NEW h \in Handler, Works(h) PROVE SoleInv'
  <2>1. Advance(h)
    BY <1>2, Advances
  <2>2. CASE \A g \in Handler : req'[g] = None
    BY <2>2 DEF SoleInv
  <2>3. CASE doubt \subseteq doubt'
    <3>1. ASSUME NEW g \in Handler, req'[g] # None
          PROVE  req[g] # None /\ Touches(req'[g]) = Touches(req[g])
      BY <2>1, <3>1, TouchesSame DEF Advance
    <3>2. ASSUME NEW x \in Thing \ doubt', NEW f \in Handler, NEW g \in Handler, f # g,
                 req'[f] # None, req'[g] # None
          PROVE  x \notin Touches(req'[f]) \cap Touches(req'[g])
      BY <2>3, <3>1, <3>2 DEF SoleInv
    <3> QED
      BY <3>2 DEF SoleInv, Touches
  <2> QED
    BY <1>2, <2>2, <2>3, DoubtGrows
<1>3. ASSUME NEW c \in Collection, Feed(c) PROVE SoleInv'
  BY <1>3 DEF Feed, past, SoleInv, Touches
<1>4. CASE UNCHANGED vars
  BY <1>4 DEF vars, past, SoleInv, Touches
<1>5. CASE Restart
  BY <1>5, Restarting DEF SoleInv
<1> QED
  BY <1>1, <1>2, <1>3, <1>4, <1>5 DEF Next, Works

-----------------------------------------------------------------------------
(* Requests that are past their first read *)

Past(h) == req[h] # None /\ req[h].step # "read"
Busy(h, k) == Past(h) /\ req[h].kind = k
On(h, x) == Past(h) /\ req[h].on = x

(* Outside of doubt nobody else works on what a request works on.          *)
LEMMA Sole ==
  ASSUME Shape, SoleInv, NEW h \in Handler, req[h] # None, NEW x \in Thing \ doubt,
         x \in Touches(req[h]), NEW g \in Handler \ {h}
  PROVE  ~On(g, x) /\ (req[g] # None => x \notin Touches(req[g]))
<1>1. req[g] # None => x \notin Touches(req[g])
  BY DEF SoleInv
<1>2. req[g] # None => req[g].on \in Touches(req[g])
  BY TouchesOwn, InFlight DEF Shape, FitInv
<1> QED
  BY <1>1, <1>2 DEF On, Past

(* A project is created and deleted under everybody's eyes.                *)
LEMMA SoleProject ==
  ASSUME Shape, SoleInv, NEW h \in Handler, req[h] # None, req[h].kind \in {"create", "delete"},
         NEW x \in Thing \ doubt, NEW g \in Handler \ {h}
  PROVE  ~On(g, x)
<1>1. x \in Touches(req[h])
  BY DEF Touches
<1> QED
  BY <1>1, Sole

(* What a step of the request of h leaves of those on another thing.       *)
LEMMA OthersSame ==
  ASSUME NEW h \in Handler, Advance(h), NEW x, req[h].on # x, NEW g \in Handler, On(g, x) \/ On(g, x)'
  PROVE  req'[g] = req[g]
BY DEF Advance, On, Past

LEMMA FreshSame ==
  ASSUME NEW h \in Handler, req[h] = None, NEW r, Fresh(h, r), NEW x, NEW g \in Handler,
         On(g, x) \/ On(g, x)'
  PROVE  req'[g] = req[g]
BY DEF Fresh, On, Past

(* If one request works on a thing, it is alone with it after its step.    *)
LEMMA StaysSole ==
  ASSUME Shape, SoleInv, NEW h \in Handler, Advance(h), NEW x \in Thing \ doubt, req[h].on = x,
         NEW g \in Handler \ {h}
  PROVE  ~On(g, x) /\ ~On(g, x)'
<1>1. req[h] # None /\ req'[g] = req[g]
  BY DEF Advance
<1>2. x \in Touches(req[h])
  BY <1>1, TouchesOwn, InFlight DEF Shape, FitInv
<1>3. ~On(g, x)
  BY <1>1, <1>2, Sole
<1> QED
  BY <1>1, <1>3 DEF On, Past

-----------------------------------------------------------------------------
(* The row that a request has read is still that of the project *)

Bound(h) == Past(h) /\ req[h].kind \notin {"create", "vector", "unvector"}

MineInv == \A h \in Handler : Bound(h) /\ req[h].on \notin doubt => Mine(h)

(* The row changes by the creation of a project and its deletion only.     *)
LEMMA ProjectKept ==
  ASSUME NEW h \in Handler, Works(h), ~CreateRow(h), ~DeleteRow(h)
  PROVE  project' = project
<1>1. CASE ProjectNext(h)
  BY <1>1 DEF ProjectNext, CreateFolder, DeleteRead, DeleteIndexes, DeleteKey,
              DeleteFolder, base, store
<1>2. CASE DatabaseNext(h)
  BY <1>2 DEF DatabaseNext, ProvisionRead, CreateUser, CreateData, Record, DeprovisionRead,
              DropData, DropUser, DropRecord, base, store
<1>3. CASE CollectRead(h) \/ ReadKey(h) \/ MintKey(h) \/ NoteKey(h) \/ CountSynced(h)
           \/ InsertRow(h) \/ InstallTrigger(h) \/ TakeBack(h) \/ Follow(h)
  BY <1>3 DEF CollectRead, ReadKey, MintKey, NoteKey, CountSynced, InsertRow,
              InstallTrigger, TakeBack, Follow, base, store
<1>4. CASE SwitchRead(h) \/ SwitchCount(h) \/ SwitchRow(h) \/ RowRead(h) \/ Unfollow(h)
           \/ DropTrigger(h) \/ DropIndex(h) \/ DropRow(h)
  BY <1>4 DEF SwitchRead, SwitchCount, SwitchRow, RowRead, Unfollow, DropTrigger,
              DropIndex, DropRow, base, store
<1>5. CASE VectorRead(h) \/ VectorBuild(h) \/ VectorDrop(h) \/ Fail(h)
  BY <1>5 DEF VectorRead, VectorBuild, VectorDrop, Fail, base, store
<1> QED
  BY <1>1, <1>2, <1>3, <1>4, <1>5 DEF Works, CollectionNext

LEMMA MineStep == Shape /\ SoleInv /\ MineInv /\ [Next]_vars => MineInv'
<1> SUFFICES ASSUME Shape, SoleInv, MineInv, [Next]_vars PROVE MineInv'
  OBVIOUS
<1>0. Typed /\ FitInv /\ StoreType /\ PastType
  BY DEF Shape
<1>1. ASSUME NEW h \in Handler, Receive(h) PROVE MineInv'
  <2>1. PICK r : Fresh(h, r)
    BY <1>0, <1>1, Receiving
  <2>2. doubt \subseteq doubt' /\ project' = project
    BY <1>0, <1>1, <2>1, Receiving DEF Fresh, store, base
  <2>3. ASSUME NEW g \in Handler, Bound(g)', req'[g].on \notin doubt' PROVE Mine(g)'
    BY <2>1, <2>2, <2>3 DEF Fresh, Bound, Past, MineInv, Mine
  <2> QED
    BY <2>3 DEF MineInv
<1>2. ASSUME NEW h \in Handler, Works(h) PROVE MineInv'
  <2>1. Advance(h)
    BY <1>2, Advances
  <2>2. CASE \A g \in Handler : req'[g] = None
    BY <2>2 DEF MineInv, Bound, Past
  <2>3. CASE doubt \subseteq doubt' /\ project' = project
    <3>1. ASSUME NEW g \in Handler, Bound(g)', req'[g].on \notin doubt' PROVE Mine(g)'
      <4>1. CASE g # h
        BY <2>1, <2>3, <3>1, <4>1 DEF Advance, Bound, Past, MineInv, Mine
      <4>2. CASE g = h /\ req[h].step # "read"
        BY <2>1, <2>3, <3>1, <4>2 DEF Advance, Bound, Past, MineInv, Mine
      <4>3. CASE g = h /\ req[h].step = "read"
        <5>1. req'[h].id = project /\ Fits(req'[h]) /\ req'[h].step # "read"
          BY <2>1, <3>1, <4>3 DEF Advance, Bound, Past
        <5>2. project # 0
          BY <3>1, <4>3, <5>1 DEF Fits, Bound, Past
        <5> QED
          BY <2>3, <4>3, <5>1, <5>2 DEF Mine
      <4> QED
        BY <4>1, <4>2, <4>3
    <3> QED
      BY <3>1 DEF MineInv
  <2>4. CASE CreateRow(h) \/ DeleteRow(h)
    <3>1. req[h] # None /\ req[h].kind \in {"create", "delete"} /\ doubt' = doubt /\ Over(h)
      BY <1>0, <2>4, Ending DEF CreateRow, DeleteRow, At, past
    <3>2. ASSUME NEW g \in Handler, Bound(g)', req'[g].on \notin doubt' PROVE FALSE
      <4>1. g # h /\ req'[g] = req[g] /\ req[g] # None
        BY <3>1, <3>2 DEF Over, Bound, Past
      <4>2. req[g].on \in Thing \ doubt
        BY <1>0, <3>1, <3>2, <4>1, TouchesOwn, InFlight DEF FitInv
      <4>3. On(g, req[g].on)
        BY <3>2, <4>1 DEF Bound, Past, On
      <4> QED
        BY <3>1, <4>1, <4>2, <4>3, SoleProject
    <3> QED
      BY <3>2 DEF MineInv
  <2> QED
    BY <1>2, <2>2, <2>3, <2>4, DoubtGrows, ProjectKept
<1>3. ASSUME NEW c \in Collection, Feed(c) PROVE MineInv'
  BY <1>3 DEF Feed, past, base, MineInv, Bound, Past, Mine
<1>4. CASE UNCHANGED vars
  BY <1>4 DEF vars, past, store, base, MineInv, Bound, Past, Mine
<1>5. CASE Restart
  BY <1>5, Restarting DEF MineInv, Bound, Past
<1> QED
  BY <1>1, <1>2, <1>3, <1>4, <1>5 DEF Next, Works
-----------------------------------------------------------------------------
(* What each action is about *)

LEMMA Apart ==
  /\ \A t \in Type : t \notin Collection /\ t \notin {"project", "key", "limit", "vectors"}
  /\ \A c \in Collection : c \notin {"project", "key", "limit", "vectors"}
BY ProvisioningAssumption

LEMMA AboutProject ==
  ASSUME Shape, NEW h \in Handler, ProjectNext(h)
  PROVE  req[h] # None /\ req[h].on = "project"
<1>1. req[h] # None /\ req[h].kind \in {"create", "delete"}
  BY DEF ProjectNext, CreateFolder, CreateRow, DeleteRead, DeleteIndexes, DeleteKey,
         DeleteFolder, DeleteRow, At
<1> QED
  BY <1>1 DEF Shape, FitInv, Fits

LEMMA AboutDatabase ==
  ASSUME Shape, NEW h \in Handler, DatabaseNext(h)
  PROVE  req[h] # None /\ req[h].on \in Type
<1>1. req[h] # None /\ req[h].kind \in {"provision", "deprovision"}
  BY DEF DatabaseNext, ProvisionRead, CreateUser, CreateData, Record, DeprovisionRead,
         DropData, DropUser, DropRecord, At
<1> QED
  BY <1>1 DEF Shape, FitInv, Fits

LEMMA AboutCollection ==
  ASSUME Shape, NEW h \in Handler, CollectionNext(h)
  PROVE  req[h] # None /\ req[h].on \in Collection
<1>1. req[h] # None /\ req[h].kind \in {"collect", "switch", "drop", "resync"}
  <2>1. CASE CollectRead(h) \/ ReadKey(h) \/ MintKey(h) \/ NoteKey(h) \/ CountSynced(h)
             \/ InsertRow(h) \/ InstallTrigger(h) \/ TakeBack(h) \/ SwitchRead(h)
             \/ SwitchCount(h) \/ SwitchRow(h)
    BY <2>1 DEF CollectRead, ReadKey, MintKey, NoteKey, CountSynced, InsertRow,
                InstallTrigger, TakeBack, SwitchRead, SwitchCount, SwitchRow, At
  <2>2. CASE RowRead(h) \/ DropTrigger(h) \/ DropIndex(h) \/ DropRow(h)
    BY <2>2 DEF RowRead, DropTrigger, DropIndex, DropRow, At
  <2>3. CASE Follow(h) \/ Unfollow(h)
    <3>1. req[h] # None /\ req[h].step \in {"start", "stop"}
      BY <2>3 DEF Follow, Unfollow
    <3>2. Fits(req[h]) /\ req[h] \in Request
      BY <3>1, InFlight DEF Shape, FitInv
    <3> QED
      BY <3>1, <3>2 DEF Fits, Request, Kind
  <2> QED
    BY <2>1, <2>2, <2>3 DEF CollectionNext
<1> QED
  BY <1>1 DEF Shape, FitInv, Fits

LEMMA AboutVectors ==
  ASSUME Shape, NEW h \in Handler, VectorRead(h) \/ VectorBuild(h) \/ VectorDrop(h)
  PROVE  req[h] # None /\ req[h].on = "vectors"
<1>1. req[h] # None /\ req[h].kind \in {"vector", "unvector"}
  BY DEF VectorRead, VectorBuild, VectorDrop, At
<1> QED
  BY <1>1 DEF Shape, FitInv, Fits

LEMMA About ==
  ASSUME Shape, NEW h \in Handler
  PROVE  /\ ProjectNext(h) => req[h] # None /\ req[h].on = "project"
         /\ DatabaseNext(h) => req[h] # None /\ req[h].on \in Type
         /\ CollectionNext(h) => req[h] # None /\ req[h].on \in Collection
         /\ VectorRead(h) \/ VectorBuild(h) \/ VectorDrop(h)
              => req[h] # None /\ req[h].on = "vectors"
BY AboutProject, AboutDatabase, AboutCollection, AboutVectors

(* A request that fails leaves its thing in doubt, or goes on.             *)
LEMMA Failing ==
  ASSUME Shape, NEW h \in Handler, Fail(h), req[h].kind \notin {"create", "delete"},
         req[h].on \notin doubt'
  PROVE  /\ doubt' = doubt
         /\ \/ req[h].kind = "drop" /\ req[h].step = "trigger" /\ Goes(h, "index")
            \/ req[h].kind = "drop" /\ req[h].step = "index" /\ Goes(h, "row")
            \/ req[h].kind = "deprovision" /\ req[h].step = "user" /\ req[h].on = "mongodb"
               /\ Goes(h, "data")
<1>1. req[h] # None /\ Typed
  BY DEF Fail, Shape
<1>2. Swallowed(req[h]) # "read"
  BY DEF Fail, Half
<1>3. Go(h, Swallowed(req[h])) /\ doubt' = doubt
  BY <1>2 DEF Fail
<1>4. {"index", "row", "data"} \subseteq Step
  BY DEF Step
<1>5. \/ req[h].kind = "drop" /\ req[h].step = "trigger" /\ Swallowed(req[h]) = "index"
      \/ req[h].kind = "drop" /\ req[h].step = "index" /\ Swallowed(req[h]) = "row"
      \/ req[h].kind = "deprovision" /\ req[h].step = "user" /\ req[h].on = "mongodb"
         /\ Swallowed(req[h]) = "data"
  BY <1>2 DEF Swallowed
<1> QED
  BY <1>1, <1>3, <1>4, <1>5, Going

-----------------------------------------------------------------------------
(* A password in a record opens its database *)

Drops(h, t) == On(h, t) /\ req[h].kind = "deprovision"

(* A database with a record has a user with its password, unless it is
   being dropped; one that is being provisioned has none yet, and its user
   has the password the request will record.                               *)
PassOf(h, t) ==
  On(h, t) =>
    /\ req[h].kind = "provision" =>
         /\ record[t] = 0
         /\ req[h].step \in {"data", "record"} => user[t] = req[h].secret
         /\ req[h].step = "record" => data[t]
    /\ req[h].kind = "deprovision" => record[t] = req[h].secret /\ record[t] # 0

PassAt(t) ==
  /\ record[t] # 0 /\ (\A h \in Handler : ~Drops(h, t)) => user[t] = record[t] /\ data[t]
  /\ \A h \in Handler : PassOf(h, t)

PassInv == \A t \in Type \ doubt : PassAt(t)

LEMMA PassFrame ==
  ASSUME NEW t \in Type, PassAt(t),
         record'[t] = record[t], user'[t] = user[t], data'[t] = data[t],
         \A g \in Handler : On(g, t) \/ On(g, t)' => req'[g] = req[g]
  PROVE  PassAt(t)'
<1>1. \A g \in Handler : (On(g, t)' <=> On(g, t)) /\ (On(g, t) => req'[g] = req[g])
  BY DEF On, Past
<1>2. \A g \in Handler : Drops(g, t)' <=> Drops(g, t)
  BY <1>1 DEF Drops
<1>3. \A g \in Handler : PassOf(g, t)'
  <2> SUFFICES ASSUME NEW g \in Handler, On(g, t) PROVE PassOf(g, t)'
    BY <1>1 DEF PassOf
  <2>1. PassOf(g, t) /\ req'[g] = req[g]
    BY <1>1 DEF PassAt
  <2> QED
    BY <2>1 DEF PassOf
<1> QED
  BY <1>2, <1>3 DEF PassAt

(* Nobody else works on t: only the request of h has to be looked at.      *)
LEMMA PassAlone ==
  ASSUME NEW t \in Type, NEW h \in Handler,
         \A g \in Handler \ {h} : ~On(g, t)',
         PassOf(h, t)',
         record'[t] # 0 /\ ~Drops(h, t)' => user'[t] = record'[t] /\ data'[t]
  PROVE  PassAt(t)'
<1>1. \A g \in Handler : PassOf(g, t)'
  BY DEF PassOf
<1> QED
  BY <1>1 DEF PassAt

(* The request is over.                                                    *)
LEMMA PassEnds ==
  ASSUME NEW t \in Type, NEW h \in Handler,
         \A g \in Handler \ {h} : ~On(g, t)', req'[h] = None,
         record'[t] # 0 => user'[t] = record'[t] /\ data'[t]
  PROVE  PassAt(t)'
<1>1. ~On(h, t)'
  BY DEF On, Past
<1> QED
  BY <1>1, PassAlone DEF PassOf

LEMMA ProvisionPass ==
  ASSUME Shape, SoleInv, PassInv, NEW h \in Handler, NEW t \in Type \ doubt, req[h].on = t,
         ProvisionRead(h) \/ CreateUser(h) \/ CreateData(h) \/ Record(h)
  PROVE  PassAt(t)'
<1>0. /\ Typed /\ StoreType /\ PastType /\ PassAt(t) /\ t \in Thing
  BY DEF Shape, PassInv, Thing
<1>1. Works(h) /\ Advance(h)
  BY Advances DEF Works, DatabaseNext
<1>2. \A g \in Handler \ {h} : ~On(g, t) /\ ~On(g, t)'
  BY <1>0, <1>1, StaysSole
<1>3. req[h] # None /\ req[h].kind = "provision" /\ PassOf(h, t)
  BY <1>0 DEF ProvisionRead, CreateUser, CreateData, Record, At, PassAt
<1>4. \A g \in Handler : ~Drops(g, t)
  BY <1>2, <1>3 DEF Drops
<1>5. record[t] # 0 => user[t] = record[t] /\ data[t]
  BY <1>0, <1>4 DEF PassAt
<1>6. CASE ProvisionRead(h)
  <2>1. record' = record /\ user' = user /\ data' = data
    BY <1>6 DEF ProvisionRead, store, dbs
  <2>2. CASE End(h)
    BY <1>0, <1>2, <1>5, <2>1, <2>2, Ending, PassEnds DEF Over
  <2>3. CASE ~End(h)
    <3>1. record[t] = 0 /\ req' = [req EXCEPT ![h].step = "user", ![h].id = project, ![h].secret = sent]
      BY <1>6, <2>3 DEF ProvisionRead
    <3>2. "user" \in Step /\ project \in 0..MaxRequests /\ sent \in 0..MaxRequests
      BY <1>0 DEF Step, StoreType, PastType
    <3>3. Now(h, "user", project, sent, req[h].was)
      BY <1>0, <1>3, <3>1, <3>2, Noting
    <3>4. PassOf(h, t)'
      BY <1>3, <2>1, <3>1, <3>3 DEF PassOf, Now
    <3> QED
      BY <1>2, <2>1, <3>1, <3>4, PassAlone
  <2> QED
    BY <2>2, <2>3
<1>7. CASE CreateUser(h)
  <2>1. record[t] = 0 /\ record' = record /\ data' = data
    BY <1>3, <1>7 DEF CreateUser, At, PassOf, On, Past
  <2>2. CASE End(h)
    BY <1>0, <1>2, <2>1, <2>2, Ending, PassEnds DEF Over
  <2>3. CASE ~End(h)
    <3>1. Go(h, "data") /\ user'[t] = req[h].secret /\ "data" \in Step
      BY <1>0, <1>7, <2>3 DEF CreateUser, StoreType, Step
    <3>2. Goes(h, "data")
      BY <1>0, <1>3, <3>1, Going
    <3>3. PassOf(h, t)'
      BY <1>3, <2>1, <3>1, <3>2 DEF PassOf, Goes, Now
    <3> QED
      BY <1>2, <2>1, <3>3, PassAlone
  <2> QED
    BY <2>2, <2>3
<1>8. CASE CreateData(h)
  <2>1. /\ record[t] = 0 /\ record' = record /\ user' = user
        /\ user[t] = req[h].secret /\ data'[t]
    BY <1>0, <1>3, <1>8 DEF CreateData, At, PassOf, On, Past, StoreType
  <2>2. CASE End(h)
    BY <1>0, <1>2, <2>1, <2>2, Ending, PassEnds DEF Over
  <2>3. CASE ~End(h)
    <3>1. Go(h, "record") /\ "record" \in Step
      BY <1>8, <2>3 DEF CreateData, Step
    <3>2. Goes(h, "record")
      BY <1>0, <1>3, <3>1, Going
    <3>3. PassOf(h, t)'
      BY <1>3, <2>1, <3>1, <3>2 DEF PassOf, Goes, Now
    <3> QED
      BY <1>2, <2>1, <3>3, PassAlone
  <2> QED
    BY <2>2, <2>3
<1>9. CASE Record(h)
  <2>1. /\ record'[t] \in {record[t], req[h].secret} /\ user' = user /\ data' = data
        /\ record[t] = 0 /\ user[t] = req[h].secret /\ data[t] /\ End(h)
    BY <1>0, <1>3, <1>9 DEF Record, At, PassOf, On, Past, StoreType
  <2> QED
    BY <1>0, <1>2, <2>1, Ending, PassEnds DEF Over
<1> QED
  BY <1>6, <1>7, <1>8, <1>9

LEMMA DeprovisionPass ==
  ASSUME Shape, SoleInv, PassInv, NEW h \in Handler, NEW t \in Type \ doubt, req[h].on = t,
         DeprovisionRead(h) \/ DropData(h) \/ DropUser(h) \/ DropRecord(h)
  PROVE  PassAt(t)'
<1>0. /\ Typed /\ StoreType /\ PastType /\ PassAt(t) /\ t \in Thing
  BY DEF Shape, PassInv, Thing
<1>1. Works(h) /\ Advance(h)
  BY Advances DEF Works, DatabaseNext
<1>2. \A g \in Handler \ {h} : ~On(g, t) /\ ~On(g, t)'
  BY <1>0, <1>1, StaysSole
<1>3. req[h] # None /\ req[h].kind = "deprovision" /\ PassOf(h, t)
  BY <1>0 DEF DeprovisionRead, DropData, DropUser, DropRecord, At, PassAt
<1>4. CASE DeprovisionRead(h)
  <2>1. record' = record /\ user' = user /\ data' = data
    BY <1>4 DEF DeprovisionRead, store, dbs
  <2>2. CASE End(h)
    <3>1. record[t] = 0
      <4>1. CASE record[t] # 0
        <5> DEFINE s == IF t = "mongodb" THEN "user" ELSE "data"
        <5>1. req' = [req EXCEPT ![h].step = s, ![h].id = project, ![h].secret = record[t]]
          BY <1>4, <4>1 DEF DeprovisionRead
        <5>2. s \in Step /\ project \in 0..MaxRequests /\ record[t] \in 0..MaxRequests
          BY <1>0 DEF Step, StoreType
        <5> HIDE DEF s
        <5>3. Now(h, s, project, record[t], req[h].was)
          BY <1>0, <1>3, <5>1, <5>2, Noting
        <5> QED
          BY <1>0, <2>2, <5>3, Ending, NoneAssumption DEF Now, Over
      <4> QED
        BY <4>1
    <3> QED
      BY <1>0, <1>2, <2>1, <2>2, <3>1, Ending, PassEnds DEF Over
  <2>3. CASE ~End(h)
    <3> DEFINE s == IF t = "mongodb" THEN "user" ELSE "data"
    <3>1. req' = [req EXCEPT ![h].step = s, ![h].id = project, ![h].secret = record[t]]
          /\ record[t] # 0
      BY <1>4, <2>3 DEF DeprovisionRead
    <3>2. s \in Step /\ project \in 0..MaxRequests /\ record[t] \in 0..MaxRequests /\ s # "read"
      BY <1>0 DEF Step, StoreType
    <3> HIDE DEF s
    <3>3. Now(h, s, project, record[t], req[h].was)
      BY <1>0, <1>3, <3>1, <3>2, Noting
    <3>4. PassOf(h, t)' /\ Drops(h, t)'
      BY <1>3, <2>1, <3>1, <3>2, <3>3, NoneAssumption DEF PassOf, Drops, On, Past, Now
    <3> QED
      BY <1>2, <3>4, PassAlone
  <2> QED
    BY <2>2, <2>3
<1>5. CASE DropData(h) \/ DropUser(h)
  <2> DEFINE s == IF t = "mongodb"
                  THEN IF req[h].step = "data" THEN "record" ELSE "data"
                  ELSE IF req[h].step = "data" THEN "user" ELSE "record"
  <2>1. record' = record /\ Go(h, s) /\ req[h].step # "read"
    BY <1>5 DEF DropData, DropUser, At
  <2>2. s \in Step /\ s # "read"
    BY DEF Step
  <2> HIDE DEF s
  <2>3. Goes(h, s)
    BY <1>0, <1>3, <2>1, <2>2, Going
  <2>4. On(h, t)
    BY <1>3, <2>1 DEF On, Past
  <2>5. PassOf(h, t)' /\ Drops(h, t)'
    BY <1>3, <2>1, <2>2, <2>3, <2>4, NoneAssumption DEF PassOf, Drops, On, Past, Goes, Now
  <2> QED
    BY <1>2, <2>5, PassAlone
<1>6. CASE DropRecord(h)
  <2>1. record[t] = req[h].secret
    BY <1>3, <1>6 DEF DropRecord, At, PassOf, On, Past
  <2>2. record'[t] = 0 /\ End(h)
    BY <1>0, <1>6, <2>1 DEF DropRecord, StoreType
  <2> QED
    BY <1>0, <1>2, <2>2, Ending, PassEnds DEF Over
<1> QED
  BY <1>4, <1>5, <1>6

(* The actions that leave the databases, their users and records alone.    *)
LEMMA DatabasesKept ==
  ASSUME NEW h \in Handler, Works(h), ~DatabaseNext(h), ~DeleteRow(h)
  PROVE  UNCHANGED dbs
<1>1. CASE ProjectNext(h)
  BY <1>1 DEF ProjectNext, CreateFolder, CreateRow, DeleteRead, DeleteIndexes, DeleteKey,
              DeleteFolder, store, dbs
<1>3. CASE CollectRead(h) \/ ReadKey(h) \/ MintKey(h) \/ NoteKey(h) \/ CountSynced(h)
           \/ InsertRow(h) \/ InstallTrigger(h) \/ TakeBack(h) \/ Follow(h)
  BY <1>3 DEF CollectRead, ReadKey, MintKey, NoteKey, CountSynced, InsertRow,
              InstallTrigger, TakeBack, Follow, store, dbs
<1>4. CASE SwitchRead(h) \/ SwitchCount(h) \/ SwitchRow(h) \/ RowRead(h) \/ Unfollow(h)
           \/ DropTrigger(h) \/ DropIndex(h) \/ DropRow(h)
  BY <1>4 DEF SwitchRead, SwitchCount, SwitchRow, RowRead, Unfollow, DropTrigger,
              DropIndex, DropRow, store, dbs
<1>5. CASE VectorRead(h) \/ VectorBuild(h) \/ VectorDrop(h) \/ Fail(h)
  BY <1>5 DEF VectorRead, VectorBuild, VectorDrop, Fail, store, dbs
<1> QED
  BY <1>1, <1>3, <1>4, <1>5 DEF Works, CollectionNext

(* An action on one database leaves the others alone.                      *)
LEMMA OtherDatabases ==
  ASSUME Shape, NEW h \in Handler, DatabaseNext(h), NEW t \in Type, req[h].on # t
  PROVE  record'[t] = record[t] /\ user'[t] = user[t] /\ data'[t] = data[t]
<1>1. StoreType
  BY DEF Shape
<1> QED
  BY <1>1 DEF DatabaseNext, ProvisionRead, CreateUser, CreateData, Record, DeprovisionRead,
              DropData, DropUser, DropRecord, StoreType, store, dbs

LEMMA PassStep == Shape /\ SoleInv /\ PassInv /\ [Next]_vars => PassInv'
<1> SUFFICES ASSUME Shape, SoleInv, PassInv, [Next]_vars, NEW t \in Type, t \notin doubt'
             PROVE  PassAt(t)'
  BY DEF PassInv
<1>0. Typed /\ FitInv /\ StoreType /\ t \in Thing
  BY DEF Shape, Thing
<1>1. ASSUME NEW h \in Handler, Receive(h) PROVE PassAt(t)'
  <2>1. PICK r : Fresh(h, r)
    BY <1>0, <1>1, Receiving
  <2>2. PassAt(t)
    BY <2>1 DEF Fresh, PassInv
  <2>3. req[h] = None /\ record' = record /\ user' = user /\ data' = data
    BY <1>0, <1>1, Receiving DEF store, dbs
  <2>4. \A g \in Handler : On(g, t) \/ On(g, t)' => req'[g] = req[g]
    BY <2>1, <2>3, FreshSame
  <2> QED
    BY <2>2, <2>3, <2>4, PassFrame
<1>2. ASSUME NEW h \in Handler, Works(h), t \in doubt PROVE PassAt(t)'
  <2>1. /\ t = req[h].on /\ \A g \in Handler : req'[g] = None
        /\ DropRecord(h) \/ DropRow(h)
    BY <1>2, DoubtShrinks
  <2>2. DropRecord(h)
    BY <2>1, About, Apart DEF CollectionNext
  <2>3. record'[t] = 0
    BY <1>0, <1>2, <2>1, <2>2 DEF DropRecord
  <2> QED
    BY <2>1, <2>3, PassEnds DEF On, Past
<1>3. ASSUME NEW h \in Handler, Works(h), t \notin doubt PROVE PassAt(t)'
  <2>0. PassAt(t) /\ Advance(h)
    BY <1>3, Advances DEF PassInv
  <2>1. CASE DeleteRow(h)
    <3>1. req[h] # None /\ req[h].kind = "delete" /\ Over(h) /\ user' = user /\ data' = data
      BY <1>0, <2>1, Ending DEF DeleteRow, At
    <3>2. \A g \in Handler \ {h} : ~On(g, t)
      BY <1>0, <1>3, <3>1, SoleProject
    <3>3. \A g \in Handler : ~On(g, t)'
      BY <3>1, <3>2 DEF Over, On, Past
    <3>4. req[h].on # t
      BY <2>1, About, Apart DEF ProjectNext
    <3>5. CASE Mine(h)
      BY <2>1, <3>3, <3>1, <3>5, PassEnds DEF DeleteRow, Over
    <3>6. CASE ~Mine(h)
      BY <2>0, <2>1, <3>1, <3>4, <3>6, OthersSame, PassFrame DEF DeleteRow
    <3> QED
      BY <3>5, <3>6
  <2>2. CASE DatabaseNext(h) /\ req[h].on = t
    BY <1>3, <2>2, ProvisionPass, DeprovisionPass DEF DatabaseNext
  <2>3. CASE Fail(h) /\ req[h].on = t
    <3>1. req[h] # None /\ req[h].kind \in {"provision", "deprovision"}
      <4>1. req[h] # None /\ Fits(req[h]) /\ req[h] \in Request
        BY <1>0, <2>3, InFlight DEF Fail, FitInv
      <4> QED
        BY <2>3, <4>1, Apart DEF Fits, Request, Kind
    <3>2. req[h].kind = "deprovision" /\ req[h].step = "user" /\ Goes(h, "data")
      BY <2>3, <3>1, Failing
    <3>3. record' = record /\ \A g \in Handler \ {h} : ~On(g, t)'
      BY <1>0, <1>3, <2>0, <2>3, StaysSole DEF Fail, store, dbs
    <3>4. PassOf(h, t)' /\ Drops(h, t)'
      BY <2>0, <2>3, <3>1, <3>2, <3>3, NoneAssumption
      DEF PassAt, PassOf, Drops, On, Past, Goes, Now
    <3> QED
      BY <3>3, <3>4, PassAlone
  <2>4. CASE DatabaseNext(h) /\ req[h].on # t
    BY <2>0, <2>4, OtherDatabases, OthersSame, PassFrame
  <2>5. CASE ~DatabaseNext(h) /\ ~DeleteRow(h) /\ req[h].on # t
    <3>1. record' = record /\ user' = user /\ data' = data
      BY <1>3, <2>5, DatabasesKept DEF dbs
    <3> QED
      BY <2>0, <2>5, <3>1, OthersSame, PassFrame
  <2>6. CASE ~DatabaseNext(h) /\ ~Fail(h) /\ req[h].on = t
    BY <1>3, <2>6, About, Apart DEF Works
  <2> QED
    BY <2>1, <2>2, <2>3, <2>4, <2>5, <2>6
<1>4. ASSUME NEW c \in Collection, Feed(c) PROVE PassAt(t)'
  <2>1. PassAt(t)
    BY <1>4 DEF Feed, past, PassInv
  <2> QED
    BY <1>4, <2>1, PassFrame DEF Feed, dbs
<1>5. CASE UNCHANGED vars
  <2>1. PassAt(t)
    BY <1>5 DEF vars, past, PassInv
  <2> QED
    BY <1>5, <2>1, PassFrame DEF vars, store, dbs
<1>6. CASE Restart
  <2>1. PassAt(t) /\ record' = record /\ data' = data
    BY <1>6 DEF Restart, PassInv
  <2>2. \A g \in Handler : ~Drops(g, t)
    <3> SUFFICES ASSUME NEW g \in Handler, Drops(g, t) PROVE FALSE
      OBVIOUS
    <3>1. req[g] # None /\ t \in Half(req[g])
      BY DEF Drops, On, Past, Half
    <3> QED
      BY <1>6, <3>1 DEF Restart
  <2>3. user'[t] = IF t = "redis" /\ record[t] # 0 THEN record[t] ELSE user[t]
    BY <1>6 DEF Restart, AclSync
  <2>4. record[t] # 0 => user'[t] = record[t] /\ data[t]
    BY <2>1, <2>2, <2>3 DEF PassAt
  <2>5. \A g \in Handler : ~On(g, t)'
    BY <1>6, Restarting DEF On, Past
  <2> QED
    BY <2>1, <2>4, <2>5 DEF PassAt, PassOf, Drops
<1> QED
  BY <1>1, <1>2, <1>3, <1>4, <1>5, <1>6 DEF Next, Works
-----------------------------------------------------------------------------
(* The key in the row is one Meilisearch knows *)

Deletes(h) == Busy(h, "delete")

(* Unless the project is being deleted the key in its row is known, and so
   is the one a request is about to note there.                            *)
KeyInv ==
  {"project", "key"} \cap doubt = {} =>
    /\ key # 0 /\ (\A h \in Handler : ~Deletes(h)) => key \in keys
    /\ \A h \in Handler : At(h, "collect", "note") => req[h].secret \in keys

(* A request that could note a key has created it.                         *)
LEMMA NotesMinted ==
  ASSUME Shape, NEW h \in Handler, Works(h), At(h, "collect", "note")'
  PROVE  MintKey(h)
<1>1. req[h] # None /\ req[h].step = "mint" /\ req[h].kind = "collect" /\ req'[h] # None
  BY Advances DEF At, Advance
<1>2. ~ProjectNext(h)
  BY <1>1 DEF ProjectNext, CreateFolder, CreateRow, DeleteRead, DeleteIndexes, DeleteKey,
              DeleteFolder, DeleteRow, At
<1>3. ~DatabaseNext(h)
  BY <1>1 DEF DatabaseNext, ProvisionRead, CreateUser, CreateData, Record, DeprovisionRead,
              DropData, DropUser, DropRecord, At
<1>4. ~(CollectRead(h) \/ ReadKey(h) \/ NoteKey(h) \/ CountSynced(h)
        \/ InsertRow(h) \/ InstallTrigger(h) \/ TakeBack(h) \/ Follow(h))
  BY <1>1 DEF CollectRead, ReadKey, NoteKey, CountSynced, InsertRow, InstallTrigger, TakeBack,
              Follow, At
<1>5. ~(SwitchRead(h) \/ SwitchCount(h) \/ SwitchRow(h) \/ RowRead(h) \/ Unfollow(h)
        \/ DropTrigger(h) \/ DropIndex(h) \/ DropRow(h))
  BY <1>1 DEF SwitchRead, SwitchCount, SwitchRow, RowRead, Unfollow, DropTrigger, DropIndex,
              DropRow, At
<1>6. ~(VectorRead(h) \/ VectorBuild(h) \/ VectorDrop(h))
  BY <1>1 DEF VectorRead, VectorBuild, VectorDrop, At
<1>7. ~Fail(h)
  <2> SUFFICES ASSUME Fail(h) PROVE FALSE
    OBVIOUS
  <2>1. Swallowed(req[h]) = "read"
    BY <1>1 DEF Swallowed
  <2>2. Over(h)
    BY <2>1, Ending DEF Fail, Shape
  <2> QED
    BY <1>1, <2>2 DEF Over
<1> QED
  BY <1>2, <1>3, <1>4, <1>5, <1>6, <1>7 DEF Works, CollectionNext

(* Keys are created and deleted by the requests that do so.                *)
LEMMA KeysKept ==
  ASSUME NEW h \in Handler, Works(h)
  PROVE  /\ ~DeleteKey(h) => keys \subseteq keys'
         /\ ~NoteKey(h) /\ ~DeleteRow(h) => key' = key
<1>1. CASE ProjectNext(h)
  BY <1>1 DEF ProjectNext, CreateFolder, CreateRow, DeleteRead, DeleteIndexes, DeleteKey,
              DeleteFolder, DeleteRow, store, search
<1>2. CASE DatabaseNext(h)
  BY <1>2 DEF DatabaseNext, ProvisionRead, CreateUser, CreateData, Record, DeprovisionRead,
              DropData, DropUser, DropRecord, store, search
<1>3. CASE CollectRead(h) \/ ReadKey(h) \/ MintKey(h) \/ NoteKey(h) \/ CountSynced(h)
           \/ InsertRow(h) \/ InstallTrigger(h) \/ TakeBack(h) \/ Follow(h)
  BY <1>3 DEF CollectRead, ReadKey, MintKey, NoteKey, CountSynced, InsertRow,
              InstallTrigger, TakeBack, Follow, store, search
<1>4. CASE SwitchRead(h) \/ SwitchCount(h) \/ SwitchRow(h) \/ RowRead(h) \/ Unfollow(h)
           \/ DropTrigger(h) \/ DropIndex(h) \/ DropRow(h)
  BY <1>4 DEF SwitchRead, SwitchCount, SwitchRow, RowRead, Unfollow, DropTrigger,
              DropIndex, DropRow, store, search
<1>5. CASE VectorRead(h) \/ VectorBuild(h) \/ VectorDrop(h) \/ Fail(h)
  BY <1>5 DEF VectorRead, VectorBuild, VectorDrop, Fail, store, search
<1> QED
  BY <1>1, <1>2, <1>3, <1>4, <1>5 DEF Works, CollectionNext

(* A deletion under way ends by removing the row, or leaves all in doubt.  *)
LEMMA DeletionEnds ==
  ASSUME Shape, MineInv, NEW h \in Handler, Works(h), Deletes(h), ~Deletes(h)',
         "project" \notin doubt, "project" \notin doubt'
  PROVE  DeleteRow(h) /\ key' = 0
<1>1. req[h] # None /\ req[h].kind = "delete" /\ req[h].step # "read" /\ Typed
      /\ req[h].on = "project"
  BY DEF Deletes, Busy, Past, Shape, FitInv, Fits
<1>2. Advance(h)
  BY Advances
<1>3. req'[h] = None
  BY <1>2 DEF Advance, Deletes, Busy, Past
<1>4. Mine(h)
  BY <1>1 DEF MineInv, Bound, Past
<1>5. ~DatabaseNext(h) /\ ~CollectionNext(h)
      /\ ~(VectorRead(h) \/ VectorBuild(h) \/ VectorDrop(h))
  BY <1>1, About, Apart
<1>6. ~Fail(h)
  <2> SUFFICES ASSUME Fail(h) PROVE FALSE
    OBVIOUS
  <2>1. CASE Swallowed(req[h]) = "read"
    <3>1. doubt' = doubt \cup Thing
      BY <1>1, <2>1 DEF Fail, Half
    <3> QED
      BY <3>1 DEF Thing
  <2>2. CASE Swallowed(req[h]) # "read"
    <3>1. Go(h, "folder") /\ "folder" \in Step
      BY <1>1, <2>2 DEF Fail, Swallowed, Step
    <3>2. Goes(h, "folder")
      BY <1>1, <3>1, Going
    <3> QED
      BY <1>3, <3>2, NoneAssumption DEF Goes, Now
  <2> QED
    BY <2>1, <2>2
<1>7. ~(CreateFolder(h) \/ CreateRow(h) \/ DeleteRead(h))
  BY <1>1 DEF CreateFolder, CreateRow, DeleteRead, At
<1>8. ~(DeleteIndexes(h) \/ DeleteKey(h) \/ DeleteFolder(h))
  <2> SUFFICES ASSUME NEW s \in {"key", "folder", "row"}, Go(h, s) PROVE FALSE
    BY DEF DeleteIndexes, DeleteKey, DeleteFolder
  <2>1. Goes(h, s)
    BY <1>1, Going DEF Step
  <2> QED
    BY <1>3, <2>1, NoneAssumption DEF Goes, Now
<1> QED
  BY <1>4, <1>5, <1>6, <1>7, <1>8 DEF Works, ProjectNext, DeleteRow

LEMMA KeyStep == Shape /\ SoleInv /\ MineInv /\ KeyInv /\ [Next]_vars => KeyInv'
<1> SUFFICES ASSUME Shape, SoleInv, MineInv, KeyInv, [Next]_vars PROVE KeyInv'
  OBVIOUS
<1>0. Typed /\ StoreType /\ FitInv
  BY DEF Shape
<1>1. ASSUME NEW h \in Handler, Receive(h) PROVE KeyInv'
  <2>1. PICK r : Fresh(h, r)
    BY <1>0, <1>1, Receiving
  <2>2. req[h] = None /\ key' = key /\ keys' = keys /\ doubt \subseteq doubt'
    BY <1>0, <1>1, <2>1, Receiving DEF store, search, Fresh
  <2>3. \A g \in Handler :
          /\ Deletes(g)' <=> Deletes(g)
          /\ At(g, "collect", "note")' => At(g, "collect", "note") /\ req'[g] = req[g]
    BY <2>1, <2>2, NoneAssumption DEF Fresh, Deletes, Busy, Past, At
  <2> QED
    BY <2>2, <2>3 DEF KeyInv
<1>2. ASSUME NEW h \in Handler, Works(h) PROVE KeyInv'
  <2> SUFFICES ASSUME "project" \notin doubt', "key" \notin doubt' PROVE
        /\ key' # 0 /\ (\A g \in Handler : ~Deletes(g)') => key' \in keys'
        /\ \A g \in Handler : At(g, "collect", "note")' => req'[g].secret \in keys'
    BY DEF KeyInv
  <2>1. Advance(h)
    BY <1>2, Advances
  <2>2. "project" \notin doubt /\ "key" \notin doubt
    <3> SUFFICES ASSUME NEW x \in {"project", "key"}, x \in doubt PROVE FALSE
      OBVIOUS
    <3>1. x = req[h].on /\ (DropRecord(h) \/ DropRow(h))
      BY <1>2, DoubtShrinks
    <3> QED
      BY <3>1, About, Apart DEF DatabaseNext, CollectionNext
  <2>3. /\ key # 0 /\ (\A g \in Handler : ~Deletes(g)) => key \in keys
        /\ \A g \in Handler : At(g, "collect", "note") => req[g].secret \in keys
    BY <2>2 DEF KeyInv
  <2>4. ASSUME key' # 0, \A g \in Handler : ~Deletes(g)' PROVE key' \in keys'
    <3>1. ~Deletes(h)
      BY <1>2, <2>2, <2>4, DeletionEnds
    <3>2. \A g \in Handler : ~Deletes(g)
      BY <2>1, <2>4, <3>1 DEF Advance, Deletes, Busy, Past
    <3>3. ~DeleteRow(h) /\ ~DeleteKey(h)
      BY <3>1 DEF DeleteRow, DeleteKey, At, Deletes, Busy, Past
    <3>4. CASE NoteKey(h)
      BY <1>2, <2>3, <2>4, <3>2, <3>3, <3>4, KeysKept DEF NoteKey
    <3>5. CASE ~NoteKey(h)
      BY <1>2, <2>3, <2>4, <3>2, <3>3, <3>5, KeysKept
    <3> QED
      BY <3>4, <3>5
  <2>5. ASSUME NEW g \in Handler, At(g, "collect", "note")' PROVE req'[g].secret \in keys'
    <3>1. CASE g = h
      <4>1. MintKey(h)
        BY <1>2, <2>5, <3>1, NotesMinted
      <4>2. req'[h].secret = sent
        BY <1>2, <4>1, MintAdvances
      <4>3. sent \in keys'
        BY <4>1 DEF MintKey
      <4> QED
        BY <3>1, <4>2, <4>3
    <3>2. CASE g # h
      <4>1. req'[g] = req[g] /\ At(g, "collect", "note")
        BY <2>1, <2>5, <3>2 DEF Advance, At
      <4>2. ~DeleteKey(h)
        <5> SUFFICES ASSUME DeleteKey(h) PROVE FALSE
          OBVIOUS
        <5>1. "key" \in Thing /\ "key" \in Touches(req[g]) /\ "key" \in Touches(req[h])
          BY <4>1 DEF DeleteKey, At, Touches, Thing
        <5> QED
          BY <2>2, <3>2, <4>1, <5>1 DEF DeleteKey, At, SoleInv
      <4> QED
        BY <1>2, <2>3, <4>1, <4>2, KeysKept
    <3> QED
      BY <3>1, <3>2
  <2> QED
    BY <2>4, <2>5
<1>3. ASSUME NEW c \in Collection, Feed(c) PROVE KeyInv'
  BY <1>3 DEF Feed, past, search, KeyInv, Deletes, Busy, Past, At
<1>4. CASE UNCHANGED vars
  BY <1>4 DEF vars, past, store, search, KeyInv, Deletes, Busy, Past, At
<1>5. CASE Restart
  <2> SUFFICES ASSUME {"project", "key"} \cap doubt' = {} PROVE
        /\ key' # 0 /\ (\A g \in Handler : ~Deletes(g)') => key' \in keys'
        /\ \A g \in Handler : At(g, "collect", "note")' => req'[g].secret \in keys'
    BY DEF KeyInv
  <2>1. key' = key /\ keys' = keys /\ {"project", "key"} \cap doubt = {}
    BY <1>5 DEF Restart, search
  <2>2. \A g \in Handler : ~Deletes(g)
    <3> SUFFICES ASSUME NEW g \in Handler, Deletes(g) PROVE FALSE
      OBVIOUS
    <3>1. req[g] # None /\ "key" \in Half(req[g])
      BY DEF Deletes, Busy, Past, Half, Thing
    <3> QED
      BY <1>5, <3>1 DEF Restart
  <2> QED
    BY <1>5, <2>1, <2>2, Restarting DEF KeyInv, At
<1> QED
  BY <1>1, <1>2, <1>3, <1>4, <1>5 DEF Next, Works
-----------------------------------------------------------------------------
(* An enabled collection is followed *)

Settled(c) == rows[c] # None => TableOf[c] \in trigger /\ (rows[c] => <<project, c>> \in worker)

(* The requests that have begun to change how c is followed.               *)
Hot(h, c) ==
  /\ On(h, c)
  /\ \/ At(h, "collect", "trigger")
     \/ req[h].step = "start"
     \/ req[h].kind = "drop" /\ req[h].step \in {"trigger", "index", "row"}

(* What a request on c knows of it.                                        *)
ServeOf(h, c) ==
  On(h, c) =>
    /\ req[h].step = "start" /\ rows[c] # None => TableOf[c] \in trigger
    /\ req[h].kind = "switch" /\ req[h].step \in {"count", "row"} => req[h].was = rows[c]
    /\ req[h].kind = "switch" /\ req[h].step = "stop" => rows[c] = FALSE

ServeAt(c) ==
  /\ (\A h \in Handler : ~Hot(h, c)) => Settled(c)
  /\ \A h \in Handler : ServeOf(h, c)

ServeInv == \A c \in Collection \ doubt : ServeAt(c)

LEMMA ServeFrame ==
  ASSUME NEW c \in Collection, ServeAt(c),
         rows'[c] = rows[c],
         rows[c] # None => /\ project' = project
                           /\ TableOf[c] \in trigger => TableOf[c] \in trigger'
                           /\ <<project, c>> \in worker => <<project, c>> \in worker',
         \A g \in Handler : On(g, c) \/ On(g, c)' => req'[g] = req[g]
  PROVE  ServeAt(c)'
<1>1. \A g \in Handler : (On(g, c)' <=> On(g, c)) /\ (On(g, c) => req'[g] = req[g])
  BY DEF On, Past
<1>2. \A g \in Handler : Hot(g, c)' <=> Hot(g, c)
  BY <1>1 DEF Hot, At
<1>3. \A g \in Handler : ServeOf(g, c)'
  <2> SUFFICES ASSUME NEW g \in Handler, On(g, c) PROVE ServeOf(g, c)'
    BY <1>1 DEF ServeOf
  <2>1. ServeOf(g, c) /\ req'[g] = req[g]
    BY <1>1 DEF ServeAt
  <2> QED
    BY <2>1 DEF ServeOf
<1>4. Settled(c) => Settled(c)'
  BY DEF Settled
<1> QED
  BY <1>2, <1>3, <1>4 DEF ServeAt

(* Nobody else works on c: only the request of h has to be looked at.      *)
LEMMA ServeAlone ==
  ASSUME NEW c \in Collection, NEW h \in Handler,
         \A g \in Handler \ {h} : ~On(g, c)', ServeOf(h, c)', Hot(h, c)' \/ Settled(c)'
  PROVE  ServeAt(c)'
<1>1. \A g \in Handler : ServeOf(g, c)'
  BY DEF ServeOf
<1> QED
  BY <1>1 DEF ServeAt

LEMMA ServeEnds ==
  ASSUME NEW c \in Collection, NEW h \in Handler,
         \A g \in Handler \ {h} : ~On(g, c)', req'[h] = None, Settled(c)'
  PROVE  ServeAt(c)'
<1>1. ~On(h, c)'
  BY DEF On, Past
<1> QED
  BY <1>1, ServeAlone DEF ServeOf

(* What holds of c when one request works on it alone.                     *)
LEMMA ServeNow ==
  ASSUME Shape, SoleInv, MineInv, ServeInv, NEW h \in Handler, NEW c \in Collection \ doubt,
         Works(h), req[h].on = c
  PROVE  /\ req[h] # None /\ Typed /\ StoreType /\ req[h] \in Request /\ Fits(req[h])
         /\ ServeOf(h, c)
         /\ Hot(h, c) \/ Settled(c)
         /\ req[h].step # "read" => On(h, c) /\ Mine(h)
         /\ \A g \in Handler \ {h} : ~On(g, c)'
<1>1. Advance(h) /\ req[h] # None
  BY Advances DEF Advance
<1>2. Typed /\ StoreType /\ req[h] \in Request /\ Fits(req[h])
  BY <1>1, InFlight DEF Shape, FitInv
<1>3. \A g \in Handler \ {h} : ~On(g, c) /\ ~On(g, c)'
  BY <1>1, StaysSole DEF Thing
<1>4. ServeOf(h, c) /\ (Hot(h, c) \/ Settled(c))
  BY <1>3 DEF ServeInv, ServeAt, Hot
<1>5. req[h].kind \notin {"create", "delete", "vector", "unvector"}
  BY <1>2, Apart DEF Fits
<1>6. req[h].step # "read" => On(h, c) /\ Mine(h)
  BY <1>1, <1>5 DEF On, Past, MineInv, Bound
<1> QED
  BY <1>1, <1>2, <1>3, <1>4, <1>6

LEMMA CollectServes ==
  ASSUME Shape, SoleInv, MineInv, ServeInv, NEW h \in Handler, NEW c \in Collection \ doubt,
         req[h].on = c,
         \/ CollectRead(h) \/ ReadKey(h) \/ MintKey(h) \/ NoteKey(h) \/ CountSynced(h)
         \/ InsertRow(h) \/ InstallTrigger(h) \/ TakeBack(h)
  PROVE  ServeAt(c)'
<1>0. Works(h) /\ Advance(h)
  BY Advances DEF Works, CollectionNext
<1>1. /\ req[h] # None /\ Typed /\ StoreType /\ req[h] \in Request /\ Fits(req[h])
      /\ ServeOf(h, c)
      /\ Hot(h, c) \/ Settled(c)
      /\ req[h].step # "read" => On(h, c) /\ Mine(h)
      /\ \A g \in Handler \ {h} : ~On(g, c)'
  BY <1>0, ServeNow
<1>2. req[h].kind = "collect"
  BY DEF CollectRead, ReadKey, MintKey, NoteKey, CountSynced, InsertRow, InstallTrigger, TakeBack, At
<1>3. CASE CollectRead(h) \/ ReadKey(h) \/ MintKey(h) \/ NoteKey(h) \/ CountSynced(h)
  <2>1. ~Hot(h, c) /\ UNCHANGED <<project, rows, trigger, worker>>
    BY <1>2, <1>3 DEF CollectRead, ReadKey, MintKey, NoteKey, CountSynced, At, Hot,
                      store, base, sync
  <2>2. Settled(c)'
    BY <1>1, <2>1 DEF Settled
  <2>3. req'[h] # None => req'[h].kind = "collect" /\ req'[h].step # "start"
    <3>1. CASE CollectRead(h)
      BY <1>1, <1>2, <3>1, Ending, Identifying DEF CollectRead, Over, Now, Step, StoreType
    <3>2. CASE ReadKey(h) \/ NoteKey(h) \/ CountSynced(h)
      <4>1. End(h) \/ \E s \in {"count", "mint", "row"} : Go(h, s)
        BY <3>2 DEF ReadKey, NoteKey, CountSynced
      <4>2. {"count", "mint", "row"} \subseteq Step
        BY DEF Step
      <4> QED
        BY <1>1, <1>2, <4>1, <4>2, Ending, Going DEF Over, Goes, Now
    <3>3. CASE MintKey(h)
      <4>1. sent \in 0..MaxRequests /\ "note" \in Step
        BY DEF Shape, PastType, Step
      <4> QED
        BY <1>1, <1>2, <3>3, <4>1, Minting DEF MintKey, Now
    <3> QED
      BY <1>3, <3>1, <3>2, <3>3
  <2>4. ServeOf(h, c)'
    BY <2>3 DEF ServeOf, On, Past
  <2> QED
    BY <1>1, <2>2, <2>4, ServeAlone
<1>4. CASE InsertRow(h)
  <2>1. CASE End(h)
    <3>1. ~Hot(h, c)
      BY <1>4 DEF InsertRow, At, Hot
    <3>2. ~(Mine(h) /\ rows[c] = None)
      <4> SUFFICES ASSUME Go(h, "trigger") PROVE FALSE
        BY <1>4 DEF InsertRow
      <4>1. Goes(h, "trigger")
        BY <1>1, Going DEF Step
      <4> QED
        BY <1>1, <2>1, <4>1, Ending, NoneAssumption DEF Goes, Now, Over
    <3>3. UNCHANGED <<project, rows, trigger, worker>>
      BY <1>4, <3>2 DEF InsertRow, base
    <3>4. Settled(c)'
      BY <1>1, <3>1, <3>3 DEF Settled
    <3> QED
      BY <1>1, <2>1, <3>4, Ending, ServeEnds DEF Over
  <2>2. CASE ~End(h)
    <3>1. Go(h, "trigger") /\ "trigger" \in Step
      BY <1>4, <2>2 DEF InsertRow, Step
    <3>2. Goes(h, "trigger")
      BY <1>1, <3>1, Going
    <3>3. ServeOf(h, c)' /\ Hot(h, c)'
      BY <1>2, <3>2, NoneAssumption DEF ServeOf, Hot, On, Past, At, Goes, Now
    <3> QED
      BY <1>1, <3>3, ServeAlone
  <2> QED
    BY <2>1, <2>2
<1>5. CASE InstallTrigger(h)
  <2>1. Go(h, "start") /\ "start" \in Step /\ TableOf[c] \in trigger'
    BY <1>5 DEF InstallTrigger, Step
  <2>2. Goes(h, "start")
    BY <1>1, <2>1, Going
  <2>3. ServeOf(h, c)' /\ Hot(h, c)'
    BY <1>2, <2>1, <2>2, NoneAssumption DEF ServeOf, Hot, On, Past, Goes, Now
  <2> QED
    BY <1>1, <2>3, ServeAlone
<1>6. CASE TakeBack(h)
  <2>1. rows'[c] = None /\ End(h)
    BY <1>1, <1>6 DEF TakeBack, At, StoreType
  <2>2. Settled(c)'
    BY <2>1 DEF Settled
  <2> QED
    BY <1>1, <2>1, <2>2, Ending, ServeEnds DEF Over
<1> QED
  BY <1>3, <1>4, <1>5, <1>6

(* Following, and what precedes and follows it.                            *)
LEMMA FollowServes ==
  ASSUME Shape, SoleInv, MineInv, ServeInv, NEW h \in Handler, NEW c \in Collection \ doubt,
         req[h].on = c, Follow(h) \/ Unfollow(h)
  PROVE  ServeAt(c)'
<1>0. Works(h) /\ Advance(h)
  BY Advances DEF Works, CollectionNext
<1>1. /\ req[h] # None /\ Typed /\ StoreType /\ req[h] \in Request /\ Fits(req[h])
      /\ ServeOf(h, c)
      /\ Hot(h, c) \/ Settled(c)
      /\ req[h].step # "read" => On(h, c) /\ Mine(h)
      /\ \A g \in Handler \ {h} : ~On(g, c)'
  BY <1>0, ServeNow
<1>2. On(h, c) /\ Mine(h) /\ project' = project /\ rows' = rows /\ trigger' = trigger
  BY <1>1 DEF Follow, Unfollow, base
<1>3. CASE Follow(h)
  <2>1. End(h) /\ (rows[c] # None => TableOf[c] \in trigger)
    BY <1>1, <1>2, <1>3 DEF Follow, ServeOf
  <2>2. rows[c] # None => <<project, c>> \in worker'
    BY <1>2, <1>3 DEF Follow, Mine
  <2>3. Settled(c)'
    BY <1>2, <2>1, <2>2 DEF Settled
  <2> QED
    BY <1>1, <2>1, <2>3, Ending, ServeEnds DEF Over
<1>4. CASE Unfollow(h)
  <2>1. ~Hot(h, c) /\ Settled(c)
    BY <1>1, <1>4 DEF Unfollow, Hot, At
  <2>2. CASE req[h].kind = "switch"
    <3>1. rows[c] = FALSE /\ End(h)
      BY <1>1, <1>2, <1>4, <2>2 DEF Unfollow, ServeOf
    <3>2. Settled(c)'
      BY <1>2, <2>1, <3>1 DEF Settled
    <3> QED
      BY <1>1, <3>1, <3>2, Ending, ServeEnds DEF Over
  <2>3. CASE req[h].kind \in {"resync", "drop"}
    <3> DEFINE s == IF req[h].kind = "resync" THEN "start" ELSE "trigger"
    <3>1. Go(h, s) /\ s \in Step
      BY <1>4, <2>3 DEF Unfollow, Step
    <3>2. Goes(h, s)
      BY <1>1, <3>1, Going
    <3>3. ServeOf(h, c)'
      BY <1>2, <2>1, <2>3, <3>2 DEF ServeOf, Settled, Goes, Now
    <3>4. Hot(h, c)'
      BY <1>2, <2>3, <3>2, NoneAssumption DEF Hot, On, Past, Goes, Now
    <3> QED
      BY <1>1, <3>3, <3>4, ServeAlone
  <2>4. req[h].kind \in {"switch", "resync", "drop"}
    BY <1>1, <1>4 DEF Unfollow, Fits, Request, Kind
  <2> QED
    BY <2>2, <2>3, <2>4
<1> QED
  BY <1>3, <1>4

LEMMA SwitchServes ==
  ASSUME Shape, SoleInv, MineInv, ServeInv, NEW h \in Handler, NEW c \in Collection \ doubt,
         req[h].on = c, SwitchRead(h) \/ SwitchCount(h) \/ SwitchRow(h) \/ RowRead(h)
  PROVE  ServeAt(c)'
<1>0. Works(h) /\ Advance(h)
  BY Advances DEF Works, CollectionNext
<1>1. /\ req[h] # None /\ Typed /\ StoreType /\ req[h] \in Request /\ Fits(req[h])
      /\ ServeOf(h, c)
      /\ Hot(h, c) \/ Settled(c)
      /\ req[h].step # "read" => On(h, c) /\ Mine(h)
      /\ \A g \in Handler \ {h} : ~On(g, c)'
  BY <1>0, ServeNow
<1>2. Settled(c)
  BY <1>1 DEF SwitchRead, SwitchCount, SwitchRow, RowRead, At, Hot
<1>3. CASE SwitchRead(h)
  <2>1. UNCHANGED <<project, rows, trigger, worker>>
    BY <1>3 DEF SwitchRead, store, base, sync
  <2>2. Settled(c)'
    BY <1>2, <2>1 DEF Settled
  <2>3. CASE rows[c] = None
    BY <1>1, <1>3, <2>2, <2>3, Ending, ServeEnds DEF SwitchRead, Over
  <2>4. CASE rows[c] # None
    <3> DEFINE s == IF req[h].value /\ ~rows[c] THEN "count" ELSE "row"
    <3>1. req' = [req EXCEPT ![h].step = s, ![h].id = project, ![h].was = rows[c]]
          /\ req[h].kind = "switch"
      BY <1>3, <2>4 DEF SwitchRead, At
    <3>2. s \in Step /\ s \in {"count", "row"} /\ project \in 0..MaxRequests /\ rows[c] \in BOOLEAN
      BY <1>1, <2>4 DEF Step, StoreType
    <3> HIDE DEF s
    <3>3. Now(h, s, project, req[h].secret, rows[c])
      BY <1>1, <3>1, <3>2, Comparing
    <3>4. ServeOf(h, c)'
      BY <2>1, <3>1, <3>2, <3>3 DEF ServeOf, Now
    <3> QED
      BY <1>1, <2>2, <3>4, ServeAlone
  <2> QED
    BY <2>3, <2>4
<1>4. CASE SwitchCount(h)
  <2>1. UNCHANGED <<project, rows, trigger, worker>> /\ (End(h) \/ Go(h, "row"))
        /\ req[h].kind = "switch" /\ req[h].step = "count" /\ "row" \in Step
    BY <1>4 DEF SwitchCount, store, base, sync, At, Step
  <2>2. Settled(c)' /\ req[h].was = rows[c]
    BY <1>1, <1>2, <2>1 DEF Settled, ServeOf
  <2>3. CASE End(h)
    BY <1>1, <2>2, <2>3, Ending, ServeEnds DEF Over
  <2>4. CASE Go(h, "row")
    <3>1. Goes(h, "row")
      BY <1>1, <2>1, <2>4, Going
    <3>2. ServeOf(h, c)'
      BY <2>1, <2>2, <3>1 DEF ServeOf, Goes, Now
    <3> QED
      BY <1>1, <2>2, <3>2, ServeAlone
  <2> QED
    BY <2>1, <2>3, <2>4
<1>5. CASE SwitchRow(h)
  <2>1. /\ req[h].kind = "switch" /\ req[h].step = "row" /\ Mine(h) /\ req[h].was = rows[c]
        /\ project' = project /\ trigger' = trigger /\ worker' = worker
    BY <1>1, <1>5 DEF SwitchRow, At, base, ServeOf
  <2>2. CASE rows[c] = None
    <3>1. End(h) /\ rows' = rows
      BY <1>5, <2>2 DEF SwitchRow
    <3>2. Settled(c)'
      BY <2>2, <3>1 DEF Settled
    <3> QED
      BY <1>1, <3>1, <3>2, Ending, ServeEnds DEF Over
  <2>3. CASE rows[c] # None
    <3>1. rows[c] \in BOOLEAN /\ rows'[c] = req[h].value /\ req[h].value \in BOOLEAN
          /\ TableOf[c] \in trigger
      BY <1>1, <1>2, <1>5, <2>1, <2>3 DEF SwitchRow, StoreType, Request, Settled
    <3>2. CASE req[h].value /\ ~rows[c]
      <4>1. Go(h, "start") /\ "start" \in Step
        BY <1>5, <2>1, <2>3, <3>2 DEF SwitchRow, Step
      <4>2. Goes(h, "start")
        BY <1>1, <4>1, Going
      <4>3. ServeOf(h, c)'
        BY <2>1, <3>1, <4>2 DEF ServeOf, Goes, Now
      <4>4. Hot(h, c)'
        BY <4>2, NoneAssumption DEF Hot, On, Past, Goes, Now
      <4> QED
        BY <1>1, <4>3, <4>4, ServeAlone
    <3>3. CASE ~req[h].value /\ rows[c]
      <4>1. Go(h, "stop") /\ "stop" \in Step
        BY <1>5, <2>1, <2>3, <3>3 DEF SwitchRow, Step
      <4>2. Goes(h, "stop")
        BY <1>1, <4>1, Going
      <4>3. ServeOf(h, c)'
        BY <3>1, <3>3, <4>2 DEF ServeOf, Goes, Now
      <4>4. Settled(c)'
        BY <2>1, <3>1, <3>3 DEF Settled
      <4> QED
        BY <1>1, <4>3, <4>4, ServeAlone
    <3>4. CASE req[h].value = rows[c]
      <4>1. End(h) /\ Settled(c)'
        BY <1>2, <1>5, <2>1, <2>3, <3>1, <3>4 DEF SwitchRow, Settled
      <4> QED
        BY <1>1, <4>1, Ending, ServeEnds DEF Over
    <3> QED
      BY <3>1, <3>2, <3>3, <3>4
  <2> QED
    BY <2>2, <2>3
<1>6. CASE RowRead(h)
  <2>1. UNCHANGED <<project, rows, trigger, worker>> /\ req[h].kind \in {"drop", "resync"}
    BY <1>6 DEF RowRead, store, base, sync, At
  <2>2. Settled(c)'
    BY <1>2, <2>1 DEF Settled
  <2>3. CASE rows[c] = None
    BY <1>1, <1>6, <2>2, <2>3, Ending, ServeEnds DEF RowRead, Over
  <2>4. CASE rows[c] # None
    <3>1. req' = [req EXCEPT ![h].step = "stop", ![h].id = project]
          /\ "stop" \in Step /\ project \in 0..MaxRequests
      BY <1>1, <1>6, <2>4 DEF RowRead, StoreType, Step
    <3>2. Now(h, "stop", project, req[h].secret, req[h].was)
      BY <1>1, <3>1, Identifying
    <3>3. ServeOf(h, c)'
      BY <2>1, <3>2 DEF ServeOf, Now
    <3> QED
      BY <1>1, <2>2, <3>3, ServeAlone
  <2> QED
    BY <2>3, <2>4
<1> QED
  BY <1>3, <1>4, <1>5, <1>6

LEMMA DropServes ==
  ASSUME Shape, SoleInv, MineInv, ServeInv, NEW h \in Handler, NEW c \in Collection \ doubt,
         req[h].on = c, DropTrigger(h) \/ DropIndex(h) \/ DropRow(h)
  PROVE  ServeAt(c)'
<1>0. Works(h) /\ Advance(h)
  BY Advances DEF Works, CollectionNext
<1>1. /\ req[h] # None /\ Typed /\ StoreType /\ req[h] \in Request /\ Fits(req[h])
      /\ req[h].step # "read" => On(h, c) /\ Mine(h)
      /\ \A g \in Handler \ {h} : ~On(g, c)'
  BY <1>0, ServeNow
<1>2. CASE DropTrigger(h) \/ DropIndex(h)
  <2> DEFINE s == IF req[h].step = "trigger" THEN "index" ELSE "row"
  <2>1. Go(h, s) /\ s \in Step /\ s \in {"index", "row"} /\ req[h].kind = "drop"
    BY <1>2 DEF DropTrigger, DropIndex, At, Step
  <2> HIDE DEF s
  <2>2. Goes(h, s)
    BY <1>1, <2>1, Going
  <2>3. ServeOf(h, c)' /\ Hot(h, c)'
    BY <2>1, <2>2, NoneAssumption DEF ServeOf, Hot, On, Past, Goes, Now
  <2> QED
    BY <1>1, <2>3, ServeAlone
<1>3. CASE DropRow(h)
  <2>1. rows'[c] = None /\ End(h)
    BY <1>1, <1>3 DEF DropRow, At, StoreType
  <2>2. Settled(c)'
    BY <2>1 DEF Settled
  <2> QED
    BY <1>1, <2>1, <2>2, Ending, ServeEnds DEF Over
<1> QED
  BY <1>2, <1>3
(* An action on another collection leaves c alone; one that removes the
   trigger of its table puts c in doubt.                                   *)
LEMMA OtherCollections ==
  ASSUME Shape, NEW h \in Handler, CollectionNext(h), NEW c \in Collection \ doubt',
         req[h].on # c
  PROVE  /\ rows'[c] = rows[c] /\ project' = project
         /\ rows[c] # None /\ TableOf[c] \in trigger => TableOf[c] \in trigger'
         /\ <<project, c>> \in worker => <<project, c>> \in worker'
<1>1. StoreType
  BY DEF Shape
<1>2. CASE CollectRead(h) \/ ReadKey(h) \/ MintKey(h) \/ NoteKey(h) \/ CountSynced(h)
           \/ SwitchRead(h) \/ SwitchCount(h) \/ RowRead(h) \/ DropIndex(h)
  BY <1>2 DEF CollectRead, ReadKey, MintKey, NoteKey, CountSynced, SwitchRead, SwitchCount,
              RowRead, DropIndex, store, base, sync
<1>3. CASE InsertRow(h) \/ TakeBack(h) \/ SwitchRow(h) \/ DropRow(h)
  BY <1>1, <1>3 DEF InsertRow, TakeBack, SwitchRow, DropRow, StoreType, base
<1>4. CASE InstallTrigger(h) \/ Follow(h)
  BY <1>4 DEF InstallTrigger, Follow, base
<1>5. CASE Unfollow(h)
  BY <1>5 DEF Unfollow, base
<1>6. CASE DropTrigger(h)
  BY <1>6 DEF DropTrigger, base
<1> QED
  BY <1>2, <1>3, <1>4, <1>5, <1>6 DEF CollectionNext

(* The actions that leave the collections alone.                           *)
LEMMA SyncKept ==
  ASSUME NEW h \in Handler, Works(h), ~CollectionNext(h), ~DeleteRow(h)
  PROVE  UNCHANGED <<rows, trigger, worker>>
<1>1. CASE ProjectNext(h)
  BY <1>1 DEF ProjectNext, CreateFolder, CreateRow, DeleteRead, DeleteIndexes, DeleteKey,
              DeleteFolder, store, sync
<1>2. CASE DatabaseNext(h)
  BY <1>2 DEF DatabaseNext, ProvisionRead, CreateUser, CreateData, Record, DeprovisionRead,
              DropData, DropUser, DropRecord, store, sync
<1>3. CASE VectorRead(h) \/ VectorBuild(h) \/ VectorDrop(h) \/ Fail(h)
  BY <1>3 DEF VectorRead, VectorBuild, VectorDrop, Fail, store, sync
<1> QED
  BY <1>1, <1>2, <1>3 DEF Works

LEMMA ServeStep == Shape /\ SoleInv /\ MineInv /\ ServeInv /\ [Next]_vars => ServeInv'
<1> SUFFICES ASSUME Shape, SoleInv, MineInv, ServeInv, [Next]_vars,
                    NEW c \in Collection, c \notin doubt'
             PROVE  ServeAt(c)'
  BY DEF ServeInv
<1>0. Typed /\ FitInv /\ StoreType /\ c \in Thing
  BY DEF Shape, Thing
<1>1. ASSUME NEW h \in Handler, Receive(h) PROVE ServeAt(c)'
  <2>1. PICK r : Fresh(h, r)
    BY <1>0, <1>1, Receiving
  <2>2. ServeAt(c)
    BY <2>1 DEF Fresh, ServeInv
  <2>3. req[h] = None /\ UNCHANGED <<project, rows, trigger, worker>>
    BY <1>0, <1>1, Receiving DEF store, base, sync
  <2>4. \A g \in Handler : On(g, c) \/ On(g, c)' => req'[g] = req[g]
    BY <2>1, <2>3, FreshSame
  <2> QED
    BY <2>2, <2>3, <2>4, ServeFrame
<1>2. ASSUME NEW h \in Handler, Works(h), c \in doubt PROVE ServeAt(c)'
  <2>1. /\ c = req[h].on /\ \A g \in Handler : req'[g] = None
        /\ DropRecord(h) \/ rows'[c] = None
    BY <1>2, DoubtShrinks
  <2>2. ~DropRecord(h)
    BY <2>1, About, Apart DEF DatabaseNext
  <2> QED
    BY <1>2, <2>1, <2>2, ServeEnds DEF On, Past, Settled
<1>3. ASSUME NEW h \in Handler, Works(h), c \notin doubt PROVE ServeAt(c)'
  <2>0. ServeAt(c) /\ Advance(h)
    BY <1>3, Advances DEF ServeInv
  <2>1. CASE DeleteRow(h)
    <3>1. req[h] # None /\ req[h].kind = "delete" /\ Over(h) /\ trigger' = trigger
          /\ worker' = worker
      BY <1>0, <2>1, Ending DEF DeleteRow, At
    <3>2. \A g \in Handler \ {h} : ~On(g, c)
      BY <1>0, <1>3, <3>1, SoleProject
    <3>3. \A g \in Handler : ~On(g, c)'
      BY <3>1, <3>2 DEF Over, On, Past
    <3>4. req[h].on # c
      BY <2>1, About, Apart DEF ProjectNext
    <3>5. CASE Mine(h)
      <4>1. rows'[c] = None
        BY <2>1, <3>5 DEF DeleteRow
      <4> QED
        BY <3>1, <3>3, <4>1, ServeEnds DEF Settled, Over
    <3>6. CASE ~Mine(h)
      BY <2>0, <2>1, <3>1, <3>4, <3>6, OthersSame, ServeFrame DEF DeleteRow
    <3> QED
      BY <3>5, <3>6
  <2>2. CASE CollectionNext(h) /\ req[h].on = c
    BY <1>3, <2>2, CollectServes, FollowServes, SwitchServes, DropServes DEF CollectionNext
  <2>3. CASE CollectionNext(h) /\ req[h].on # c
    BY <2>0, <2>3, OtherCollections, OthersSame, ServeFrame
  <2>4. CASE Fail(h) /\ req[h].on = c
    <3>1. req[h] # None /\ Fits(req[h]) /\ req[h] \in Request
      BY <1>0, <2>4, InFlight DEF Fail, FitInv
    <3>2. req[h].kind \notin {"create", "delete", "provision", "deprovision"}
      BY <2>4, <3>1, Apart DEF Fits
    <3>3. PICK s \in {"index", "row"} : req[h].kind = "drop" /\ Goes(h, s)
      BY <2>4, <3>2, Failing
    <3>4. ServeOf(h, c)' /\ Hot(h, c)'
      BY <2>4, <3>3, NoneAssumption DEF ServeOf, Hot, On, Past, Goes, Now
    <3>5. \A g \in Handler \ {h} : ~On(g, c)'
      BY <1>0, <1>3, <2>0, <2>4, StaysSole
    <3> QED
      BY <3>4, <3>5, ServeAlone
  <2>5. CASE ~CollectionNext(h) /\ ~DeleteRow(h) /\ req[h].on # c
    <3>1. UNCHANGED <<rows, trigger, worker>>
      BY <1>3, <2>5, SyncKept
    <3>2. rows[c] # None => project' = project
      <4>1. CASE CreateRow(h)
        BY <1>0, <4>1 DEF CreateRow, StoreType
      <4> QED
        BY <1>3, <2>5, <4>1, ProjectKept
    <3> QED
      BY <2>0, <2>5, <3>1, <3>2, OthersSame, ServeFrame
  <2>6. CASE ~CollectionNext(h) /\ ~Fail(h) /\ req[h].on = c
    BY <1>3, <2>6, About, Apart DEF Works
  <2> QED
    BY <2>1, <2>2, <2>3, <2>4, <2>5, <2>6
<1>4. ASSUME NEW d \in Collection, Feed(d) PROVE ServeAt(c)'
  <2>1. ServeAt(c)
    BY <1>4 DEF Feed, past, ServeInv
  <2> QED
    BY <1>4, <2>1, ServeFrame DEF Feed, base
<1>5. CASE UNCHANGED vars
  <2>1. ServeAt(c)
    BY <1>5 DEF vars, past, ServeInv
  <2> QED
    BY <1>5, <2>1, ServeFrame DEF vars, store, base, sync
<1>6. CASE Restart
  <2>1. ServeAt(c) /\ UNCHANGED <<project, rows, trigger>>
    BY <1>6 DEF Restart, ServeInv, base
  <2>2. \A g \in Handler : ~Hot(g, c)
    <3> SUFFICES ASSUME NEW g \in Handler, Hot(g, c) PROVE FALSE
      OBVIOUS
    <3>1. req[g] # None /\ req[g].on = c
      BY DEF Hot, On, Past
    <3>2. req[g].kind # "create"
      BY <1>0, <3>1, Apart DEF FitInv, Fits
    <3>3. c \in Half(req[g])
      BY <1>0, <3>1, <3>2 DEF Half
    <3> QED
      BY <1>6, <3>1, <3>3 DEF Restart
  <2>3. Settled(c)'
    BY <1>6, <2>1, <2>2 DEF Restart, ServeAt, Settled, Synced
  <2>4. \A g \in Handler : ~On(g, c)'
    BY <1>6, Restarting DEF On, Past
  <2> QED
    BY <2>3, <2>4 DEF ServeAt, ServeOf
<1> QED
  BY <1>1, <1>2, <1>3, <1>4, <1>5, <1>6 DEF Next, Works
-----------------------------------------------------------------------------
(* The limits *)

(* The requests that will add a synced collection and have counted them;
   one that switches what is switched on already adds none.                *)
Adds(h) ==
  \/ At(h, "collect", "row")
  \/ At(h, "switch", "row") /\ req[h].value /\ ~req[h].was

Renews(h) == At(h, "switch", "row") /\ req[h].value /\ req[h].was

SyncedInv ==
  /\ IsFiniteSet(Synced)
  /\ "limit" \notin doubt =>
       /\ Cardinality(Synced) <= MaxSynced
       /\ \A h \in Handler : Adds(h) => Cardinality(Synced) < MaxSynced
       /\ \A h \in Handler : Renews(h) => rows[req[h].on] \in {TRUE, None}

VectorInv ==
  /\ IsFiniteSet(vectors)
  /\ "vectors" \notin doubt =>
       /\ Cardinality(vectors) <= MaxVectors
       /\ \A h \in Handler : At(h, "vector", "build") => Cardinality(vectors) < MaxVectors

(* Sets of things that are counted.                                        *)
LEMMA FewerCounted ==
  ASSUME NEW S, IsFiniteSet(S), NEW T \in SUBSET S
  PROVE  IsFiniteSet(T) /\ Cardinality(T) <= Cardinality(S)
         /\ Cardinality(T) \in Nat /\ Cardinality(S) \in Nat
BY FS_Subset, FS_CardinalityType

LEMMA OneMoreCounted ==
  ASSUME NEW S, IsFiniteSet(S), NEW x, NEW T \in SUBSET (S \cup {x})
  PROVE  IsFiniteSet(T) /\ Cardinality(T) <= Cardinality(S) + 1
         /\ Cardinality(T) \in Nat /\ Cardinality(S) \in Nat
<1>1. IsFiniteSet(S \cup {x}) /\ Cardinality(S \cup {x}) \in {Cardinality(S), Cardinality(S) + 1}
  BY FS_AddElement
<1>2. IsFiniteSet(T) /\ Cardinality(T) <= Cardinality(S \cup {x}) /\ Cardinality(T) \in Nat
  BY <1>1, FewerCounted
<1>3. Cardinality(S) \in Nat
  BY FS_CardinalityType
<1> QED
  BY <1>1, <1>2, <1>3

(* A request that fails and has counted adds nothing.                      *)
LEMMA FailAdds ==
  ASSUME Shape, NEW h \in Handler, Fail(h)
  PROVE  ~Adds(h)' /\ ~Renews(h)' /\ ~At(h, "vector", "build")'
<1>1. req[h] # None /\ Typed /\ Advance(h)
  BY Advances DEF Fail, Shape, Works
<1>2. req'[h] = None \/ req[h].kind \in {"delete", "drop", "deprovision"}
  <2>1. CASE Swallowed(req[h]) = "read"
    BY <1>1, <2>1, Ending DEF Fail, Over
  <2>2. CASE Swallowed(req[h]) # "read"
    BY <2>2 DEF Swallowed
  <2> QED
    BY <2>1, <2>2
<1> QED
  BY <1>1, <1>2 DEF Advance, Adds, Renews, At
(* Only counting, and reading a row that is switched on, lead to writing it. *)
LEMMA ToRow ==
  ASSUME Shape, NEW h \in Handler, Works(h), req[h].kind \in {"collect", "switch"},
         req'[h] # None, req'[h].step = "row"
  PROVE  CountSynced(h) \/ SwitchCount(h) \/ SwitchRead(h)
<1>0. Typed /\ StoreType /\ PastType /\ req[h] # None
  BY Advances DEF Shape, Advance
<1>n. \A s \in Step : Go(h, s) => s = "row"
  BY <1>0, Going DEF Goes, Now
<1>e. ~End(h)
  BY <1>0, Ending DEF Over
<1>s. {"key", "count", "mint", "note", "trigger", "start", "stop"} \subseteq Step
  BY DEF Step
<1>1. ~ProjectNext(h) /\ ~DatabaseNext(h)
  <2>1. ~ProjectNext(h)
    BY DEF ProjectNext, CreateFolder, CreateRow, DeleteRead, DeleteIndexes, DeleteKey,
           DeleteFolder, DeleteRow, At
  <2>2. ~DatabaseNext(h)
    BY DEF DatabaseNext, ProvisionRead, CreateUser, CreateData, Record, DeprovisionRead,
           DropData, DropUser, DropRecord, At
  <2> QED
    BY <2>1, <2>2
<1>2. ~(VectorRead(h) \/ VectorBuild(h) \/ VectorDrop(h) \/ RowRead(h) \/ DropTrigger(h)
        \/ DropIndex(h) \/ DropRow(h))
  BY DEF VectorRead, VectorBuild, VectorDrop, RowRead, DropTrigger, DropIndex, DropRow, At
<1>3. ~Fail(h)
  BY <1>e DEF Fail, Swallowed
<1>4. ~(TakeBack(h) \/ Follow(h))
  BY <1>e DEF TakeBack, Follow
<1>5. ~(ReadKey(h) \/ NoteKey(h) \/ InsertRow(h) \/ InstallTrigger(h))
  BY <1>n, <1>e, <1>s DEF ReadKey, NoteKey, InsertRow, InstallTrigger
<1>6. ~(SwitchRow(h) \/ Unfollow(h))
  <2>1. ~SwitchRow(h)
    BY <1>n, <1>e, <1>s DEF SwitchRow
  <2>2. ~Unfollow(h)
    <3>1. CASE req[h].kind = "switch"
      BY <1>e, <3>1 DEF Unfollow
    <3>2. CASE req[h].kind = "collect"
      BY <1>0, <3>2 DEF Unfollow, Shape, FitInv, Fits
    <3> QED
      BY <3>1, <3>2
  <2> QED
    BY <2>1, <2>2
<1>7. ~MintKey(h)
  <2> SUFFICES ASSUME MintKey(h) PROVE FALSE
    OBVIOUS
  <2>1. req' = [req EXCEPT ![h].step = "note", ![h].secret = sent] /\ sent \in 0..MaxRequests
    BY <1>0 DEF MintKey, PastType
  <2> QED
    BY <1>0, <1>s, <2>1, Minting DEF Now
<1>8. ~CollectRead(h)
  <2> SUFFICES ASSUME CollectRead(h) PROVE FALSE
    OBVIOUS
  <2>1. req' = [req EXCEPT ![h].step = "key", ![h].id = project] /\ project \in 0..MaxRequests
    BY <1>0, <1>e DEF CollectRead, StoreType
  <2> QED
    BY <1>0, <1>s, <2>1, Identifying DEF Now
<1> QED
  BY <1>1, <1>2, <1>3, <1>4, <1>5, <1>6, <1>7, <1>8 DEF Works, CollectionNext

(* What a switch has read, and where it goes.                              *)
LEMMA SwitchReads ==
  ASSUME Shape, NEW h \in Handler, SwitchRead(h), req'[h] # None, req'[h].step = "row"
  PROVE  /\ ~(req'[h].value /\ ~req'[h].was)
         /\ rows' = rows /\ req'[h].was = rows[req'[h].on]
<1> DEFINE c == req[h].on
           s == IF req[h].value /\ ~rows[c] THEN "count" ELSE "row"
<1>1. Typed /\ StoreType /\ req[h] # None /\ Fits(req[h]) /\ req[h].kind = "switch"
  BY DEF Shape, FitInv, SwitchRead, At
<1>2. ~End(h) /\ rows' = rows
  BY <1>1, Ending DEF Over, SwitchRead, store, sync
<1>3. req' = [req EXCEPT ![h].step = s, ![h].id = project, ![h].was = rows[c]] /\ rows[c] # None
  BY <1>2 DEF SwitchRead
<1>4. s \in Step /\ project \in 0..MaxRequests /\ rows[c] \in BOOLEAN
  BY <1>1, <1>3 DEF Step, StoreType, Fits
<1>5. s # "row" \/ ~(req[h].value /\ ~rows[c])
  OBVIOUS
<1> HIDE DEF s
<1>6. Now(h, s, project, req[h].secret, rows[c])
  BY <1>1, <1>3, <1>4, Comparing
<1> QED
  BY <1>2, <1>5, <1>6 DEF Now

LEMMA AddsCounted ==
  ASSUME Shape, IsFiniteSet(Synced), NEW h \in Handler, Works(h), Adds(h)'
  PROVE  Cardinality(Synced) < MaxSynced /\ rows' = rows
<1>1. req'[h] # None /\ req'[h].step = "row" /\ req'[h].kind \in {"collect", "switch"}
  BY DEF Adds, At
<1>2. req'[h].kind = req[h].kind /\ req[h] # None /\ Typed
  BY <1>1, Advances DEF Advance, Shape
<1>3. CountSynced(h) \/ SwitchCount(h) \/ SwitchRead(h)
  BY <1>1, <1>2, ToRow
<1>4. ~End(h)
  BY <1>1, <1>2, Ending DEF Over
<1>5. CASE CountSynced(h) \/ SwitchCount(h)
  <2>1. ~(Cardinality(Synced) >= MaxSynced) /\ rows' = rows
    BY <1>4, <1>5 DEF CountSynced, SwitchCount, store, sync
  <2>2. MaxSynced \in Nat
    BY Bounds
  <2>3. IsFiniteSet(Synced) => Cardinality(Synced) \in Nat
    BY FS_CardinalityType
  <2> QED
    BY <2>1, <2>2, <2>3
<1>6. CASE SwitchRead(h)
  <2>1. req[h].kind = "switch"
    BY <1>6 DEF SwitchRead, At
  <2> QED
    BY <1>1, <1>2, <1>6, <2>1, SwitchReads DEF Adds, At
<1> QED
  BY <1>3, <1>5, <1>6

LEMMA RenewsRead ==
  ASSUME Shape, NEW h \in Handler, Works(h), Renews(h)'
  PROVE  rows' = rows /\ rows'[req'[h].on] = TRUE
<1>1. req'[h] # None /\ req'[h].step = "row" /\ req'[h].kind = "switch" /\ req'[h].was
  BY DEF Renews, At
<1>2. req'[h].kind = req[h].kind /\ req[h] # None /\ Typed /\ req'[h] \in Request
  BY <1>1, Advances DEF Advance, Shape
<1>3. CountSynced(h) \/ SwitchCount(h) \/ SwitchRead(h)
  BY <1>1, <1>2, ToRow
<1>4. ~CountSynced(h)
  BY <1>1, <1>2 DEF CountSynced, At
<1>5. ~SwitchCount(h)
  <2> SUFFICES ASSUME SwitchCount(h) PROVE FALSE
    OBVIOUS
  <2>1. req[h].step = "count" /\ ~req[h].was
    BY <1>1, <1>2 DEF SwitchCount, At, Shape, FitInv, Fits
  <2>2. req'[h].was = req[h].was
    BY <1>1, <2>1, Advances DEF Advance
  <2> QED
    BY <1>1, <2>1, <2>2
<1>6. req'[h].was = TRUE
  BY <1>1, <1>2 DEF Request
<1> QED
  BY <1>1, <1>3, <1>4, <1>5, <1>6, SwitchReads

(* Only two actions write that a collection is synced.                     *)
LEMMA SyncedShrinks ==
  ASSUME Shape, NEW h \in Handler, Works(h), ~InsertRow(h), ~SwitchRow(h)
  PROVE  \A c \in Collection : rows'[c] \in {rows[c], None}
<1>1. StoreType
  BY DEF Shape
<1>2. CASE ~CollectionNext(h)
  <2>1. CASE DeleteRow(h)
    BY <2>1 DEF DeleteRow
  <2>2. CASE ~DeleteRow(h)
    BY <1>2, <2>2, SyncKept
  <2> QED
    BY <2>1, <2>2
<1>3. CASE CollectRead(h) \/ ReadKey(h) \/ MintKey(h) \/ NoteKey(h) \/ CountSynced(h)
           \/ SwitchRead(h) \/ SwitchCount(h) \/ RowRead(h) \/ DropIndex(h)
  BY <1>3 DEF CollectRead, ReadKey, MintKey, NoteKey, CountSynced, SwitchRead, SwitchCount,
              RowRead, DropIndex, store, sync
<1>4. CASE InstallTrigger(h) \/ Follow(h) \/ Unfollow(h) \/ DropTrigger(h)
  BY <1>4 DEF InstallTrigger, Follow, Unfollow, DropTrigger
<1>5. CASE TakeBack(h) \/ DropRow(h)
  BY <1>1, <1>5 DEF TakeBack, DropRow, StoreType
<1> QED
  BY <1>2, <1>3, <1>4, <1>5 DEF CollectionNext

LEMMA SyncedStep == Shape /\ SoleInv /\ SyncedInv /\ [Next]_vars => SyncedInv'
<1> SUFFICES ASSUME Shape, SoleInv, SyncedInv, [Next]_vars PROVE SyncedInv'
  OBVIOUS
<1>0. Typed /\ StoreType /\ FitInv /\ MaxSynced \in Nat
      /\ IsFiniteSet(Synced) /\ Cardinality(Synced) \in Nat
  BY Bounds, FS_CardinalityType DEF Shape, SyncedInv
<1>1. ASSUME NEW h \in Handler, Receive(h) PROVE SyncedInv'
  <2>1. PICK r : Fresh(h, r)
    BY <1>0, <1>1, Receiving
  <2>2. req[h] = None /\ rows' = rows /\ Synced' = Synced /\ doubt \subseteq doubt'
    BY <1>0, <1>1, <2>1, Receiving DEF store, sync, Fresh, Synced
  <2>3. \A g \in Handler :
          /\ Adds(g)' => Adds(g)
          /\ Renews(g)' => Renews(g) /\ req'[g] = req[g]
    BY <2>1, <2>2, NoneAssumption DEF Fresh, Adds, Renews, At
  <2> QED
    BY <2>2, <2>3 DEF SyncedInv
<1>2. ASSUME NEW h \in Handler, Works(h) PROVE SyncedInv'
  <2>1. Advance(h)
    BY <1>2, Advances
  <2>2. \E x : Synced' \subseteq Synced \cup {x}
    <3>1. CASE InsertRow(h) \/ SwitchRow(h)
      <4>1. Synced' \subseteq Synced \cup {req[h].on}
        BY <1>0, <3>1 DEF InsertRow, SwitchRow, Synced, StoreType
      <4> QED
        BY <4>1
    <3>2. CASE ~InsertRow(h) /\ ~SwitchRow(h)
      <4>1. Synced' \subseteq Synced
        BY <1>2, <3>2, SyncedShrinks, NoneAssumption DEF Synced
      <4> QED
        BY <4>1
    <3> QED
      BY <3>1, <3>2
  <2>3. IsFiniteSet(Synced') /\ Cardinality(Synced') \in Nat
        /\ Cardinality(Synced') <= Cardinality(Synced) + 1
    BY <1>0, <2>2, OneMoreCounted
  <2>4. Synced' \subseteq Synced => Cardinality(Synced') <= Cardinality(Synced)
    BY <1>0, FewerCounted
  <2>5. rows' = rows => Synced' = Synced
    BY DEF Synced
  <2> SUFFICES ASSUME "limit" \notin doubt'
               PROVE  /\ Cardinality(Synced') <= MaxSynced
                      /\ \A g \in Handler : Adds(g)' => Cardinality(Synced') < MaxSynced
                      /\ \A g \in Handler : Renews(g)' => rows'[req'[g].on] \in {TRUE, None}
    BY <2>3 DEF SyncedInv
  <2>6. "limit" \notin doubt
    <3> SUFFICES ASSUME "limit" \in doubt PROVE FALSE
      OBVIOUS
    <3>1. "limit" = req[h].on /\ (DropRecord(h) \/ DropRow(h))
      BY <1>2, DoubtShrinks
    <3> QED
      BY <3>1, About, Apart DEF DatabaseNext, CollectionNext
  <2>7. /\ Cardinality(Synced) <= MaxSynced
        /\ \A g \in Handler : Adds(g) => Cardinality(Synced) < MaxSynced
        /\ \A g \in Handler : Renews(g) => rows[req[g].on] \in {TRUE, None}
    BY <2>6 DEF SyncedInv
  <2>8. CASE InsertRow(h) \/ SwitchRow(h)
    <3>1. req[h] # None /\ "limit" \in Touches(req[h]) /\ "limit" \in Thing
      BY <2>8 DEF InsertRow, SwitchRow, At, Touches, Thing
    <3>2. \A g \in Handler \ {h} : ~Adds(g)' /\ ~Renews(g)'
      <4> SUFFICES ASSUME NEW g \in Handler \ {h}, Adds(g)' \/ Renews(g)' PROVE FALSE
        OBVIOUS
      <4>1. req'[g] = req[g]
        BY <2>1 DEF Advance
      <4>2. req[g] # None /\ "limit" \in Touches(req[g])
        BY <4>1 DEF Adds, Renews, At, Touches
      <4> QED
        BY <2>6, <3>1, <4>2 DEF SoleInv
    <3>3. Cardinality(Synced') <= MaxSynced
      <4>1. CASE Synced' \subseteq Synced
        BY <1>0, <2>3, <2>4, <2>7, <4>1
      <4>2. CASE Adds(h)
        BY <1>0, <2>3, <2>7, <4>2
      <4>3. Synced' \subseteq Synced \/ Adds(h)
        <5>1. CASE InsertRow(h)
          BY <5>1 DEF InsertRow, Adds
        <5>2. CASE SwitchRow(h)
          <6>1. CASE req[h].value /\ ~req[h].was
            BY <5>2, <6>1 DEF SwitchRow, Adds
          <6>2. CASE req[h].value /\ req[h].was
            <7>1. rows[req[h].on] \in {TRUE, None}
              BY <2>7, <5>2, <6>2 DEF SwitchRow, Renews
            <7>2. req[h].value = TRUE
              BY <1>0, <3>1, <6>2, InFlight DEF Request
            <7>3. \A c \in Collection : rows'[c] = rows[c]
              BY <1>0, <5>2, <7>1, <7>2 DEF SwitchRow, StoreType
            <7> QED
              BY <7>3 DEF Synced
          <6>3. CASE ~req[h].value
            <7>1. req[h].value = FALSE
              BY <1>0, <3>1, <6>3, InFlight DEF Request
            <7>2. \A c \in Collection : rows'[c] \in {rows[c], FALSE}
              BY <1>0, <5>2, <7>1 DEF SwitchRow, StoreType
            <7> QED
              BY <7>2 DEF Synced
          <6> QED
            BY <6>1, <6>2, <6>3
        <5> QED
          BY <2>8, <5>1, <5>2
      <4> QED
        BY <4>1, <4>2, <4>3
    <3>4. Adds(h)' => Cardinality(Synced') < MaxSynced
      BY <1>0, <1>2, <2>5, AddsCounted
    <3>5. Renews(h)' => rows'[req'[h].on] \in {TRUE, None}
      BY <1>2, RenewsRead
    <3> QED
      BY <3>2, <3>3, <3>4, <3>5
  <2>9. CASE ~InsertRow(h) /\ ~SwitchRow(h)
    <3>1. \A c \in Collection : rows'[c] \in {rows[c], None}
      BY <1>2, <2>9, SyncedShrinks
    <3>2. Cardinality(Synced') <= Cardinality(Synced)
      <4>1. Synced' \subseteq Synced
        BY <3>1, NoneAssumption DEF Synced
      <4> QED
        BY <2>4, <4>1
    <3>3. ASSUME NEW g \in Handler, Adds(g)' PROVE Cardinality(Synced') < MaxSynced
      <4>1. CASE g = h
        BY <1>0, <1>2, <2>5, <3>3, <4>1, AddsCounted
      <4>2. CASE g # h
        <5>1. Adds(g)
          BY <2>1, <3>3, <4>2 DEF Advance, Adds, At
        <5> QED
          BY <1>0, <2>3, <2>7, <3>2, <5>1
      <4> QED
        BY <4>1, <4>2
    <3>4. ASSUME NEW g \in Handler, Renews(g)' PROVE rows'[req'[g].on] \in {TRUE, None}
      <4>1. CASE g = h
        BY <1>2, <3>4, <4>1, RenewsRead
      <4>2. CASE g # h
        <5>1. Renews(g) /\ req'[g] = req[g]
          BY <2>1, <3>4, <4>2 DEF Advance, Renews, At
        <5>2. req[g].on \in Collection
          BY <1>0, <5>1 DEF Renews, At, FitInv, Fits
        <5> QED
          BY <2>7, <3>1, <5>1, <5>2
      <4> QED
        BY <4>1, <4>2
    <3>5. Cardinality(Synced') <= MaxSynced
      BY <1>0, <2>3, <2>7, <3>2
    <3> QED
      BY <3>3, <3>4, <3>5
  <2> QED
    BY <2>8, <2>9
<1>3. ASSUME NEW c \in Collection, Feed(c) PROVE SyncedInv'
  BY <1>3 DEF Feed, past, SyncedInv, Synced, Adds, Renews, At
<1>4. CASE UNCHANGED vars
  BY <1>4 DEF vars, past, store, sync, SyncedInv, Synced, Adds, Renews, At
<1>5. CASE Restart
  <2>1. Synced' = Synced /\ doubt \subseteq doubt'
    BY <1>5 DEF Restart, Synced
  <2>2. \A h \in Handler : ~Adds(h)' /\ ~Renews(h)'
    BY <1>5, Restarting DEF Adds, Renews, At
  <2> QED
    BY <2>1, <2>2 DEF SyncedInv
<1> QED
  BY <1>1, <1>2, <1>3, <1>4, <1>5 DEF Next, Works

(* Only one action adds a vector index.                                    *)
LEMMA VectorsShrink ==
  ASSUME NEW h \in Handler, Works(h), ~VectorBuild(h)
  PROVE  vectors' \subseteq vectors
<1>1. CASE ProjectNext(h)
  BY <1>1 DEF ProjectNext, CreateFolder, CreateRow, DeleteRead, DeleteIndexes, DeleteKey,
              DeleteFolder, DeleteRow, store
<1>2. CASE DatabaseNext(h)
  BY <1>2 DEF DatabaseNext, ProvisionRead, CreateUser, CreateData, Record, DeprovisionRead,
              DropData, DropUser, DropRecord, store
<1>3. CASE CollectRead(h) \/ ReadKey(h) \/ MintKey(h) \/ NoteKey(h) \/ CountSynced(h)
           \/ InsertRow(h) \/ InstallTrigger(h) \/ TakeBack(h) \/ Follow(h)
  BY <1>3 DEF CollectRead, ReadKey, MintKey, NoteKey, CountSynced, InsertRow,
              InstallTrigger, TakeBack, Follow, store
<1>4. CASE SwitchRead(h) \/ SwitchCount(h) \/ SwitchRow(h) \/ RowRead(h) \/ Unfollow(h)
           \/ DropTrigger(h) \/ DropIndex(h) \/ DropRow(h)
  BY <1>4 DEF SwitchRead, SwitchCount, SwitchRow, RowRead, Unfollow, DropTrigger,
              DropIndex, DropRow, store
<1>5. CASE VectorRead(h) \/ VectorDrop(h) \/ Fail(h)
  BY <1>5 DEF VectorRead, VectorDrop, Fail, store
<1> QED
  BY <1>1, <1>2, <1>3, <1>4, <1>5 DEF Works, CollectionNext

(* Who is about to build an index has counted them.                        *)
LEMMA BuildsCounted ==
  ASSUME Shape, IsFiniteSet(vectors), NEW h \in Handler, Works(h), At(h, "vector", "build")'
  PROVE  Cardinality(vectors) < MaxVectors /\ vectors' = vectors
<1>1. /\ req'[h] # None /\ req[h] # None /\ req[h].kind = "vector" /\ req[h].on = "vectors"
      /\ Typed
  BY Advances DEF At, Advance, Shape, FitInv, Fits
<1>2. ~ProjectNext(h) /\ ~DatabaseNext(h) /\ ~CollectionNext(h)
  BY <1>1, About, Apart
<1>3. ~VectorBuild(h) /\ ~VectorDrop(h) /\ ~Fail(h)
  BY <1>1, Ending, FailAdds DEF VectorBuild, VectorDrop, At, Over
<1>4. VectorRead(h) /\ ~End(h)
  BY <1>1, <1>2, <1>3, Ending DEF Works, Over
<1>5. ~(Cardinality(vectors) >= MaxVectors) /\ vectors' = vectors
  BY <1>4 DEF VectorRead, store
<1>6. Cardinality(vectors) \in Nat /\ MaxVectors \in Nat
  BY Bounds, FS_CardinalityType
<1> QED
  BY <1>5, <1>6

LEMMA VectorStep == Shape /\ SoleInv /\ VectorInv /\ [Next]_vars => VectorInv'
<1> SUFFICES ASSUME Shape, SoleInv, VectorInv, [Next]_vars PROVE VectorInv'
  OBVIOUS
<1>0. Typed /\ FitInv /\ MaxVectors \in Nat
      /\ IsFiniteSet(vectors) /\ Cardinality(vectors) \in Nat
  BY Bounds, FS_CardinalityType DEF Shape, VectorInv
<1>1. ASSUME NEW h \in Handler, Receive(h) PROVE VectorInv'
  <2>1. PICK r : Fresh(h, r)
    BY <1>0, <1>1, Receiving
  <2>2. req[h] = None /\ vectors' = vectors /\ doubt \subseteq doubt'
    BY <1>0, <1>1, <2>1, Receiving DEF store, Fresh
  <2>3. \A g \in Handler : At(g, "vector", "build")' => At(g, "vector", "build")
    BY <2>1, <2>2, NoneAssumption DEF Fresh, At
  <2> QED
    BY <2>2, <2>3 DEF VectorInv
<1>2. ASSUME NEW h \in Handler, Works(h) PROVE VectorInv'
  <2>1. Advance(h)
    BY <1>2, Advances
  <2>2. \E x : vectors' \subseteq vectors \cup {x}
    <3>1. CASE VectorBuild(h)
      BY <3>1 DEF VectorBuild
    <3>2. CASE ~VectorBuild(h)
      BY <1>2, <3>2, VectorsShrink
    <3> QED
      BY <3>1, <3>2
  <2>3. IsFiniteSet(vectors') /\ Cardinality(vectors') \in Nat
        /\ Cardinality(vectors') <= Cardinality(vectors) + 1
    BY <1>0, <2>2, OneMoreCounted
  <2>4. vectors' \subseteq vectors => Cardinality(vectors') <= Cardinality(vectors)
    BY <1>0, FewerCounted
  <2> SUFFICES ASSUME "vectors" \notin doubt'
               PROVE  /\ Cardinality(vectors') <= MaxVectors
                      /\ \A g \in Handler : At(g, "vector", "build")'
                           => Cardinality(vectors') < MaxVectors
    BY <2>3 DEF VectorInv
  <2>5. "vectors" \notin doubt
    <3> SUFFICES ASSUME "vectors" \in doubt PROVE FALSE
      OBVIOUS
    <3>1. "vectors" = req[h].on /\ (DropRecord(h) \/ DropRow(h))
      BY <1>2, DoubtShrinks
    <3> QED
      BY <3>1, About, Apart DEF DatabaseNext, CollectionNext
  <2>6. /\ Cardinality(vectors) <= MaxVectors
        /\ \A g \in Handler : At(g, "vector", "build") => Cardinality(vectors) < MaxVectors
    BY <2>5 DEF VectorInv
  <2>7. At(h, "vector", "build")' => Cardinality(vectors') < MaxVectors
    BY <1>0, <1>2, BuildsCounted
  <2>8. ASSUME NEW g \in Handler \ {h}, At(g, "vector", "build")' PROVE At(g, "vector", "build")
    BY <2>1, <2>8 DEF Advance, At
  <2>9. CASE VectorBuild(h)
    <3>1. At(h, "vector", "build")
      BY <2>9 DEF VectorBuild
    <3>2. Cardinality(vectors') <= MaxVectors
      BY <1>0, <2>3, <2>6, <3>1
    <3>3. \A g \in Handler \ {h} : ~At(g, "vector", "build")'
      <4> SUFFICES ASSUME NEW g \in Handler \ {h}, At(g, "vector", "build") PROVE FALSE
        BY <2>8
      <4>1. "vectors" \in Thing /\ req[g] # None /\ req[h] # None
            /\ req[g].on = "vectors" /\ req[h].on = "vectors"
        BY <1>0, <3>1 DEF At, FitInv, Fits, Thing
      <4>2. "vectors" \in Touches(req[g]) /\ "vectors" \in Touches(req[h])
        BY <1>0, <4>1, TouchesOwn, InFlight DEF FitInv
      <4> QED
        BY <2>5, <4>1, <4>2 DEF SoleInv
    <3> QED
      BY <2>7, <3>2, <3>3
  <2>10. CASE ~VectorBuild(h)
    <3>1. Cardinality(vectors') <= Cardinality(vectors)
      BY <1>2, <2>4, <2>10, VectorsShrink
    <3>2. Cardinality(vectors') <= MaxVectors
      BY <1>0, <2>3, <2>6, <3>1
    <3>3. ASSUME NEW g \in Handler \ {h}, At(g, "vector", "build")'
          PROVE  Cardinality(vectors') < MaxVectors
      <4>1. Cardinality(vectors) < MaxVectors
        BY <2>6, <2>8, <3>3
      <4> QED
        BY <1>0, <2>3, <3>1, <4>1
    <3> QED
      BY <2>7, <3>2, <3>3
  <2> QED
    BY <2>9, <2>10
<1>3. ASSUME NEW c \in Collection, Feed(c) PROVE VectorInv'
  BY <1>3 DEF Feed, past, VectorInv, At
<1>4. CASE UNCHANGED vars
  BY <1>4 DEF vars, past, store, VectorInv, At
<1>5. CASE Restart
  <2>1. vectors' = vectors /\ doubt \subseteq doubt'
    BY <1>5 DEF Restart
  <2>2. \A h \in Handler : ~At(h, "vector", "build")'
    BY <1>5, Restarting DEF At
  <2> QED
    BY <2>1, <2>2 DEF VectorInv
<1> QED
  BY <1>1, <1>2, <1>3, <1>4, <1>5 DEF Next, Works

-----------------------------------------------------------------------------
(* The theorems *)

IInv == Shape /\ SoleInv /\ MineInv /\ PassInv /\ KeyInv /\ ServeInv /\ SyncedInv /\ VectorInv

LEMMA IInvInit == Init => IInv
<1> SUFFICES ASSUME Init PROVE IInv
  OBVIOUS
<1>1. \A h \in Handler : req[h] = None
  BY DEF Init
<1>2. SoleInv /\ MineInv
  BY <1>1 DEF SoleInv, MineInv, Bound, Past
<1>3. PassInv
  BY <1>1 DEF Init, PassInv, PassAt, PassOf, On, Past
<1>4. KeyInv
  BY <1>1 DEF Init, KeyInv, At
<1>5. ServeInv
  BY <1>1 DEF Init, ServeInv, ServeAt, ServeOf, Settled, On, Past
<1>6. SyncedInv
  <2>1. Synced = {}
    BY NoneAssumption DEF Init, Synced
  <2>2. IsFiniteSet(Synced) /\ Cardinality(Synced) = 0 /\ MaxSynced \in Nat
    BY <2>1, FS_EmptySet, Bounds
  <2>3. Cardinality(Synced) <= MaxSynced
    BY <2>2
  <2>4. \A h \in Handler : ~Adds(h) /\ ~Renews(h)
    BY <1>1 DEF Adds, Renews, At
  <2> QED
    BY <2>2, <2>3, <2>4 DEF SyncedInv
<1>7. VectorInv
  <2>1. IsFiniteSet(vectors) /\ Cardinality(vectors) = 0 /\ MaxVectors \in Nat
    BY FS_EmptySet, Bounds DEF Init
  <2> QED
    BY <1>1, <2>1 DEF VectorInv, At
<1> QED
  BY <1>2, <1>3, <1>4, <1>5, <1>6, <1>7, ShapeInit DEF IInv

LEMMA IInvStep == IInv /\ [Next]_vars => IInv'
BY ShapeStep, SoleStep, MineStep, PassStep, KeyStep, ServeStep, SyncedStep, VectorStep DEF IInv

LEMMA AlwaysIInv == Spec => []IInv
BY IInvInit, IInvStep, PTL DEF Spec

LEMMA IInvOpens == IInv => RecordOpens
<1> SUFFICES ASSUME Shape, PassInv, NEW t \in Type, record[t] # 0, t \notin doubt,
                    ~Under("deprovision", t)
             PROVE  user[t] = record[t] /\ data[t]
  BY DEF IInv, RecordOpens
<1>1. \A h \in Handler : ~Drops(h, t)
  BY DEF Under, Drops, On, Past
<1> QED
  BY <1>1 DEF PassInv, PassAt

LEMMA IInvKey == IInv => KeyOpens
<1> SUFFICES ASSUME Shape, KeyInv, key # 0, {"project", "key"} \cap doubt = {},
                    ~Under("delete", "project")
             PROVE  key \in keys
  BY DEF IInv, KeyOpens
<1>1. \A h \in Handler : ~Deletes(h)
  BY DEF Under, Deletes, Busy, Past, Shape, FitInv, Fits
<1> QED
  BY <1>1 DEF KeyInv

LEMMA IInvServed == IInv => Served
<1> SUFFICES ASSUME Shape, ServeInv, NEW c \in Collection, rows[c] # None, c \notin doubt,
                    \A h \in Handler : req[h] # None => c \notin Touches(req[h])
             PROVE  TableOf[c] \in trigger /\ (rows[c] => <<project, c>> \in worker)
  BY DEF IInv, Served
<1>1. \A h \in Handler : ~Hot(h, c)
  BY TouchesOwn, InFlight DEF Hot, On, Past, Shape, FitInv
<1> QED
  BY <1>1 DEF ServeInv, ServeAt, Settled

LEMMA IInvLimits == IInv => LimitsKept
<1> SUFFICES ASSUME SyncedInv, VectorInv PROVE LimitsKept
  BY DEF IInv
<1>1. Cardinality(Synced) \in Nat /\ Cardinality(vectors) \in Nat /\ MaxSynced \in Nat
      /\ MaxVectors \in Nat
  BY Bounds, FS_CardinalityType DEF SyncedInv, VectorInv
<1>2. "limit" \notin doubt => Cardinality(Synced) <= MaxSynced
  BY DEF SyncedInv
<1>3. "vectors" \notin doubt => Cardinality(vectors) <= MaxVectors
  BY DEF VectorInv
<1>4. Cardinality(Synced) > MaxSynced => "limit" \in doubt
  BY <1>1, <1>2
<1>5. Cardinality(vectors) > MaxVectors => "vectors" \in doubt
  BY <1>1, <1>3
<1> QED
  BY <1>4, <1>5 DEF LimitsKept

(* The password in a record opens the database it names, whatever requests,
   failures and restarts came before, unless two requests on that database
   overlapped or one of them stopped half-way
   (project-databases.ts:296-395, 422-462).                                *)
THEOREM StoredPasswordOpens == Spec => []RecordOpens
BY AlwaysIInv, IInvOpens, PTL

(* The key in the row of the project is one Meilisearch knows, though it is
   created and noted in two statements (projects.ts:73-92, 195-211).       *)
THEOREM StoredKeyKnown == Spec => []KeyOpens
BY AlwaysIInv, IInvKey, PTL

(* A collection that no request works on has its trigger, and the worker
   follows it if it is enabled (projects.ts:291-396, 418-563).             *)
THEOREM EnabledIsFollowed == Spec => []Served
BY AlwaysIInv, IInvServed, PTL

(* The limits on synced collections and on vector indexes hold unless two
   requests that count them overlapped (collections.ts:37-92, 128-149,
   project-vector-indexes.ts:231-281).                                     *)
THEOREM LimitsHold == Spec => []LimitsKept
BY AlwaysIInv, IInvLimits, PTL
===========================================================================
