--------------------------- MODULE AccountsProofs ---------------------------
(***************************************************************************)
(* Proofs about Accounts: the types of its state, that a recovery code     *)
(* lets one login through, that the second factor in force is usable and   *)
(* that the codes shown are those stored, for any number of browsers,      *)
(* requests, accounts, secrets and batches of codes.                       *)
(***************************************************************************)
EXTENDS Accounts, TLAPS

-----------------------------------------------------------------------------
(* The types: the rows, the requests in flight, and the rest *)

StoreType ==
  /\ account = None \/ account \in User
  /\ secret = None \/ (account # None /\ secret \in Secret)
  /\ codes \subseteq [batch : 1..MaxBatches, used : BOOLEAN]
  /\ codes # {} => account # None
  /\ session \in [Client -> 0..MaxIds]
  /\ \A c \in Client : session[c] # 0 => Exists(session[c])

RequestType == req \in [Request -> {None} \cup Message]

PageType ==
  /\ page \in [Client -> Page]
  /\ shown \in [Client -> 0..MaxKeys]
  /\ app \subseteq 1..MaxKeys /\ kept \in 0..MaxBatches
  /\ made \in [ids : 0..MaxIds, keys : 0..MaxKeys, batches : 0..MaxBatches]
  /\ doubt \in BOOLEAN /\ passed \in [1..MaxBatches -> Nat]
  /\ raced \subseteq 0..MaxBatches
  /\ faults \in 0..MaxFaults

(* The type invariant in three parts.                                      *)
LEMMA TypeParts == TypeOK <=> StoreType /\ RequestType /\ PageType
BY DEF TypeOK, StoreType, RequestType, PageType

(* The bounds are numbers.                                                 *)
LEMMA Bounds == MaxIds \in Nat /\ MaxKeys \in Nat /\ MaxBatches \in Nat /\ MaxFaults \in Nat
BY AccountsAssumption

(* Nothing is numbered 0.                                                  *)
LEMMA Zeros == 0 \in 0..MaxIds /\ 0 \in 0..MaxKeys /\ 0 \in 0..MaxBatches
BY Bounds

(* Messages are changed field by field.                                    *)
LEMMA MessageStep ==
  ASSUME NEW m \in Message, NEW s \in Step
  PROVE  [m EXCEPT !.step = s] \in Message
BY DEF Message

LEMMA MessageSaid ==
  ASSUME NEW m \in Message, NEW what \in {"ok", "no", "totp"}
  PROVE  [m EXCEPT !.step = "answer", !.said = what] \in Message
BY DEF Message, Step

LEMMA MessageAccount ==
  ASSUME NEW m \in Message, NEW id \in 0..MaxIds, NEW seen \in BOOLEAN
  PROVE  [m EXCEPT !.id = id, !.seen = seen] \in Message
BY DEF Message

(* A step that changes one request leaves the others messages.             *)
LEMMA Requested ==
  ASSUME RequestType, NEW r \in Request, NEW m \in {None} \cup Message,
         req' = [req EXCEPT ![r] = m]
  PROVE  RequestType'
BY DEF RequestType

(* Go, Say and Learn, the three ways a handler moves on, keep the messages typed. *)
LEMMA Going ==
  ASSUME RequestType, NEW r \in Request, req[r] # None, NEW s \in Step, Go(r, s)
  PROVE  RequestType'
<1>1. req[r] \in Message
  BY DEF RequestType
<1>2. req' = [req EXCEPT ![r] = [req[r] EXCEPT !.step = s]]
  BY DEF Go, RequestType
<1> QED
  BY <1>1, <1>2, MessageStep, Requested

LEMMA Saying ==
  ASSUME RequestType, NEW r \in Request, req[r] # None, NEW what \in {"ok", "no", "totp"},
         Say(r, what)
  PROVE  RequestType'
<1>1. req[r] \in Message
  BY DEF RequestType
<1> DEFINE m == [req[r] EXCEPT !.step = "answer", !.said = what, !.key = 0, !.code = 0]
<1>2. m \in Message
  BY <1>1, Zeros DEF Message, Step
<1>3. req' = [req EXCEPT ![r] = m]
  BY DEF Say, RequestType
<1> QED
  BY <1>2, <1>3, Requested

LEMMA Learning ==
  ASSUME RequestType, NEW r \in Request, req[r] # None, NEW s \in Step,
         account \in User, Learn(r, s)
  PROVE  RequestType'
<1>1. req[r] \in Message
  BY DEF RequestType
<1> DEFINE m == [req[r] EXCEPT !.step = s, !.id = account.id, !.seen = account.enabled]
<1>2. [req[r] EXCEPT !.step = s] \in Message
  BY <1>1, MessageStep
<1>3. account.id \in 0..MaxIds /\ account.enabled \in BOOLEAN
  BY Bounds DEF User
<1>4. m = [[req[r] EXCEPT !.step = s] EXCEPT !.id = account.id, !.seen = account.enabled]
  BY <1>1 DEF Message
<1>5. m \in Message
  BY <1>2, <1>3, <1>4, MessageAccount
<1>6. req' = [req EXCEPT ![r] = m]
  BY DEF Learn, RequestType
<1> QED
  BY <1>5, <1>6, Requested

(* What the pages send is typed.                                           *)
LEMMA Sending ==
  ASSUME NEW k \in Kind, NEW c \in Client \cup {None}, NEW s \in Step
  PROVE  /\ Sent(k, c, s) \in Message
         /\ \A key \in 0..MaxKeys : [Sent(k, c, s) EXCEPT !.key = key] \in Message
         /\ \A code \in 0..MaxBatches : [Sent(k, c, s) EXCEPT !.code = code] \in Message
         /\ \A id \in 0..MaxIds : [Sent(k, c, s) EXCEPT !.id = id] \in Message
         /\ [Sent(k, c, s) EXCEPT !.waits = FALSE] \in Message
<1>1. Sent(k, c, s) \in Message
  <2>1. (c # None) \in BOOLEAN
    OBVIOUS
  <2> QED
    BY <2>1, Zeros DEF Sent, Message
<1>2. \A m \in Message, key \in 0..MaxKeys : [m EXCEPT !.key = key] \in Message
  BY DEF Message
<1>3. \A m \in Message, code \in 0..MaxBatches : [m EXCEPT !.code = code] \in Message
  BY DEF Message
<1>4. \A m \in Message, id \in 0..MaxIds : [m EXCEPT !.id = id] \in Message
  BY DEF Message
<1>5. \A m \in Message : [m EXCEPT !.waits = FALSE] \in Message
  BY DEF Message
<1> QED
  BY <1>1, <1>2, <1>3, <1>4, <1>5
(* Every step keeps the rows typed, and their references to the account.   *)
LEMMA StoreTypeStep == TypeOK /\ [Next]_vars => StoreType'
<1> SUFFICES ASSUME TypeOK, [Next]_vars PROVE StoreType'
  OBVIOUS
<1>t. StoreType /\ RequestType /\ PageType
  BY TypeParts
<1> USE <1>t DEF StoreType, Exists, rows, Secret
<1>1. ASSUME UNCHANGED <<rows, session>> PROVE StoreType'
  BY <1>1
<1>2. ASSUME NEW r \in Request, NEW c \in Client, Answer(r, c) PROVE StoreType'
  <2>1. UNCHANGED rows
    BY <1>2 DEF Answer
  <2>2. \/ UNCHANGED session
        \/ session' = [session EXCEPT ![c] = 0]
        \/ Exists(req[r].id) /\ session' = [session EXCEPT ![c] = req[r].id]
    BY <1>2 DEF Answer, SignupAnswer, LoginAnswer
  <2>z. 0 \in 0..MaxIds
    BY Zeros
  <2>3. Exists(req[r].id) => req[r].id \in 0..MaxIds
    BY Bounds DEF User
  <2> QED
    BY <2>1, <2>2, <2>3, <2>z
<1>3. ASSUME NEW r \in Request, LoginMark(r) PROVE StoreType'
  BY <1>3 DEF LoginMark
<1>4. ASSUME NEW r \in Request, SignupUpdate(r) \/ VerifyEnable(r) \/ ResetFlag(r)
      PROVE  StoreType'
  <2>1. /\ UNCHANGED <<secret, codes, session>>
        /\ \/ UNCHANGED account
           \/ account # None /\ account' = [account EXCEPT !.status = "active"]
           \/ account # None /\ \E b \in BOOLEAN : account' = [account EXCEPT !.enabled = b]
    BY <1>4 DEF SignupUpdate, VerifyEnable, ResetFlag
  <2>2. account # None => account' \in User /\ account'.id = account.id
    BY <2>1 DEF User
  <2> QED
    BY <2>1, <2>2, NoneAssumption
<1>5. ASSUME NEW r \in Request, Revoke(r) PROVE StoreType'
  <2>1. UNCHANGED rows /\ \E c : session' = [session EXCEPT ![c] = 0]
    BY <1>5 DEF Revoke
  <2> QED
    BY <2>1, Zeros
<1>6. ASSUME NEW r \in Request, SetupStore(r) PROVE StoreType'
  <2>1. CASE UNCHANGED secret
    BY <1>6, <2>1 DEF SetupStore
  <2>2. CASE ~UNCHANGED secret
    <3>1. account # None /\ secret' = [key |-> made.keys + 1, verified |-> FALSE]
      BY <1>6, <2>2 DEF SetupStore
    <3>2. made.keys + 1 \in 1..MaxKeys
      BY <1>6, <2>2, Bounds DEF SetupStore, PageType
    <3>3. UNCHANGED <<account, codes, session>>
      BY <1>6 DEF SetupStore
    <3> QED
      BY <3>1, <3>2, <3>3
  <2> QED
    BY <2>1, <2>2
<1>7. ASSUME NEW r \in Request, VerifyMark(r) \/ ResetSecret(r) PROVE StoreType'
  BY <1>7 DEF VerifyMark, ResetSecret
<1>8. ASSUME NEW r \in Request, DropCodes(r) \/ ResetCodes(r) PROVE StoreType'
  BY <1>8 DEF DropCodes, ResetCodes
<1>9. ASSUME NEW r \in Request, StoreCodes(r) PROVE StoreType'
  <2>1. CASE UNCHANGED codes
    BY <1>9, <2>1 DEF StoreCodes
  <2>2. CASE ~UNCHANGED codes
    <3>1. account # None /\ codes' = codes \cup {[batch |-> made.batches + 1, used |-> FALSE]}
      BY <1>9, <2>2 DEF StoreCodes
    <3>2. made.batches + 1 \in 1..MaxBatches
      BY <1>9, <2>2, Bounds DEF StoreCodes, PageType
    <3>3. UNCHANGED <<account, secret, session>>
      BY <1>9 DEF StoreCodes
    <3>4. [batch |-> made.batches + 1, used |-> FALSE] \in [batch : 1..MaxBatches, used : BOOLEAN]
      BY <3>2
    <3> QED
      BY <3>1, <3>3, <3>4
  <2> QED
    BY <2>1, <2>2
<1>10. ASSUME CreateUser PROVE StoreType'
  <2>1. account' \in User
    BY <1>10, AccountsAssumption DEF CreateUser, User, PageType
  <2> QED
    BY <1>10, <2>1, NoneAssumption DEF CreateUser
<1>11. ASSUME DeleteUser PROVE StoreType'
  BY <1>11, Zeros DEF DeleteUser
<1>12. ASSUME NEW c \in Client, Scan(c) \/ Link(c) PROVE UNCHANGED <<rows, session>>
  BY <1>12 DEF Scan, Link
<1>13. ASSUME NEW r \in Request, NEW c \in Client,
              \/ SubmitLogin(r, c) \/ SubmitSignup(r, c) \/ OpenSetup(r, c)
              \/ SubmitVerify(r, c) \/ Finish(r, c) \/ LogOut(r, c) \/ Reload(r, c)
       PROVE  UNCHANGED <<rows, session>>
  BY <1>13 DEF SubmitLogin, SubmitSignup, OpenSetup, SubmitVerify, Finish, LogOut, Reload
<1>14. ASSUME NEW r \in Request,
              \/ LoginRead(r) \/ LoginTotp(r) \/ LoginCode(r) \/ SignupRead(r)
              \/ CreateSession(r) \/ Me(r) \/ SetupAuth(r) \/ VerifyAuth(r)
              \/ VerifyMatch(r) \/ ResetRead(r) \/ Unheard(r) \/ Fail(r)
       PROVE  UNCHANGED <<rows, session>>
  BY <1>14 DEF LoginRead, LoginTotp, LoginCode, SignupRead, CreateSession, Me, SetupAuth,
               VerifyAuth, VerifyMatch, ResetRead, Unheard, Fail
<1>15. CASE UNCHANGED vars
  BY <1>15 DEF vars
<1> QED
  BY <1>1, <1>2, <1>3, <1>4, <1>5, <1>6, <1>7, <1>8, <1>9, <1>10, <1>11, <1>12, <1>13, <1>14,
     <1>15 DEF Next, PageNext, ServerNext

(* More fields of an answer.                                               *)
LEMMA MessageFields ==
  ASSUME NEW m \in Message
  PROVE  /\ \A what \in {"ok", "no", "totp"}, key \in 0..MaxKeys :
              [m EXCEPT !.step = "answer", !.said = what, !.key = key] \in Message
         /\ \A what \in {"ok", "no", "totp"}, code \in 0..MaxBatches :
              [m EXCEPT !.step = "answer", !.said = what, !.code = code] \in Message
         /\ [m EXCEPT !.waits = FALSE] \in Message
BY DEF Message, Step

(* Every step keeps the requests typed.                                    *)
LEMMA RequestTypeStep == TypeOK /\ [Next]_vars => RequestType'
<1> SUFFICES ASSUME TypeOK, [Next]_vars PROVE RequestType'
  OBVIOUS
<1> USE TypeParts
<1>u. (account # None => account \in User) /\ RequestType
  BY DEF StoreType
<1>1. ASSUME NEW c \in Client, Scan(c) \/ Link(c) PROVE RequestType'
  BY <1>1, <1>u DEF Scan, Link, RequestType
<1>2. ASSUME NEW r \in Request, NEW c \in Client, SubmitLogin(r, c) PROVE RequestType'
  <2>1. app \subseteq 0..MaxKeys /\ kept \in 0..MaxBatches
    BY Bounds DEF PageType
  <2>2. \A k \in app : [Sent("login", c, "read") EXCEPT !.key = k] \in Message
    BY <2>1, Sending DEF Kind, Step
  <2>3. /\ Sent("login", c, "read") \in Message
        /\ [Sent("login", c, "read") EXCEPT !.code = kept] \in Message
    BY <2>1, Sending DEF Kind, Step
  <2> QED
    BY <1>2, <1>u, <2>2, <2>3, Requested DEF SubmitLogin, Send
<1>3. ASSUME NEW r \in Request, NEW c \in Client,
             SubmitSignup(r, c) \/ OpenSetup(r, c) \/ Finish(r, c) \/ LogOut(r, c)
      PROVE  RequestType'
  <2>1. /\ Sent("signup", c, "read") \in Message
        /\ \A k \in Kind : Sent(k, c, "auth") \in Message
    BY Sending DEF Kind, Step
  <2> QED
    BY <1>3, <1>u, <2>1, Requested DEF SubmitSignup, OpenSetup, Finish, LogOut, Send, Kind
<1>4. ASSUME NEW r \in Request, NEW c \in Client, SubmitVerify(r, c) PROVE RequestType'
  <2>1. app \subseteq 0..MaxKeys
    BY Bounds DEF PageType
  <2>2. \A k \in app : [Sent("verify", c, "auth") EXCEPT !.key = k] \in Message
    BY <2>1, Sending DEF Kind, Step
  <2> QED
    BY <1>4, <1>u, <2>2, Requested DEF SubmitVerify, Send
<1>5. ASSUME NEW r \in Request, NEW c \in Client, Reload(r, c) PROVE RequestType'
  <2>1. Sent("me", c, "auth") \in Message
    BY Sending DEF Kind, Step
  <2>2. \A s \in Request : req[s] # None => [req[s] EXCEPT !.waits = FALSE] \in Message
    BY <1>u, MessageFields DEF RequestType
  <2> QED
    BY <1>5, <1>u, <2>1, <2>2 DEF Reload, RequestType
<1>6. ASSUME NEW r \in Request, NEW c \in Client, Answer(r, c) PROVE RequestType'
  <2>1. [Sent("setup", c, "auth") EXCEPT !.waits = FALSE] \in Message
    BY Sending DEF Kind, Step
  <2>2. \/ req' = [req EXCEPT ![r] = None]
        \/ req' = [req EXCEPT ![r] = [Sent("setup", c, "auth") EXCEPT !.waits = FALSE]]
    BY <1>6 DEF Answer, SignupAnswer, LoginAnswer
  <2> QED
    BY <1>u, <2>1, <2>2, Requested
<1>7. ASSUME NEW r \in Request,
             LoginRead(r) \/ SignupRead(r) \/ SetupAuth(r) \/ VerifyAuth(r)
      PROVE  RequestType'
  <2>1. /\ req[r] # None
        /\ \/ \E what \in {"no", "totp"} : Say(r, what)
           \/ account # None /\ \E s \in {"session", "match", "update", "store"} : Learn(r, s)
    BY <1>7 DEF LoginRead, SignupRead, SetupAuth, VerifyAuth, Auth, At, Known, Exists
  <2> QED
    BY <1>u, <2>1, Saying, Learning DEF Step
<1>8. ASSUME NEW r \in Request,
             \/ LoginTotp(r) \/ LoginCode(r) \/ LoginMark(r) \/ VerifyMatch(r)
             \/ VerifyMark(r) \/ VerifyEnable(r) \/ DropCodes(r)
             \/ ResetSecret(r) \/ ResetCodes(r)
      PROVE  RequestType'
  <2>1. /\ req[r] # None
        /\ \/ Say(r, "no")
           \/ \E s \in {"session", "mark", "verify", "enable", "drop", "codes", "flag"} : Go(r, s)
    BY <1>8 DEF LoginTotp, LoginCode, LoginMark, VerifyMatch, VerifyMark, VerifyEnable,
                DropCodes, ResetSecret, ResetCodes, At
  <2> QED
    BY <1>u, <2>1, Saying, Going DEF Step
<1>9. ASSUME NEW r \in Request, SignupUpdate(r) \/ CreateSession(r) \/ Revoke(r)
      PROVE  RequestType'
  <2>1. /\ req[r] # None
        /\ Go(r, "session") \/ Say(r, "ok") \/ Say(r, "no")
    BY <1>9 DEF SignupUpdate, CreateSession, Revoke, At
  <2> QED
    BY <1>u, <2>1, Saying, Going DEF Step
<1>10. ASSUME NEW r \in Request, Me(r) PROVE RequestType'
  <2>1. CASE Say(r, "no")
    BY <1>10, <1>u, <2>1, Saying DEF Me, At
  <2>2. CASE ~Say(r, "no")
    <3>1. req[r] # None /\ account # None
      BY <1>10, <2>2 DEF Me, At, Known, Exists
    <3>2. req[r] \in Message
      BY <1>u, <3>1 DEF RequestType
    <3>3. [req[r] EXCEPT !.step = "answer", !.said = "ok"] \in Message
      BY <3>2, MessageSaid
    <3>4. account.id \in 0..MaxIds /\ account.enabled \in BOOLEAN
      BY <1>u, <3>1, Bounds DEF User
    <3> DEFINE m == [req[r] EXCEPT !.step = "answer", !.said = "ok", !.id = account.id,
                                   !.seen = account.enabled]
    <3>5. m \in Message
      BY <3>3, <3>4, MessageAccount
    <3>6. req' = [req EXCEPT ![r] = m]
      BY <1>10, <1>u, <2>2 DEF Me, RequestType
    <3> QED
      BY <1>u, <3>5, <3>6, Requested
  <2> QED
    BY <2>1, <2>2
<1>11. ASSUME NEW r \in Request, SetupStore(r) \/ StoreCodes(r) PROVE RequestType'
  <2>1. req[r] # None /\ req[r] \in Message
    BY <1>11, <1>u DEF SetupStore, StoreCodes, At, RequestType
  <2>2. CASE Say(r, "no")
    BY <1>u, <2>1, <2>2, Saying
  <2>3. CASE SetupStore(r) /\ ~Say(r, "no")
    <3>1. made.keys + 1 \in 0..MaxKeys
      BY <2>3, Bounds DEF SetupStore, PageType
    <3>2. req' = [req EXCEPT ![r] = [req[r] EXCEPT !.step = "answer", !.said = "ok",
                                                   !.key = made.keys + 1]]
      BY <1>u, <2>3 DEF SetupStore, RequestType
    <3> QED
      BY <1>u, <2>1, <3>1, <3>2, MessageFields, Requested
  <2>4. CASE StoreCodes(r) /\ ~Say(r, "no")
    <3>1. made.batches + 1 \in 0..MaxBatches
      BY <2>4, Bounds DEF StoreCodes, PageType
    <3>2. req' = [req EXCEPT ![r] = [req[r] EXCEPT !.step = "answer", !.said = "ok",
                                                   !.code = made.batches + 1]]
      BY <1>u, <2>4 DEF StoreCodes, RequestType
    <3> QED
      BY <1>u, <2>1, <3>1, <3>2, MessageFields, Requested
  <2> QED
    BY <1>11, <2>2, <2>3, <2>4
<1>12. ASSUME NEW r \in Request, ResetRead(r) PROVE RequestType'
  <2>1. account.id \in 0..MaxIds
    BY <1>12, <1>u, Bounds DEF ResetRead, User
  <2>2. [Sent("reset", None, "secret") EXCEPT !.id = account.id] \in Message
    BY <2>1, Sending DEF Kind, Step
  <2> QED
    BY <1>12, <1>u, <2>2, Requested DEF ResetRead, Send
<1>13. ASSUME NEW r \in Request, ResetFlag(r) \/ Unheard(r) PROVE RequestType'
  BY <1>13, <1>u, Requested DEF ResetFlag, Unheard
<1>14. ASSUME NEW r \in Request, Fail(r) PROVE RequestType'
  <2>1. req[r] \in Message
    BY <1>14, <1>u DEF Fail, RequestType
  <2>2. \/ req' = [req EXCEPT ![r] = None]
        \/ req' = [req EXCEPT ![r] = [req[r] EXCEPT !.step = "answer", !.said = "no"]]
    BY <1>14, <1>u DEF Fail, RequestType
  <2> QED
    BY <1>u, <2>1, <2>2, MessageSaid, Requested
<1>15. ASSUME CreateUser \/ DeleteUser \/ UNCHANGED vars PROVE RequestType'
  BY <1>15, <1>u DEF CreateUser, DeleteUser, vars, RequestType
<1> QED
  BY <1>1, <1>2, <1>3, <1>4, <1>5, <1>6, <1>7, <1>8, <1>9, <1>10, <1>11, <1>12, <1>13, <1>14,
     <1>15 DEF Next, PageNext, ServerNext

(* One more of something counted is a count. *)
LEMMA Counted ==
  ASSUME NEW S, NEW f \in [S -> Nat], NEW x
  PROVE  [f EXCEPT ![x] = @ + 1] \in [S -> Nat]
<1>1. CASE x \in S
  BY <1>1
<1>2. CASE x \notin S
  BY <1>2
<1> QED
  BY <1>1, <1>2

(* Every step keeps the pages, what the person holds and the counts typed. *)
LEMMA PageTypeStep == TypeOK /\ [Next]_vars => PageType'
<1> SUFFICES ASSUME TypeOK, [Next]_vars PROVE PageType'
  OBVIOUS
<1>t. StoreType /\ RequestType /\ PageType
  BY TypeParts
<1> USE <1>t, Bounds, Zeros DEF PageType, pages, held, past
<1>1. ASSUME UNCHANGED <<pages, held, made, past>> PROVE PageType'
  BY <1>1
<1>2. ASSUME NEW c \in Client, Scan(c) \/ Link(c) PROVE PageType'
  <2>1. /\ UNCHANGED <<shown, kept, made, past>>
        /\ app' = app \/ app' = app \cup ({shown[c]} \ {0})
        /\ \E p \in Page : page' = [page EXCEPT ![c] = p]
    BY <1>2 DEF Scan, Link, Page
  <2>2. {shown[c]} \ {0} \subseteq 1..MaxKeys
    OBVIOUS
  <2> QED
    BY <2>1, <2>2
<1>3. ASSUME NEW r \in Request, NEW c \in Client, OpenSetup(r, c) \/ Reload(r, c)
      PROVE  PageType'
  <2>1. /\ UNCHANGED <<app, kept, made, doubt, passed, raced>>
        /\ shown' = [shown EXCEPT ![c] = 0]
        /\ \E p \in Page : page' = [page EXCEPT ![c] = p]
    BY <1>3 DEF OpenSetup, Reload, Page
  <2>2. faults' \in 0..MaxFaults
    BY <1>3 DEF OpenSetup, Reload
  <2> QED
    BY <2>1, <2>2
<1>4. ASSUME NEW r \in Request, NEW c \in Client, Answer(r, c) PROVE PageType'
  <2>1. req[r].key \in 0..MaxKeys /\ req[r].code \in 0..MaxBatches
    BY <1>4 DEF Answer, RequestType, Message
  <2>2. \/ UNCHANGED page
        \/ \E p \in Page : page' = [page EXCEPT ![c] = p]
    BY <1>4 DEF Answer, SignupAnswer, LoginAnswer, Show, Home, Page
  <2>3. \/ UNCHANGED shown
        \/ \E k \in 0..MaxKeys : shown' = [shown EXCEPT ![c] = k]
    BY <1>4, <2>1 DEF Answer
  <2>4. kept' \in 0..MaxBatches /\ UNCHANGED <<app, made, past>>
    BY <1>4, <2>1 DEF Answer
  <2> QED
    BY <2>2, <2>3, <2>4
<1>5. ASSUME NEW r \in Request, LoginCode(r) PROVE PageType'
  <2>1. raced' \subseteq raced \cup {req[s].code : s \in Under({"login"})}
    BY <1>5 DEF LoginCode
  <2>2. \A s \in Under({"login"}) : req[s].code \in 0..MaxBatches
    BY DEF Under, RequestType, Message
  <2>3. UNCHANGED <<pages, held, made, doubt, passed, faults>>
    BY <1>5 DEF LoginCode
  <2> QED
    BY <2>1, <2>2, <2>3
<1>6. ASSUME NEW r \in Request, LoginMark(r) PROVE PageType'
  <2>1. passed' = [passed EXCEPT ![req[r].code] = @ + 1]
    BY <1>6 DEF LoginMark
  <2>2. passed' \in [1..MaxBatches -> Nat]
    BY <2>1, Counted
  <2>3. UNCHANGED <<pages, held, made, doubt, raced, faults>>
    BY <1>6 DEF LoginMark
  <2> QED
    BY <2>2, <2>3
<1>7. ASSUME NEW r \in Request, SetupStore(r) \/ StoreCodes(r) PROVE PageType'
  <2>1. \/ UNCHANGED made
        \/ made.keys < MaxKeys /\ made' = [made EXCEPT !.keys = made.keys + 1]
        \/ made.batches < MaxBatches /\ made' = [made EXCEPT !.batches = made.batches + 1]
    BY <1>7 DEF SetupStore, StoreCodes
  <2>2. made' \in [ids : 0..MaxIds, keys : 0..MaxKeys, batches : 0..MaxBatches]
    BY <2>1
  <2>3. UNCHANGED <<pages, held, past>>
    BY <1>7 DEF SetupStore, StoreCodes
  <2> QED
    BY <2>2, <2>3
<1>8. ASSUME NEW r \in Request, SetupAuth(r) \/ VerifyAuth(r) \/ ResetRead(r) \/ ResetFlag(r)
      PROVE  PageType'
  BY <1>8 DEF SetupAuth, VerifyAuth, ResetRead, ResetFlag
<1>9. ASSUME NEW r \in Request, DropCodes(r) \/ ResetCodes(r) PROVE PageType'
  BY <1>9 DEF DropCodes, ResetCodes
<1>10. ASSUME NEW r \in Request, Fail(r) PROVE PageType'
  BY <1>10 DEF Fail
<1>11. ASSUME CreateUser PROVE PageType'
  <2>1. made.ids < MaxIds /\ made' = [made EXCEPT !.ids = made.ids + 1]
    BY <1>11 DEF CreateUser
  <2>2. made' \in [ids : 0..MaxIds, keys : 0..MaxKeys, batches : 0..MaxBatches]
    BY <2>1
  <2>3. UNCHANGED <<pages, held, past>>
    BY <1>11 DEF CreateUser
  <2> QED
    BY <2>2, <2>3
<1>12. ASSUME DeleteUser PROVE PageType'
  BY <1>12 DEF DeleteUser
<1>13. ASSUME NEW r \in Request, NEW c \in Client,
              \/ SubmitLogin(r, c) \/ SubmitSignup(r, c) \/ SubmitVerify(r, c)
              \/ Finish(r, c) \/ LogOut(r, c)
       PROVE  UNCHANGED <<pages, held, made, past>>
  BY <1>13 DEF SubmitLogin, SubmitSignup, SubmitVerify, Finish, LogOut
<1>14. ASSUME NEW r \in Request,
              \/ LoginRead(r) \/ LoginTotp(r) \/ SignupRead(r) \/ SignupUpdate(r)
              \/ CreateSession(r) \/ Me(r) \/ Revoke(r) \/ VerifyMatch(r) \/ VerifyMark(r)
              \/ VerifyEnable(r) \/ ResetSecret(r) \/ Unheard(r)
       PROVE  UNCHANGED <<pages, held, made, past>>
  BY <1>14 DEF LoginRead, LoginTotp, SignupRead, SignupUpdate, CreateSession, Me, Revoke,
               VerifyMatch, VerifyMark, VerifyEnable, ResetSecret, Unheard
<1>15. CASE UNCHANGED vars
  BY <1>15 DEF vars
<1> QED
  BY <1>1, <1>2, <1>3, <1>4, <1>5, <1>6, <1>7, <1>8, <1>9, <1>10, <1>11, <1>12, <1>13, <1>14,
     <1>15 DEF Next, PageNext, ServerNext

-----------------------------------------------------------------------------
(* One use of a recovery code: who presents a code, who is between the two *)
(* statements that use it, and what the codes stored say of past logins.   *)

Presents(r) == req[r] # None /\ req[r].kind = "login" /\ req[r].code # 0
Marks(r) == req[r] # None /\ req[r].kind = "login" /\ req[r].step = "mark"

(* codes are presented to an account that nobody deletes *)
Presented ==
  \A r \in Request : Presents(r) => account # None /\ account.role = "superuser"

(* an unused code let nobody through; a batch not generated yet neither *)
Unspent ==
  /\ \A c \in codes : c.batch <= made.batches /\ (~c.used => passed[c.batch] = 0)
  /\ \A b \in 1..MaxBatches : passed[b] > 0 => b <= made.batches

(* a login about to mark a code is the first, or in a race *)
Racing ==
  /\ \A r \in Request : Marks(r) =>
       /\ req[r].code \in 1..MaxBatches /\ req[r].code <= made.batches
       /\ passed[req[r].code] > 0 => req[r].code \in raced
  /\ \A r, s \in Request :
       Marks(r) /\ Marks(s) /\ r # s /\ req[r].code = req[s].code => req[r].code \in raced

UseInv == Presented /\ Unspent /\ Racing /\ CodesUsedOnce

(* A request that presents and marks no other code than before *)
Alike(s) ==
  /\ Presents(s)' => Presents(s)
  /\ Marks(s)' => Marks(s) /\ req'[s].code = req[s].code

AccountAlike ==
  account # None /\ account.role = "superuser" =>
    account' # None /\ account'.role = "superuser"

(* Steps that leave the codes and the requests that present them alone. *)
LEMMA Undisturbed ==
  ASSUME UseInv, UNCHANGED <<codes, passed, raced>>, made'.batches = made.batches,
         AccountAlike, \A s \in Request : Alike(s)
  PROVE  UseInv'
<1>1. Presented'
  BY DEF UseInv, Presented, Alike, AccountAlike
<1>2. Unspent'
  BY DEF UseInv, Unspent
<1>3. Racing'
  BY DEF UseInv, Racing, Alike
<1>4. CodesUsedOnce'
  BY DEF UseInv, CodesUsedOnce
<1> QED
  BY <1>1, <1>2, <1>3, <1>4 DEF UseInv

(* A request that is set to something that presents no code, or to the code it had. *)
LEMMA AlikeSet ==
  ASSUME RequestType, NEW r \in Request, NEW m, req' = [req EXCEPT ![r] = m],
         \/ m = None
         \/ m.kind # "login"
         \/ m.code = 0 /\ m.step # "mark"
         \/ req[r] # None /\ m.kind = req[r].kind /\ m.code = req[r].code /\ m.step # "mark"
  PROVE  \A s \in Request : Alike(s)
<1> SUFFICES ASSUME NEW s \in Request PROVE Alike(s)
  OBVIOUS
<1>1. CASE s = r
  BY <1>1 DEF RequestType, Alike, Presents, Marks
<1>2. CASE s # r
  BY <1>2 DEF RequestType, Alike, Presents, Marks
<1> QED
  BY <1>1, <1>2

(* A handler that moves on but not to the update of a code, answers or learns who asks. *)
LEMMA AlikeGo ==
  ASSUME RequestType, NEW r \in Request, req[r] # None, NEW step \in Step \ {"mark"}, Go(r, step)
  PROVE  \A s \in Request : Alike(s)
<1> DEFINE m == [req[r] EXCEPT !.step = step]
<1>1. req[r] \in Message
  BY DEF RequestType
<1>2. m.kind = req[r].kind /\ m.code = req[r].code /\ m.step = step
  BY <1>1 DEF Message
<1>3. req' = [req EXCEPT ![r] = m]
  BY DEF Go, RequestType
<1> QED
  BY <1>2, <1>3, AlikeSet

LEMMA AlikeSay ==
  ASSUME RequestType, NEW r \in Request, req[r] # None, NEW what, Say(r, what)
  PROVE  \A s \in Request : Alike(s)
<1> DEFINE m == [req[r] EXCEPT !.step = "answer", !.said = what, !.key = 0, !.code = 0]
<1>1. req[r] \in Message
  BY DEF RequestType
<1>2. m.code = 0 /\ m.step = "answer"
  BY <1>1 DEF Message
<1>3. req' = [req EXCEPT ![r] = m]
  BY DEF Say, RequestType
<1> QED
  BY <1>2, <1>3, AlikeSet

LEMMA AlikeLearn ==
  ASSUME RequestType, NEW r \in Request, req[r] # None, NEW step \in Step \ {"mark"},
         Learn(r, step)
  PROVE  \A s \in Request : Alike(s)
<1> DEFINE m == [req[r] EXCEPT !.step = step, !.id = account.id, !.seen = account.enabled]
<1>1. req[r] \in Message
  BY DEF RequestType
<1>2. m.kind = req[r].kind /\ m.code = req[r].code /\ m.step = step
  BY <1>1 DEF Message
<1>3. req' = [req EXCEPT ![r] = m]
  BY DEF Learn, RequestType
<1> QED
  BY <1>2, <1>3, AlikeSet

(* The select of useRecoveryCode: the code found is unused, so no login has *)
(* passed with it, and another login about to mark it makes it a race.     *)
LEMMA UseLoginCode ==
  ASSUME TypeOK, UseInv, NEW r \in Request, LoginCode(r)
  PROVE  UseInv'
<1>t. StoreType /\ RequestType /\ PageType
  BY TypeParts
<1>c. req[r] \in Message /\ req[r] # None /\ req[r].kind = "login" /\ req[r].step = "match"
  BY <1>t DEF LoginCode, At, RequestType
<1>u. UNCHANGED <<codes, passed, made, account>>
  BY DEF LoginCode, rows, past
<1>d. raced \subseteq raced'
  BY DEF LoginCode
<1>1. CASE ~CodeFound(r)
  <2>1. Say(r, "no")
    BY <1>1 DEF LoginCode
  <2>2. \A s \in Request : Alike(s)
    BY <1>t, <1>c, <2>1, AlikeSay
  <2>3. Presented' /\ Unspent' /\ CodesUsedOnce'
    BY <1>u, <1>d, <2>2 DEF UseInv, Presented, Unspent, CodesUsedOnce, Alike
  <2>4. Racing'
    BY <1>u, <1>d, <2>2 DEF UseInv, Racing, Alike
  <2> QED
    BY <2>3, <2>4 DEF UseInv
<1>2. CASE CodeFound(r)
  <2> DEFINE b == req[r].code
  <2>1. b \in 1..MaxBatches /\ b <= made.batches /\ passed[b] = 0
    <3>1. [batch |-> b, used |-> FALSE] \in codes
      BY <1>2 DEF CodeFound
    <3> QED
      BY <3>1, <1>t DEF UseInv, Unspent, StoreType
  <2>2. req' = [req EXCEPT ![r] = [req[r] EXCEPT !.step = "mark"]]
    BY <1>2, <1>t DEF LoginCode, Go, RequestType
  <2>3. /\ req'[r].kind = "login" /\ req'[r].code = b
        /\ \A s \in Request \ {r} : req'[s] = req[s]
    <3>1. req'[r] = [req[r] EXCEPT !.step = "mark"]
      BY <2>2, <1>t DEF RequestType
    <3>2. req'[r].kind = "login" /\ req'[r].code = b
      BY <3>1, <1>c DEF Message
    <3> QED
      BY <2>2, <3>2, <1>t DEF RequestType
  <2>4. \A s \in Request \ {r} : Marks(s) /\ req[s].code = b => b \in raced'
    BY <1>2 DEF LoginCode, Under, Marks
  <2>5. Presented'
    BY <1>u, <1>c, <2>1, <2>3 DEF UseInv, Presented, Presents
  <2>6. Unspent' /\ CodesUsedOnce'
    BY <1>u, <1>d DEF UseInv, Unspent, CodesUsedOnce
  <2>7. \A s \in Request : Marks(s)' =>
          /\ req'[s].code \in 1..MaxBatches /\ req'[s].code <= made'.batches
          /\ passed'[req'[s].code] > 0 => req'[s].code \in raced'
    <3> SUFFICES ASSUME NEW s \in Request, Marks(s)'
                 PROVE  /\ req'[s].code \in 1..MaxBatches /\ req'[s].code <= made'.batches
                        /\ passed'[req'[s].code] > 0 => req'[s].code \in raced'
      OBVIOUS
    <3>1. CASE s = r
      BY <3>1, <2>1, <2>3, <1>u
    <3>2. CASE s # r
      BY <3>2, <2>3, <1>u, <1>d DEF UseInv, Racing, Marks
    <3> QED
      BY <3>1, <3>2
  <2>8. \A s, q \in Request :
          Marks(s)' /\ Marks(q)' /\ s # q /\ req'[s].code = req'[q].code => req'[s].code \in raced'
    <3> SUFFICES ASSUME NEW s \in Request, NEW q \in Request, Marks(s)', Marks(q)', s # q,
                        req'[s].code = req'[q].code
                 PROVE  req'[s].code \in raced'
      OBVIOUS
    <3>1. CASE s = r
      BY <3>1, <2>3, <2>4 DEF Marks
    <3>2. CASE q = r
      BY <3>2, <2>3, <2>4 DEF Marks
    <3>3. CASE s # r /\ q # r
      BY <3>3, <2>3, <1>d DEF UseInv, Racing, Marks
    <3> QED
      BY <3>1, <3>2, <3>3
  <2> QED
    BY <2>5, <2>6, <2>7, <2>8 DEF UseInv, Racing
<1> QED
  BY <1>1, <1>2

(* The update: a second login that gets here was in a race. *)
LEMMA UseLoginMark ==
  ASSUME TypeOK, UseInv, NEW r \in Request, LoginMark(r)
  PROVE  UseInv'
<1>t. StoreType /\ RequestType /\ PageType
  BY TypeParts
<1> DEFINE b == req[r].code
<1>1. Marks(r) /\ req[r] # None
  BY DEF LoginMark, At, Marks
<1>2. b \in 1..MaxBatches /\ b <= made.batches /\ (passed[b] > 0 => b \in raced)
  BY <1>1 DEF UseInv, Racing
<1>3. UNCHANGED <<account, made, raced>>
  BY DEF LoginMark
<1>4. /\ passed' = [passed EXCEPT ![b] = passed[b] + 1] /\ passed \in [1..MaxBatches -> Nat]
      /\ passed'[b] = passed[b] + 1 /\ \A a \in 1..MaxBatches \ {b} : passed'[a] = passed[a]
  BY <1>t, <1>2 DEF LoginMark, PageType
<1>5. Go(r, "session") /\ \A s \in Request : Alike(s)
  BY <1>t, <1>1, AlikeGo DEF LoginMark, Step
<1>6. ~Marks(r)'
  <2>1. req[r] \in Message
    BY <1>t, <1>1 DEF RequestType
  <2>2. req'[r].step = "session"
    BY <1>5, <1>t, <2>1 DEF Go, RequestType, Message
  <2> QED
    BY <2>2 DEF Marks
<1>7. Presented'
  BY <1>3, <1>5 DEF UseInv, Presented, Alike
<1>8. Unspent'
  <2>1. \A c \in codes' : \E d \in codes : /\ c.batch = d.batch
                                            /\ IF d.batch = b THEN c.used ELSE c = d
    <3>1. codes \subseteq [batch : 1..MaxBatches, used : BOOLEAN]
      BY <1>t DEF StoreType
    <3>2. \A d \in codes : /\ [d EXCEPT !.used = TRUE].batch = d.batch
                           /\ [d EXCEPT !.used = TRUE].used = TRUE
      BY <3>1
    <3> QED
      BY <3>2 DEF LoginMark
  <2>2. \A d \in codes : d.batch \in 1..MaxBatches
    BY <1>t DEF StoreType
  <2>3. \A c \in codes' : c.batch <= made'.batches /\ (~c.used => passed'[c.batch] = 0)
    BY <2>1, <2>2, <1>3, <1>4 DEF UseInv, Unspent
  <2>4. \A a \in 1..MaxBatches : passed'[a] > 0 => a <= made'.batches
    BY <1>2, <1>3, <1>4 DEF UseInv, Unspent
  <2> QED
    BY <2>3, <2>4 DEF Unspent
<1>9. Racing'
  <2>1. \A s \in Request : Marks(s)' =>
          /\ s # r /\ Marks(s) /\ req'[s].code = req[s].code
          /\ req[s].code \in 1..MaxBatches /\ req[s].code <= made.batches
          /\ passed[req[s].code] > 0 => req[s].code \in raced
          /\ req[s].code = b => b \in raced
    BY <1>1, <1>5, <1>6 DEF UseInv, Racing, Alike
  <2>2. \A s \in Request : Marks(s)' =>
          /\ req'[s].code \in 1..MaxBatches /\ req'[s].code <= made'.batches
          /\ passed'[req'[s].code] > 0 => req'[s].code \in raced'
    BY <2>1, <1>3, <1>4
  <2>3. \A s, q \in Request :
          Marks(s)' /\ Marks(q)' /\ s # q /\ req'[s].code = req'[q].code => req'[s].code \in raced'
    BY <2>1, <1>3 DEF UseInv, Racing
  <2> QED
    BY <2>2, <2>3 DEF Racing
<1>10. CodesUsedOnce'
  BY <1>2, <1>3, <1>4 DEF UseInv, CodesUsedOnce
<1> QED
  BY <1>7, <1>8, <1>9, <1>10 DEF UseInv

(* A new batch has a number no login has passed with. *)
LEMMA UseStoreCodes ==
  ASSUME TypeOK, UseInv, NEW r \in Request, StoreCodes(r)
  PROVE  UseInv'
<1>t. StoreType /\ RequestType /\ PageType
  BY TypeParts
<1>c. req[r] # None /\ req[r] \in Message /\ req[r].kind = "verify"
  BY <1>t DEF StoreCodes, At, RequestType
<1>u. UNCHANGED <<account, passed, raced>>
  BY DEF StoreCodes, past
<1>1. CASE Say(r, "no") /\ UNCHANGED <<made, codes>>
  BY <1>1, <1>t, <1>c, <1>u, AlikeSay, Undisturbed DEF AccountAlike
<1>2. CASE ~(Say(r, "no") /\ UNCHANGED <<made, codes>>)
  <2>1. /\ made.batches < MaxBatches
        /\ made' = [made EXCEPT !.batches = made.batches + 1]
        /\ codes' = codes \cup {[batch |-> made.batches + 1, used |-> FALSE]}
        /\ req' = [req EXCEPT ![r] = [req[r] EXCEPT !.step = "answer", !.said = "ok",
                                                    !.code = made.batches + 1]]
    BY <1>2, <1>t DEF StoreCodes, RequestType
  <2>2. [req[r] EXCEPT !.step = "answer", !.said = "ok", !.code = made.batches + 1].kind # "login"
    BY <1>c DEF Message
  <2>3. \A s \in Request : Alike(s)
    BY <1>t, <2>1, <2>2, AlikeSet
  <2>4. made.batches \in 0..MaxBatches /\ made'.batches = made.batches + 1
    BY <2>1, <1>t DEF PageType
  <2>5. Presented' /\ CodesUsedOnce'
    BY <1>u, <2>3 DEF UseInv, Presented, CodesUsedOnce, Alike
  <2>6. passed \in [1..MaxBatches -> Nat] /\ MaxBatches \in Nat
    BY <1>t, Bounds DEF PageType
  <2>7. Unspent'
    <3>1. \A c \in codes : c.batch \in 1..MaxBatches
      BY <1>t DEF StoreType
    <3>2. passed[made.batches + 1] = 0
      BY <2>1, <2>4, <2>6 DEF UseInv, Unspent
    <3>3. \A c \in codes' : c.batch <= made'.batches /\ (~c.used => passed'[c.batch] = 0)
      BY <3>1, <3>2, <2>1, <2>4, <2>6, <1>u DEF UseInv, Unspent
    <3>4. \A a \in 1..MaxBatches : passed'[a] > 0 => a <= made'.batches
      BY <2>4, <2>6, <1>u DEF UseInv, Unspent
    <3> QED
      BY <3>3, <3>4 DEF Unspent
  <2>8. Racing'
    <3>1. \A s \in Request : Marks(s)' =>
            /\ Marks(s) /\ req'[s].code = req[s].code
            /\ req[s].code \in 1..MaxBatches /\ req[s].code <= made.batches
            /\ passed[req[s].code] > 0 => req[s].code \in raced
      BY <2>3 DEF UseInv, Racing, Alike
    <3>2. \A s \in Request : Marks(s)' =>
            /\ req'[s].code \in 1..MaxBatches /\ req'[s].code <= made'.batches
            /\ passed'[req'[s].code] > 0 => req'[s].code \in raced'
      BY <3>1, <2>4, <2>6, <1>u
    <3>3. \A s, q \in Request :
            Marks(s)' /\ Marks(q)' /\ s # q /\ req'[s].code = req'[q].code
            => req'[s].code \in raced'
      BY <3>1, <1>u DEF UseInv, Racing
    <3> QED
      BY <3>2, <3>3 DEF Racing
  <2> QED
    BY <2>5, <2>7, <2>8 DEF UseInv
<1> QED
  BY <1>1, <1>2

(* Codes that are deleted leave less to use.                               *)
LEMMA UseDropped ==
  ASSUME TypeOK, UseInv, NEW r \in Request, DropCodes(r) \/ ResetCodes(r)
  PROVE  UseInv'
<1>1. /\ req[r] # None /\ codes' \subseteq codes /\ UNCHANGED <<account, passed, raced, made>>
      /\ Go(r, "codes") \/ Go(r, "flag")
  BY DEF DropCodes, ResetCodes, At, past
<1>2. \A s \in Request : Alike(s)
  BY <1>1, TypeParts, AlikeGo DEF Step
<1>3. Presented' /\ CodesUsedOnce' /\ Unspent'
  BY <1>1, <1>2 DEF UseInv, Presented, CodesUsedOnce, Unspent, Alike
<1>4. Racing'
  BY <1>1, <1>2 DEF UseInv, Racing, Alike
<1> QED
  BY <1>3, <1>4 DEF UseInv

(* A code is presented to a superuser only, whom nobody deletes. *)
LEMMA UseDeleteUser ==
  ASSUME TypeOK, UseInv, DeleteUser
  PROVE  UseInv'
<1>1. \A r \in Request : ~Presents(r) /\ ~Marks(r)
  <2>1. \A r \in Request : ~Presents(r)
    BY DEF UseInv, Presented, DeleteUser
  <2>2. \A r \in Request : Marks(r) => req[r].code # 0
    BY Bounds DEF UseInv, Racing
  <2> QED
    BY <2>1, <2>2 DEF Presents, Marks
<1>2. UNCHANGED <<req, made>> /\ codes' = {} /\ \A b \in 1..MaxBatches : passed'[b] = 0
  BY DEF DeleteUser
<1>3. \A r \in Request : ~Presents(r)' /\ ~Marks(r)'
  BY <1>1, <1>2 DEF Presents, Marks
<1>4. Presented' /\ Racing'
  BY <1>3 DEF Presented, Racing
<1>5. Unspent' /\ CodesUsedOnce'
  BY <1>2 DEF Unspent, CodesUsedOnce
<1> QED
  BY <1>4, <1>5 DEF UseInv

(* A page presents a code only to a superuser, and does not mark it.       *)
LEMMA UseSubmitLogin ==
  ASSUME TypeOK, UseInv, NEW r \in Request, NEW c \in Client, SubmitLogin(r, c)
  PROVE  UseInv'
<1>t. StoreType /\ RequestType /\ PageType
  BY TypeParts
<1>u. UNCHANGED <<account, codes, passed, raced, made>>
  BY DEF SubmitLogin, rows, past
<1>1. PICK m :
        /\ req' = [req EXCEPT ![r] = m] /\ req[r] = None
        /\ m.step = "read" /\ (m.code # 0 => account # None /\ account.role = "superuser")
  <2> DEFINE n == Sent("login", c, "read")
  <2>1. /\ req[r] = None
        /\ \/ req' = [req EXCEPT ![r] = n]
           \/ \E k \in app : req' = [req EXCEPT ![r] = [n EXCEPT !.key = k]]
           \/ /\ account # None /\ account.role = "superuser"
              /\ req' = [req EXCEPT ![r] = [n EXCEPT !.code = kept]]
    BY DEF SubmitLogin, Send
  <2>2. n.step = "read" /\ n.code = 0
    BY DEF Sent
  <2>3. ASSUME NEW k PROVE /\ [n EXCEPT !.key = k].step = "read" /\ [n EXCEPT !.key = k].code = 0
                           /\ [n EXCEPT !.code = k].step = "read"
    BY DEF Sent
  <2>4. CASE req' = [req EXCEPT ![r] = n]
    BY <2>1, <2>2, <2>4
  <2>5. ASSUME NEW k \in app, req' = [req EXCEPT ![r] = [n EXCEPT !.key = k]]
        PROVE  \E m : /\ req' = [req EXCEPT ![r] = m] /\ m.step = "read" /\ m.code = 0
    BY <2>3, <2>5
  <2>6. CASE /\ account # None /\ account.role = "superuser"
             /\ req' = [req EXCEPT ![r] = [n EXCEPT !.code = kept]]
    BY <2>1, <2>3, <2>6
  <2> QED
    BY <2>1, <2>4, <2>5, <2>6
<1>2. \A s \in Request : /\ s # r => req'[s] = req[s]
                         /\ req'[r] = m
  BY <1>1, <1>t DEF RequestType
<1>3. Presented'
  BY <1>1, <1>2, <1>u DEF UseInv, Presented, Presents
<1>4. \A s \in Request : Marks(s)' => Marks(s) /\ req'[s].code = req[s].code
  BY <1>1, <1>2 DEF Marks
<1>5. Unspent' /\ CodesUsedOnce'
  BY <1>u DEF UseInv, Unspent, CodesUsedOnce
<1>6. Racing'
  BY <1>u, <1>4 DEF UseInv, Racing
<1> QED
  BY <1>3, <1>5, <1>6 DEF UseInv

(* Steps of the pages other than presenting a code *)
LEMMA UsePages ==
  ASSUME TypeOK, UseInv, NEW c \in Client,
         \/ Scan(c) \/ Link(c)
         \/ \E r \in Request :
              \/ SubmitSignup(r, c) \/ OpenSetup(r, c) \/ SubmitVerify(r, c) \/ Finish(r, c)
              \/ LogOut(r, c) \/ Reload(r, c) \/ Answer(r, c)
  PROVE  UseInv'
<1>t. RequestType
  BY TypeParts
<1>1. UNCHANGED <<account, codes, passed, raced, made>>
  BY DEF Scan, Link, SubmitSignup, OpenSetup, SubmitVerify, Finish, LogOut, Reload, Answer,
         rows, past
<1>2. ASSUME Scan(c) \/ Link(c) PROVE \A s \in Request : Alike(s)
  BY <1>2 DEF Scan, Link, Alike, Presents, Marks
<1>3. ASSUME NEW r \in Request,
             \/ SubmitSignup(r, c) \/ OpenSetup(r, c) \/ SubmitVerify(r, c)
             \/ Finish(r, c) \/ LogOut(r, c)
      PROVE  \A s \in Request : Alike(s)
  <2>1. PICK m : req' = [req EXCEPT ![r] = m] /\ m.kind # "login"
    BY <1>3 DEF SubmitSignup, OpenSetup, SubmitVerify, Finish, LogOut, Send, Sent
  <2> QED
    BY <1>t, <2>1, AlikeSet
<1>4. ASSUME NEW r \in Request, Reload(r, c) PROVE \A s \in Request : Alike(s)
  <2>1. ASSUME NEW s \in Request PROVE Alike(s)
    <3>1. CASE s = r
      BY <1>4, <3>1 DEF Reload, Alike, Presents, Marks, Sent
    <3>2. CASE s # r /\ req[s] # None
      <4>1. req[s] \in Message
        BY <3>2, <1>t DEF RequestType
      <4>2. req'[s] = req[s] \/ req'[s] = [req[s] EXCEPT !.waits = FALSE]
        BY <1>4, <3>2 DEF Reload
      <4>3. req'[s].kind = req[s].kind /\ req'[s].code = req[s].code /\ req'[s].step = req[s].step
        BY <4>1, <4>2 DEF Message
      <4> QED
        BY <3>2, <4>3 DEF Alike, Presents, Marks
    <3>3. CASE s # r /\ req[s] = None
      BY <1>4, <3>3 DEF Reload, Alike, Presents, Marks
    <3> QED
      BY <3>1, <3>2, <3>3
  <2> QED
    BY <2>1
<1>5. ASSUME NEW r \in Request, Answer(r, c) PROVE \A s \in Request : Alike(s)
  <2>1. \/ req' = [req EXCEPT ![r] = None]
        \/ req' = [req EXCEPT ![r] = [Sent("setup", c, "auth") EXCEPT !.waits = FALSE]]
    BY <1>5 DEF Answer, SignupAnswer, LoginAnswer
  <2>2. [Sent("setup", c, "auth") EXCEPT !.waits = FALSE].kind # "login"
    BY DEF Sent
  <2> QED
    BY <1>t, <2>1, <2>2, AlikeSet
<1>6. \A s \in Request : Alike(s)
  BY <1>2, <1>3, <1>4, <1>5
<1> QED
  BY <1>1, <1>6, Undisturbed DEF AccountAlike

(* Steps of the requests that read and write no code *)
LEMMA UseRequests ==
  ASSUME TypeOK, UseInv, NEW r \in Request,
         \/ LoginRead(r) \/ LoginTotp(r) \/ SignupRead(r) \/ SignupUpdate(r)
         \/ CreateSession(r) \/ Me(r) \/ Revoke(r) \/ SetupAuth(r) \/ SetupStore(r)
         \/ VerifyAuth(r) \/ VerifyMatch(r) \/ VerifyMark(r) \/ VerifyEnable(r)
         \/ ResetRead(r) \/ ResetSecret(r) \/ ResetFlag(r) \/ Unheard(r) \/ Fail(r)
  PROVE  UseInv'
<1>t. StoreType /\ RequestType /\ PageType
  BY TypeParts
<1>1. /\ UNCHANGED <<codes, passed, raced>>
      /\ UNCHANGED made \/ made' = [made EXCEPT !.keys = made.keys + 1]
      /\ \/ UNCHANGED account
         \/ account' = [account EXCEPT !.status = "active"]
         \/ \E b \in BOOLEAN : account' = [account EXCEPT !.enabled = b]
  BY DEF LoginRead, LoginTotp, SignupRead, SignupUpdate, CreateSession, Me, Revoke, SetupAuth,
         SetupStore, VerifyAuth, Auth, VerifyMatch, VerifyMark, VerifyEnable, ResetRead,
         ResetSecret, ResetFlag, Unheard, Fail, rows, past
<1>2. AccountAlike
  <2>1. account # None => account \in User
    BY <1>t DEF StoreType
  <2>2. account # None => account' \in User /\ account'.role = account.role
    BY <1>1, <2>1 DEF User
  <2> QED
    BY <2>2, NoneAssumption DEF AccountAlike
<1>3. made'.batches = made.batches
  BY <1>1, <1>t DEF PageType
<1>4. ASSUME \/ LoginRead(r) \/ LoginTotp(r) \/ SignupRead(r) \/ SignupUpdate(r)
             \/ CreateSession(r) \/ Revoke(r) \/ SetupAuth(r) \/ VerifyAuth(r)
             \/ VerifyMatch(r) \/ VerifyMark(r) \/ VerifyEnable(r) \/ ResetSecret(r)
      PROVE  \A s \in Request : Alike(s)
  <2>1. /\ req[r] # None
        /\ \/ \E what \in {"ok", "no", "totp"} : Say(r, what)
           \/ \E s \in Step \ {"mark"} : Go(r, s) \/ Learn(r, s)
    BY <1>4 DEF LoginRead, LoginTotp, SignupRead, SignupUpdate, CreateSession, Revoke, SetupAuth,
                VerifyAuth, Auth, VerifyMatch, VerifyMark, VerifyEnable, ResetSecret, At, Step
  <2> QED
    BY <1>t, <2>1, AlikeSay, AlikeGo, AlikeLearn
<1>5. ASSUME Me(r) \/ SetupStore(r) PROVE \A s \in Request : Alike(s)
  <2>1. req[r] # None /\ req[r] \in Message /\ req[r].kind # "login"
    BY <1>5, <1>t DEF Me, SetupStore, At, RequestType
  <2>2. CASE Say(r, "no")
    BY <1>t, <2>1, <2>2, AlikeSay
  <2>3. CASE ~Say(r, "no")
    <3>1. PICK m :
            /\ req' = [req EXCEPT ![r] = m]
            /\ \/ m = [req[r] EXCEPT !.step = "answer", !.said = "ok", !.id = account.id,
                                     !.seen = account.enabled]
               \/ m = [req[r] EXCEPT !.step = "answer", !.said = "ok", !.key = made.keys + 1]
      <4>1. CASE Me(r)
        <5>1. req' = [req EXCEPT ![r] = [req[r] EXCEPT !.step = "answer", !.said = "ok",
                                           !.id = account.id, !.seen = account.enabled]]
          BY <4>1, <1>t, <2>3 DEF Me, RequestType
        <5> QED
          BY <5>1
      <4>2. CASE SetupStore(r)
        <5>1. req' = [req EXCEPT ![r] = [req[r] EXCEPT !.step = "answer", !.said = "ok",
                                           !.key = made.keys + 1]]
          BY <4>2, <1>t, <2>3 DEF SetupStore, RequestType
        <5> QED
          BY <5>1
      <4> QED
        BY <1>5, <4>1, <4>2
    <3>2. m.kind # "login"
      BY <2>1, <3>1 DEF Message
    <3> QED
      BY <1>t, <3>1, <3>2, AlikeSet
  <2> QED
    BY <2>2, <2>3
<1>6. ASSUME ResetRead(r) PROVE \A s \in Request : Alike(s)
  <2>1. [Sent("reset", None, "secret") EXCEPT !.id = account.id].kind # "login"
    BY DEF Sent
  <2> QED
    BY <1>6, <1>t, <2>1, AlikeSet DEF ResetRead, Send
<1>7. ASSUME ResetFlag(r) \/ Unheard(r) PROVE \A s \in Request : Alike(s)
  BY <1>7, <1>t, AlikeSet DEF ResetFlag, Unheard
<1>8. ASSUME Fail(r) PROVE \A s \in Request : Alike(s)
  <2> DEFINE m == [req[r] EXCEPT !.step = "answer", !.said = "no"]
  <2>1. req[r] # None /\ req[r] \in Message
    BY <1>8, <1>t DEF Fail, RequestType
  <2>2. m.kind = req[r].kind /\ m.code = req[r].code /\ m.step # "mark"
    BY <2>1 DEF Message
  <2>3. req' = [req EXCEPT ![r] = None] \/ req' = [req EXCEPT ![r] = m]
    BY <1>8 DEF Fail
  <2> QED
    BY <1>t, <2>1, <2>2, <2>3, AlikeSet
<1>9. \A s \in Request : Alike(s)
  BY <1>4, <1>5, <1>6, <1>7, <1>8
<1> QED
  BY <1>1, <1>2, <1>3, <1>9, Undisturbed

(* Every step keeps the invariant.                                         *)
LEMMA UseInvStep == TypeOK /\ UseInv /\ [Next]_vars => UseInv'
<1> SUFFICES ASSUME TypeOK, UseInv, [Next]_vars PROVE UseInv'
  OBVIOUS
<1>1. CASE PageNext
  BY <1>1, UsePages, UseSubmitLogin DEF PageNext
<1>2. CASE ServerNext
  BY <1>2, UseRequests, UseLoginCode, UseLoginMark, UseStoreCodes, UseDropped DEF ServerNext
<1>3. CASE CreateUser
  <2>1. UNCHANGED <<codes, passed, raced, req>> /\ account = None
    BY <1>3 DEF CreateUser, past
  <2>2. made'.batches = made.batches
    BY <1>3, TypeParts DEF CreateUser, PageType
  <2>3. \A s \in Request : Alike(s)
    BY <2>1 DEF Alike, Presents, Marks
  <2> QED
    BY <2>1, <2>2, <2>3, Undisturbed DEF AccountAlike
<1>4. CASE DeleteUser
  BY <1>4, UseDeleteUser
<1>5. CASE UNCHANGED vars
  <2>1. UNCHANGED <<account, codes, passed, raced, made, req>>
    BY <1>5 DEF vars, rows, past
  <2>2. \A s \in Request : Alike(s)
    BY <2>1 DEF Alike, Presents, Marks
  <2> QED
    BY <2>1, <2>2, Undisturbed DEF AccountAlike
<1> QED
  BY <1>1, <1>2, <1>3, <1>4, <1>5 DEF Next

-----------------------------------------------------------------------------
(* Numbers are not given out twice: what is stored, shown, scanned or      *)
(* under way refers to accounts, secrets and batches already made.         *)

Numbered ==
  \A r \in Request : req[r] # None =>
    req[r].id <= made.ids /\ req[r].key <= made.keys /\ req[r].code <= made.batches

FreshInv ==
  /\ account # None => account.id <= made.ids
  /\ secret # None => secret.key <= made.keys
  /\ app \subseteq 1..made.keys /\ kept <= made.batches
  /\ \A c \in Client : shown[c] <= made.keys
  /\ Numbered

(* a step numbers what it makes upwards *)
Grows ==
  /\ made.ids \in Nat /\ made'.ids \in Nat /\ made.ids <= made'.ids
  /\ made.keys \in Nat /\ made'.keys \in Nat /\ made.keys <= made'.keys
  /\ made.batches \in Nat /\ made'.batches \in Nat /\ made.batches <= made'.batches

(* The pages write nothing on the server. *)
LEMMA PageFrame == PageNext => UNCHANGED <<account, secret, codes, made, doubt, passed, raced>>
<1>1. ASSUME NEW r \in Request, NEW c \in Client,
             \/ SubmitLogin(r, c) \/ SubmitSignup(r, c) \/ OpenSetup(r, c) \/ SubmitVerify(r, c)
             \/ Finish(r, c) \/ LogOut(r, c) \/ Reload(r, c)
      PROVE  UNCHANGED <<account, secret, codes, made, doubt, passed, raced>>
  BY <1>1 DEF SubmitLogin, SubmitSignup, OpenSetup, SubmitVerify, Finish, LogOut, Reload, rows, past
<1>2. ASSUME NEW r \in Request, NEW c \in Client, Answer(r, c)
      PROVE  UNCHANGED <<account, secret, codes, made, doubt, passed, raced>>
  BY <1>2 DEF Answer, rows, past
<1>3. ASSUME NEW c \in Client, Scan(c) \/ Link(c)
      PROVE  UNCHANGED <<account, secret, codes, made, doubt, passed, raced>>
  BY <1>3 DEF Scan, Link, rows, past
<1> QED
  BY <1>1, <1>2, <1>3 DEF PageNext

LEMMA GrowsStep == TypeOK /\ [Next]_vars => Grows
<1> SUFFICES ASSUME TypeOK, [Next]_vars PROVE Grows
  OBVIOUS
<1>1. made \in [ids : 0..MaxIds, keys : 0..MaxKeys, batches : 0..MaxBatches]
  BY TypeParts DEF PageType
<1>2. made.ids \in Nat /\ made.keys \in Nat /\ made.batches \in Nat
  BY <1>1, Bounds
<1>3. \/ UNCHANGED made
      \/ made' = [made EXCEPT !.ids = made.ids + 1]
      \/ made' = [made EXCEPT !.keys = made.keys + 1]
      \/ made' = [made EXCEPT !.batches = made.batches + 1]
  <2>1. CASE PageNext
    BY <2>1, PageFrame
  <2>2. ASSUME NEW r \in Request, SetupStore(r) \/ StoreCodes(r)
        PROVE  \/ UNCHANGED made
               \/ made' = [made EXCEPT !.keys = made.keys + 1]
               \/ made' = [made EXCEPT !.batches = made.batches + 1]
    BY <2>2 DEF SetupStore, StoreCodes
  <2>3. ASSUME NEW r \in Request,
               \/ LoginRead(r) \/ LoginTotp(r) \/ LoginCode(r) \/ LoginMark(r)
               \/ SignupRead(r) \/ SignupUpdate(r) \/ CreateSession(r)
               \/ Me(r) \/ Revoke(r) \/ SetupAuth(r) \/ VerifyAuth(r) \/ VerifyMatch(r)
               \/ VerifyMark(r) \/ VerifyEnable(r) \/ DropCodes(r)
               \/ ResetRead(r) \/ ResetSecret(r) \/ ResetCodes(r) \/ ResetFlag(r)
               \/ Unheard(r) \/ Fail(r)
        PROVE  UNCHANGED made
    BY <2>3 DEF LoginRead, LoginTotp, LoginCode, LoginMark, SignupRead, SignupUpdate,
                CreateSession, Me, Revoke, SetupAuth, VerifyAuth, VerifyMatch, VerifyMark,
                VerifyEnable, DropCodes, ResetRead, ResetSecret, ResetCodes, ResetFlag, Unheard,
                Fail
  <2>4. CASE CreateUser \/ DeleteUser \/ UNCHANGED vars
    BY <2>4 DEF CreateUser, DeleteUser, vars
  <2> QED
    BY <2>1, <2>2, <2>3, <2>4 DEF Next, ServerNext
<1> QED
  BY <1>1, <1>2, <1>3 DEF Grows

(* the numbers of a request *)
LEMMA RequestNumbers ==
  ASSUME TypeOK, NEW r \in Request, req[r] # None
  PROVE  req[r] \in Message /\ req[r].id \in Nat /\ req[r].key \in Nat /\ req[r].code \in Nat
BY TypeParts, Bounds DEF RequestType, Message

LEMMA NumberedSet ==
  ASSUME TypeOK, Numbered, Grows, NEW r \in Request, NEW m, req' = [req EXCEPT ![r] = m],
         m # None => m.id <= made'.ids /\ m.key <= made'.keys /\ m.code <= made'.batches
  PROVE  Numbered'
<1> SUFFICES ASSUME NEW s \in Request, req'[s] # None
             PROVE  /\ req'[s].id <= made'.ids /\ req'[s].key <= made'.keys
                    /\ req'[s].code <= made'.batches
  BY DEF Numbered
<1>1. req \in [Request -> {None} \cup Message]
  BY TypeParts DEF RequestType
<1>2. CASE s = r
  BY <1>1, <1>2
<1>3. CASE s # r
  <2>1. req'[s] = req[s]
    BY <1>1, <1>3
  <2> QED
    BY <2>1, RequestNumbers DEF Numbered, Grows
<1> QED
  BY <1>2, <1>3

LEMMA NumberedGo ==
  ASSUME TypeOK, Numbered, Grows, NEW r \in Request, req[r] # None, NEW step, Go(r, step)
  PROVE  Numbered'
<1> DEFINE m == [req[r] EXCEPT !.step = step]
<1>1. m.id = req[r].id /\ m.key = req[r].key /\ m.code = req[r].code
  BY RequestNumbers DEF Message
<1>2. req' = [req EXCEPT ![r] = m]
  BY TypeParts DEF Go, RequestType
<1>3. m.id <= made'.ids /\ m.key <= made'.keys /\ m.code <= made'.batches
  BY <1>1, RequestNumbers DEF Numbered, Grows
<1> QED
  BY <1>2, <1>3, NumberedSet

LEMMA NumberedSay ==
  ASSUME TypeOK, Numbered, Grows, NEW r \in Request, req[r] # None, NEW what, Say(r, what)
  PROVE  Numbered'
<1> DEFINE m == [req[r] EXCEPT !.step = "answer", !.said = what, !.key = 0, !.code = 0]
<1>1. m.id = req[r].id /\ m.key = 0 /\ m.code = 0
  BY RequestNumbers DEF Message
<1>2. req' = [req EXCEPT ![r] = m]
  BY TypeParts DEF Say, RequestType
<1>3. m.id <= made'.ids /\ m.key <= made'.keys /\ m.code <= made'.batches
  BY <1>1, RequestNumbers DEF Numbered, Grows
<1> QED
  BY <1>2, <1>3, NumberedSet

LEMMA NumberedLearn ==
  ASSUME TypeOK, FreshInv, Grows, NEW r \in Request, req[r] # None, NEW step,
         account # None, Learn(r, step)
  PROVE  Numbered'
<1> DEFINE m == [req[r] EXCEPT !.step = step, !.id = account.id, !.seen = account.enabled]
<1>1. m.id = account.id /\ m.key = req[r].key /\ m.code = req[r].code
  BY RequestNumbers DEF Message
<1>2. req' = [req EXCEPT ![r] = m]
  BY TypeParts DEF Learn, RequestType
<1>3. account.id \in Nat
  BY TypeParts, Bounds DEF StoreType, User
<1>4. m.id <= made'.ids /\ m.key <= made'.keys /\ m.code <= made'.batches
  BY <1>1, <1>3, RequestNumbers DEF FreshInv, Numbered, Grows
<1>5. Numbered
  BY DEF FreshInv
<1> QED
  BY <1>2, <1>4, <1>5, NumberedSet

(* What the pages send refers to secrets scanned and codes held.           *)
LEMMA NumberedPages ==
  ASSUME TypeOK, FreshInv, Grows, PageNext
  PROVE  Numbered'
<1>n. Numbered /\ app \subseteq 1..made.keys /\ kept <= made.batches /\ kept \in Nat
  BY TypeParts, Bounds DEF FreshInv, PageType
<1>1. ASSUME NEW c \in Client, Scan(c) \/ Link(c) PROVE Numbered'
  BY <1>1, <1>n, RequestNumbers DEF Scan, Link, Numbered, Grows
<1>2. ASSUME NEW r \in Request, NEW k, NEW c, NEW step, NEW key, NEW code,
             \/ req' = [req EXCEPT ![r] = Sent(k, c, step)]
             \/ req' = [req EXCEPT ![r] = [Sent(k, c, step) EXCEPT !.waits = FALSE]]
             \/ req' = [req EXCEPT ![r] = [Sent(k, c, step) EXCEPT !.key = key]] /\ key \in app
             \/ req' = [req EXCEPT ![r] = [Sent(k, c, step) EXCEPT !.code = code]] /\ code = kept
      PROVE  Numbered'
  <2>1. ASSUME NEW m, m.id = 0, m.key = 0 \/ m.key \in app, m.code = 0 \/ m.code = kept
        PROVE  m.id <= made'.ids /\ m.key <= made'.keys /\ m.code <= made'.batches
    <3>1. \A a \in app : a <= made'.keys
      BY <1>n DEF Grows
    <3>2. kept <= made'.batches
      BY <1>n DEF Grows
    <3>3. 0 <= made'.ids /\ 0 <= made'.keys /\ 0 <= made'.batches
      BY DEF Grows
    <3> QED
      BY <2>1, <3>1, <3>2, <3>3, Zenon
  <2>2. CASE req' = [req EXCEPT ![r] = Sent(k, c, step)]
    <3>1. Sent(k, c, step).id = 0 /\ Sent(k, c, step).key = 0 /\ Sent(k, c, step).code = 0
      BY DEF Sent
    <3> QED
      BY <2>1, <2>2, <3>1, <1>n, NumberedSet
  <2>3. CASE req' = [req EXCEPT ![r] = [Sent(k, c, step) EXCEPT !.waits = FALSE]]
    <3> DEFINE m == [Sent(k, c, step) EXCEPT !.waits = FALSE]
    <3>1. m.id = 0 /\ m.key = 0 /\ m.code = 0
      BY DEF Sent
    <3> QED
      BY <2>1, <2>3, <3>1, <1>n, NumberedSet
  <2>4. CASE req' = [req EXCEPT ![r] = [Sent(k, c, step) EXCEPT !.key = key]] /\ key \in app
    <3> DEFINE m == [Sent(k, c, step) EXCEPT !.key = key]
    <3>1. m.id = 0 /\ m.key = key /\ m.code = 0
      BY DEF Sent
    <3> QED
      BY <2>1, <2>4, <3>1, <1>n, NumberedSet
  <2>5. CASE req' = [req EXCEPT ![r] = [Sent(k, c, step) EXCEPT !.code = code]] /\ code = kept
    <3> DEFINE m == [Sent(k, c, step) EXCEPT !.code = code]
    <3>1. m.id = 0 /\ m.key = 0 /\ m.code = kept
      BY <2>5 DEF Sent
    <3> QED
      BY <2>1, <2>5, <3>1, <1>n, NumberedSet
  <2> QED
    BY <1>2, <2>2, <2>3, <2>4, <2>5
<1>3. ASSUME NEW r \in Request, NEW c \in Client,
             \/ SubmitLogin(r, c) \/ SubmitSignup(r, c) \/ OpenSetup(r, c) \/ SubmitVerify(r, c)
             \/ Finish(r, c) \/ LogOut(r, c)
      PROVE  Numbered'
  <2>1. \E k \in Kind, step \in Step :
          \/ req' = [req EXCEPT ![r] = Sent(k, c, step)]
          \/ \E key \in app : req' = [req EXCEPT ![r] = [Sent(k, c, step) EXCEPT !.key = key]]
          \/ req' = [req EXCEPT ![r] = [Sent(k, c, step) EXCEPT !.code = kept]]
    BY <1>3 DEF SubmitLogin, SubmitSignup, OpenSetup, SubmitVerify, Finish, LogOut, Send, Kind, Step
  <2> QED
    BY <1>2, <2>1
<1>4. ASSUME NEW r \in Request, NEW c \in Client, Answer(r, c) PROVE Numbered'
  <2>1. \/ req' = [req EXCEPT ![r] = None]
        \/ req' = [req EXCEPT ![r] = [Sent("setup", c, "auth") EXCEPT !.waits = FALSE]]
    BY <1>4 DEF Answer, SignupAnswer, LoginAnswer
  <2> QED
    BY <1>2, <1>n, <2>1, NumberedSet
<1>5. ASSUME NEW r \in Request, NEW c \in Client, Reload(r, c) PROVE Numbered'
  <2> SUFFICES ASSUME NEW s \in Request, req'[s] # None
               PROVE  /\ req'[s].id <= made'.ids /\ req'[s].key <= made'.keys
                      /\ req'[s].code <= made'.batches
    BY DEF Numbered
  <2>1. CASE s = r
    <3>1. req'[s] = Sent("me", c, "auth")
      BY <1>5, <2>1 DEF Reload
    <3>2. req'[s].id = 0 /\ req'[s].key = 0 /\ req'[s].code = 0
      BY <3>1 DEF Sent
    <3> QED
      BY <3>2 DEF Grows
  <2>2. CASE s # r
    <3>1. req[s] # None /\ (req'[s] = req[s] \/ req'[s] = [req[s] EXCEPT !.waits = FALSE])
      BY <1>5, <2>2 DEF Reload
    <3>2. req'[s].id = req[s].id /\ req'[s].key = req[s].key /\ req'[s].code = req[s].code
      BY <3>1, RequestNumbers DEF Message
    <3> QED
      BY <3>1, <3>2, <1>n, RequestNumbers DEF Numbered, Grows
  <2> QED
    BY <2>1, <2>2
<1> QED
  BY <1>1, <1>3, <1>4, <1>5 DEF PageNext

(* What the handlers note in a request is stored, or just made.            *)
LEMMA NumberedServer ==
  ASSUME TypeOK, FreshInv, Grows, ServerNext
  PROVE  Numbered'
<1> PICK r \in Request :
      \/ LoginRead(r) \/ LoginTotp(r) \/ LoginCode(r) \/ LoginMark(r)
      \/ SignupRead(r) \/ SignupUpdate(r) \/ CreateSession(r)
      \/ Me(r) \/ Revoke(r) \/ SetupAuth(r) \/ SetupStore(r)
      \/ VerifyAuth(r) \/ VerifyMatch(r) \/ VerifyMark(r) \/ VerifyEnable(r)
      \/ DropCodes(r) \/ StoreCodes(r)
      \/ ResetRead(r) \/ ResetSecret(r) \/ ResetCodes(r) \/ ResetFlag(r)
      \/ Unheard(r) \/ Fail(r)
  BY DEF ServerNext
<1>n. Numbered
  BY DEF FreshInv
<1>a. account # None => account.id \in Nat /\ account.id <= made'.ids
  BY TypeParts, Bounds DEF StoreType, User, FreshInv, Grows
<1>0. 0 <= made'.ids /\ 0 <= made'.keys /\ 0 <= made'.batches
  BY DEF Grows
<1>b. req[r] # None =>
        req[r].id <= made'.ids /\ req[r].key <= made'.keys /\ req[r].code <= made'.batches
  BY <1>n, RequestNumbers DEF Numbered, Grows
<1>1. CASE \/ LoginRead(r) \/ LoginTotp(r) \/ LoginCode(r) \/ LoginMark(r)
           \/ SignupRead(r) \/ SignupUpdate(r) \/ CreateSession(r) \/ Revoke(r)
           \/ SetupAuth(r) \/ VerifyAuth(r) \/ VerifyMatch(r) \/ VerifyMark(r)
           \/ VerifyEnable(r) \/ DropCodes(r) \/ ResetSecret(r) \/ ResetCodes(r)
  <2>1. /\ req[r] # None
        /\ \/ \E what : Say(r, what)
           \/ \E s : Go(r, s)
           \/ \E s : account # None /\ Learn(r, s)
    BY <1>1 DEF LoginRead, LoginTotp, LoginCode, LoginMark, SignupRead, SignupUpdate,
                CreateSession, Revoke, SetupAuth, VerifyAuth, Auth, VerifyMatch, VerifyMark,
                VerifyEnable, DropCodes, ResetSecret, ResetCodes, At, Known, Exists
  <2> QED
    BY <1>n, <2>1, NumberedSay, NumberedGo, NumberedLearn
<1>2. CASE Me(r)
  <2> DEFINE m == [req[r] EXCEPT !.step = "answer", !.said = "ok", !.id = account.id,
                                 !.seen = account.enabled]
  <2>1. req[r] # None
    BY <1>2 DEF Me, At
  <2>2. CASE Say(r, "no")
    BY <1>n, <2>1, <2>2, NumberedSay
  <2>3. CASE ~Say(r, "no")
    <3>1. req' = [req EXCEPT ![r] = m] /\ account # None
      BY <1>2, <2>3, TypeParts DEF Me, RequestType, Known, Exists
    <3>2. m.id = account.id /\ m.key = req[r].key /\ m.code = req[r].code
      BY <2>1, RequestNumbers DEF Message
    <3> QED
      BY <1>n, <1>a, <1>b, <2>1, <3>1, <3>2, NumberedSet
  <2> QED
    BY <2>2, <2>3
<1>3. CASE SetupStore(r)
  <2> DEFINE m == [req[r] EXCEPT !.step = "answer", !.said = "ok", !.key = made.keys + 1]
  <2>1. req[r] # None
    BY <1>3 DEF SetupStore, At
  <2>2. CASE Say(r, "no")
    BY <1>n, <2>1, <2>2, NumberedSay
  <2>3. CASE ~Say(r, "no")
    <3>1. req' = [req EXCEPT ![r] = m] /\ made' = [made EXCEPT !.keys = made.keys + 1]
      BY <1>3, <2>3, TypeParts DEF SetupStore, RequestType
    <3>2. m.id = req[r].id /\ m.key = made.keys + 1 /\ m.code = req[r].code
      BY <2>1, RequestNumbers DEF Message
    <3>3. made'.keys = made.keys + 1
      BY <3>1, TypeParts DEF PageType
    <3>4. m.key <= made'.keys
      BY <3>2, <3>3 DEF Grows
    <3> QED
      BY <1>n, <1>b, <2>1, <3>1, <3>2, <3>4, NumberedSet
  <2> QED
    BY <2>2, <2>3
<1>4. CASE StoreCodes(r)
  <2> DEFINE m == [req[r] EXCEPT !.step = "answer", !.said = "ok", !.code = made.batches + 1]
  <2>1. req[r] # None
    BY <1>4 DEF StoreCodes, At
  <2>2. CASE Say(r, "no")
    BY <1>n, <2>1, <2>2, NumberedSay
  <2>3. CASE ~Say(r, "no")
    <3>1. req' = [req EXCEPT ![r] = m] /\ made' = [made EXCEPT !.batches = made.batches + 1]
      BY <1>4, <2>3, TypeParts DEF StoreCodes, RequestType
    <3>2. m.id = req[r].id /\ m.key = req[r].key /\ m.code = made.batches + 1
      BY <2>1, RequestNumbers DEF Message
    <3>3. made'.batches = made.batches + 1
      BY <3>1, TypeParts DEF PageType
    <3>4. m.code <= made'.batches
      BY <3>2, <3>3 DEF Grows
    <3> QED
      BY <1>n, <1>b, <2>1, <3>1, <3>2, <3>4, NumberedSet
  <2> QED
    BY <2>2, <2>3
<1>5. CASE ResetRead(r)
  <2> DEFINE m == [Sent("reset", None, "secret") EXCEPT !.id = account.id]
  <2>1. req' = [req EXCEPT ![r] = m] /\ account # None
    BY <1>5 DEF ResetRead, Send
  <2>2. m.id = account.id /\ m.key = 0 /\ m.code = 0
    BY DEF Sent
  <2> QED
    BY <1>n, <1>a, <1>0, <2>1, <2>2, NumberedSet
<1>6. CASE ResetFlag(r) \/ Unheard(r)
  BY <1>6, <1>n, NumberedSet DEF ResetFlag, Unheard
<1>7. CASE Fail(r)
  <2> DEFINE m == [req[r] EXCEPT !.step = "answer", !.said = "no"]
  <2>1. req[r] # None
    BY <1>7 DEF Fail
  <2>2. m.id = req[r].id /\ m.key = req[r].key /\ m.code = req[r].code
    BY <2>1, RequestNumbers DEF Message
  <2>3. req' = [req EXCEPT ![r] = None] \/ req' = [req EXCEPT ![r] = m]
    BY <1>7 DEF Fail
  <2> QED
    BY <1>n, <1>b, <2>1, <2>2, <2>3, NumberedSet
<1> QED
  BY <1>1, <1>2, <1>3, <1>4, <1>5, <1>6, <1>7

LEMMA NumberedStep == TypeOK /\ FreshInv /\ [Next]_vars => Numbered'
<1> SUFFICES ASSUME TypeOK, FreshInv, [Next]_vars PROVE Numbered'
  OBVIOUS
<1>1. Grows /\ Numbered
  BY GrowsStep DEF FreshInv
<1>2. CASE CreateUser \/ DeleteUser \/ UNCHANGED vars
  <2>1. UNCHANGED req
    BY <1>2 DEF CreateUser, DeleteUser, vars
  <2> QED
    BY <1>1, <2>1, RequestNumbers DEF Numbered, Grows
<1> QED
  BY <1>1, <1>2, NumberedPages, NumberedServer DEF Next

(* The rest of FreshInv *)
LEMMA FreshStep == TypeOK /\ FreshInv /\ [Next]_vars => FreshInv'
<1> SUFFICES ASSUME TypeOK, FreshInv, [Next]_vars PROVE FreshInv'
  OBVIOUS
<1>g. Grows
  BY GrowsStep
<1>n. Numbered'
  BY NumberedStep
<1>t. /\ account # None => account \in User /\ account.id \in Nat /\ account.id <= made'.ids
      /\ secret # None => secret \in Secret
                          /\ secret.key \in Nat /\ secret.key <= made'.keys
      /\ app \subseteq 1..made'.keys /\ kept \in Nat /\ kept <= made'.batches
      /\ \A c \in Client : shown[c] \in Nat /\ shown[c] <= made'.keys
      /\ shown \in [Client -> 0..MaxKeys]
      /\ app \subseteq 1..made.keys
  <2>1. account # None => account \in User /\ account.id \in Nat
    BY TypeParts, Bounds DEF StoreType, User
  <2>2. secret # None => secret \in Secret /\ secret.key \in Nat
    BY TypeParts, Bounds DEF StoreType, Secret
  <2>3. shown \in [Client -> 0..MaxKeys] /\ kept \in Nat
    BY TypeParts, Bounds DEF PageType
  <2>4. \A c \in Client : shown[c] \in Nat
    BY <2>3, Bounds
  <2> QED
    BY <2>1, <2>2, <2>3, <2>4, <1>g DEF FreshInv, Grows
<1>1. account' # None => account'.id <= made'.ids
  <2>1. \/ UNCHANGED account
        \/ account' = None
        \/ account # None /\ account' = [account EXCEPT !.status = "active"]
        \/ \E b \in BOOLEAN : account # None /\ account' = [account EXCEPT !.enabled = b]
        \/ account'.id = made.ids + 1 /\ made'.ids = made.ids + 1
    <3>1. CASE PageNext
      BY <3>1, PageFrame
    <3>2. ASSUME NEW r \in Request, SignupUpdate(r) \/ VerifyEnable(r) \/ ResetFlag(r)
          PROVE  \/ UNCHANGED account
                 \/ account # None /\ account' = [account EXCEPT !.status = "active"]
                 \/ \E b \in BOOLEAN : account # None /\ account' = [account EXCEPT !.enabled = b]
      BY <3>2 DEF SignupUpdate, VerifyEnable, ResetFlag, Exists
    <3>3. ASSUME NEW r \in Request,
                 \/ LoginRead(r) \/ LoginTotp(r) \/ LoginCode(r) \/ LoginMark(r)
                 \/ SignupRead(r) \/ CreateSession(r)
                 \/ Me(r) \/ Revoke(r) \/ SetupAuth(r) \/ SetupStore(r) \/ VerifyAuth(r)
                 \/ VerifyMatch(r) \/ VerifyMark(r) \/ DropCodes(r) \/ StoreCodes(r)
                 \/ ResetRead(r) \/ ResetSecret(r) \/ ResetCodes(r) \/ Unheard(r) \/ Fail(r)
          PROVE  UNCHANGED account
      BY <3>3 DEF LoginRead, LoginTotp, LoginCode, LoginMark, SignupRead, CreateSession, Me, Revoke,
                  SetupAuth, SetupStore, VerifyAuth, VerifyMatch, VerifyMark, DropCodes, StoreCodes,
                  ResetRead, ResetSecret, ResetCodes, Unheard, Fail, rows
    <3>4. CASE CreateUser
      <4>1. made' = [made EXCEPT !.ids = made.ids + 1] /\ account'.id = made.ids + 1
        BY <3>4 DEF CreateUser
      <4> QED
        BY <4>1, TypeParts DEF PageType
    <3>5. CASE DeleteUser \/ UNCHANGED vars
      BY <3>5 DEF DeleteUser, vars, rows
    <3> QED
      BY <3>1, <3>2, <3>3, <3>4, <3>5 DEF Next, ServerNext
  <2>2. \A b \in BOOLEAN : account # None =>
          /\ [account EXCEPT !.enabled = b].id = account.id
          /\ [account EXCEPT !.status = "active"].id = account.id
    BY <1>t DEF User
  <2>3. account # None /\ account'.id = account.id => account'.id <= made'.ids
    BY <1>t, Zenon
  <2>4. account'.id = made.ids + 1 /\ made'.ids = made.ids + 1 => account'.id <= made'.ids
    BY <1>g DEF Grows
  <2>5. UNCHANGED account => (account' # None => account'.id <= made'.ids)
    BY <1>t, Zenon
  <2> QED
    BY <2>1, <2>2, <2>3, <2>4, <2>5, Zenon
<1>2. secret' # None => secret'.key <= made'.keys
  <2>1. \/ UNCHANGED secret
        \/ secret' = None
        \/ secret # None /\ secret' = [secret EXCEPT !.verified = TRUE]
        \/ secret'.key = made.keys + 1 /\ made'.keys = made.keys + 1
    <3>1. CASE PageNext
      BY <3>1, PageFrame
    <3>2. ASSUME NEW r \in Request, SetupStore(r)
          PROVE  UNCHANGED secret \/ (secret'.key = made.keys + 1 /\ made'.keys = made.keys + 1)
      <4>1. CASE UNCHANGED secret
        BY <4>1
      <4>2. CASE ~UNCHANGED secret
        <5>1. made' = [made EXCEPT !.keys = made.keys + 1] /\ secret'.key = made.keys + 1
          BY <3>2, <4>2 DEF SetupStore
        <5> QED
          BY <5>1, TypeParts DEF PageType
      <4> QED
        BY <4>1, <4>2
    <3>3. ASSUME NEW r \in Request,
                 \/ LoginRead(r) \/ LoginTotp(r) \/ LoginCode(r) \/ LoginMark(r)
                 \/ SignupRead(r) \/ SignupUpdate(r) \/ CreateSession(r)
                 \/ Me(r) \/ Revoke(r) \/ SetupAuth(r) \/ VerifyAuth(r)
                 \/ VerifyMatch(r) \/ VerifyEnable(r) \/ DropCodes(r) \/ StoreCodes(r)
                 \/ ResetRead(r) \/ ResetCodes(r) \/ ResetFlag(r) \/ Unheard(r) \/ Fail(r)
          PROVE  UNCHANGED secret
      BY <3>3 DEF LoginRead, LoginTotp, LoginCode, LoginMark, SignupRead, SignupUpdate,
                  CreateSession, Me, Revoke, SetupAuth, VerifyAuth, VerifyMatch, VerifyEnable,
                  DropCodes, StoreCodes, ResetRead, ResetCodes, ResetFlag, Unheard, Fail, rows
    <3>4. ASSUME NEW r \in Request, VerifyMark(r) \/ ResetSecret(r)
          PROVE  \/ UNCHANGED secret
                 \/ secret' = None
                 \/ secret # None /\ secret' = [secret EXCEPT !.verified = TRUE]
      BY <3>4 DEF VerifyMark, ResetSecret
    <3>5. CASE CreateUser \/ DeleteUser \/ UNCHANGED vars
      BY <3>5 DEF CreateUser, DeleteUser, vars, rows
    <3> QED
      BY <3>1, <3>2, <3>3, <3>4, <3>5 DEF Next, ServerNext
  <2>2. secret # None => [secret EXCEPT !.verified = TRUE].key = secret.key
    BY <1>t DEF Secret
  <2>3. secret # None /\ secret'.key = secret.key => secret'.key <= made'.keys
    BY <1>t, Zenon
  <2>4. secret'.key = made.keys + 1 /\ made'.keys = made.keys + 1 => secret'.key <= made'.keys
    BY <1>g DEF Grows
  <2>5. UNCHANGED secret => (secret' # None => secret'.key <= made'.keys)
    BY <1>t, Zenon
  <2> QED
    BY <2>1, <2>2, <2>3, <2>4, <2>5, Zenon
<1>3. app' \subseteq 1..made'.keys
  <2>1. UNCHANGED app \/ app' = {} \/ \E c \in Client : app' = app \cup ({shown[c]} \ {0})
    <3>1. CASE ServerNext
      BY <3>1, ZenonT(60) DEF ServerNext, LoginRead, LoginTotp, LoginCode, LoginMark, SignupRead, SignupUpdate,
                  CreateSession, Me, Revoke, SetupAuth, SetupStore, VerifyAuth, VerifyMatch,
                  VerifyMark, VerifyEnable, DropCodes, StoreCodes, ResetRead, ResetSecret,
                  ResetCodes, ResetFlag, Unheard, Fail, held
    <3>2. ASSUME NEW c \in Client, Scan(c) \/ Link(c)
          PROVE  UNCHANGED app \/ app' = app \cup ({shown[c]} \ {0})
      BY <3>2 DEF Scan, Link, held
    <3>3. ASSUME NEW r \in Request, NEW c \in Client,
                 \/ SubmitLogin(r, c) \/ SubmitSignup(r, c) \/ OpenSetup(r, c) \/ SubmitVerify(r, c)
                 \/ Finish(r, c) \/ LogOut(r, c) \/ Reload(r, c) \/ Answer(r, c)
          PROVE  UNCHANGED app
      BY <3>3 DEF SubmitLogin, SubmitSignup, OpenSetup, SubmitVerify, Finish, LogOut, Reload,
                  Answer, held
    <3>4. CASE CreateUser \/ DeleteUser \/ UNCHANGED vars
      BY <3>4 DEF CreateUser, DeleteUser, vars, held
    <3> QED
      BY <3>1, <3>2, <3>3, <3>4 DEF Next, PageNext
  <2>2. ASSUME NEW c \in Client PROVE {shown[c]} \ {0} \subseteq 1..made'.keys
    <3>1. shown[c] \in Nat /\ shown[c] <= made'.keys /\ made'.keys \in Nat
      BY <1>t, <1>g DEF Grows
    <3> QED
      BY <3>1
  <2> QED
    BY <2>1, <2>2, <1>t
<1>4. kept' <= made'.batches
  <2>1. \/ UNCHANGED kept
        \/ kept' = 0
        \/ \E r \in Request : req[r] # None /\ kept' = req[r].code
    <3>1. CASE ServerNext
      BY <3>1, ZenonT(60) DEF ServerNext, LoginRead, LoginTotp, LoginCode, LoginMark, SignupRead, SignupUpdate,
                  CreateSession, Me, Revoke, SetupAuth, SetupStore, VerifyAuth, VerifyMatch,
                  VerifyMark, VerifyEnable, DropCodes, StoreCodes, ResetRead, ResetSecret,
                  ResetCodes, ResetFlag, Unheard, Fail, held
    <3>2. ASSUME NEW r \in Request, NEW c \in Client, Answer(r, c)
          PROVE  UNCHANGED kept \/ kept' = 0 \/ (req[r] # None /\ kept' = req[r].code)
      BY <3>2 DEF Answer
    <3>3. ASSUME NEW c \in Client,
                 \/ Scan(c) \/ Link(c)
                 \/ \E r \in Request :
                      \/ SubmitLogin(r, c) \/ SubmitSignup(r, c) \/ OpenSetup(r, c)
                      \/ SubmitVerify(r, c) \/ Finish(r, c) \/ LogOut(r, c) \/ Reload(r, c)
          PROVE  UNCHANGED kept
      BY <3>3 DEF Scan, Link, SubmitLogin, SubmitSignup, OpenSetup, SubmitVerify, Finish, LogOut,
                  Reload, held
    <3>4. CASE CreateUser \/ DeleteUser \/ UNCHANGED vars
      BY <3>4 DEF CreateUser, DeleteUser, vars, held
    <3> QED
      BY <3>1, <3>2, <3>3, <3>4 DEF Next, PageNext
  <2> QED
    BY <2>1, <1>t, <1>g, RequestNumbers DEF Grows, FreshInv, Numbered
<1>5. \A c \in Client : shown'[c] <= made'.keys
  <2>1. \/ UNCHANGED shown
        \/ \E c \in Client, k \in {0} \cup {req[r].key : r \in {s \in Request : req[s] # None}} :
             shown' = [shown EXCEPT ![c] = k]
    <3>1. CASE ServerNext
      BY <3>1, ZenonT(60) DEF ServerNext, LoginRead, LoginTotp, LoginCode, LoginMark, SignupRead, SignupUpdate,
                  CreateSession, Me, Revoke, SetupAuth, SetupStore, VerifyAuth, VerifyMatch,
                  VerifyMark, VerifyEnable, DropCodes, StoreCodes, ResetRead, ResetSecret,
                  ResetCodes, ResetFlag, Unheard, Fail, pages
    <3>2. ASSUME NEW r \in Request, NEW c \in Client, Answer(r, c)
          PROVE  \/ UNCHANGED shown
                 \/ req[r] # None /\ shown' = [shown EXCEPT ![c] = req[r].key]
                 \/ shown' = [shown EXCEPT ![c] = 0]
      <4>1. [shown EXCEPT ![c] = shown[c]] = shown
        BY <1>t
      <4>2. req[r] # None /\ \/ UNCHANGED shown
                             \/ shown' = [shown EXCEPT ![c] = req[r].key]
                             \/ shown' = [shown EXCEPT ![c] = 0]
                             \/ shown' = [shown EXCEPT ![c] = shown[c]]
        BY <3>2 DEF Answer
      <4> QED
        BY <4>1, <4>2
    <3>3. ASSUME NEW c \in Client,
                 \/ Scan(c) \/ Link(c)
                 \/ \E r \in Request :
                      \/ SubmitLogin(r, c) \/ SubmitSignup(r, c) \/ OpenSetup(r, c)
                      \/ SubmitVerify(r, c) \/ Finish(r, c) \/ LogOut(r, c) \/ Reload(r, c)
          PROVE  UNCHANGED shown \/ shown' = [shown EXCEPT ![c] = 0]
      BY <3>3 DEF Scan, Link, SubmitLogin, SubmitSignup, OpenSetup, SubmitVerify, Finish, LogOut,
                  Reload, pages
    <3>4. CASE CreateUser \/ DeleteUser \/ UNCHANGED vars
      BY <3>4 DEF CreateUser, DeleteUser, vars, pages
    <3> QED
      BY <3>1, <3>2, <3>3, <3>4, ZenonT(60) DEF Next, PageNext
  <2>2. ASSUME NEW k \in {0} \cup {req[r].key : r \in {s \in Request : req[s] # None}}
        PROVE  k <= made'.keys
    BY <2>2, <1>g, RequestNumbers DEF Grows, FreshInv, Numbered
  <2> QED
    BY <2>1, <2>2, <1>t
<1> QED
  BY <1>1, <1>2, <1>3, <1>4, <1>5, <1>n DEF FreshInv

-----------------------------------------------------------------------------
(* The second factor and its codes: of the requests that have found the    *)
(* account at most one verifies or resets, while nothing is in doubt.      *)

(* it has found the account, and was not refused *)
Part(r) ==
  /\ req[r] # None /\ req[r].kind \in {"setup", "verify", "reset"} /\ req[r].step # "auth"
  /\ req[r].step = "answer" => req[r].said = "ok"
  /\ Exists(req[r].id)

Resets(r) == Part(r) /\ req[r].kind = "reset" /\ req[r].step # "answer"

(* a verification that has not read the secret yet *)
Asks(r) == req[r] # None /\ req[r].kind = "verify" /\ req[r].step \in {"auth", "match"}

(* no verification guesses a secret that was not scanned *)
KeyInv ==
  \A r \in Request :
    Asks(r) /\ secret # None /\ secret.key = req[r].key => req[r].key \in app

Alone ==
  \A r, s \in Request :
    r # s /\ Part(r) /\ Part(s) => req[r].kind = "setup" /\ req[s].kind = "setup"

Usable ==
  account # None /\ account.enabled /\ (\A r \in Request : ~Resets(r)) =>
    secret # None /\ secret.verified /\ secret.key \in app

(* what a request that goes on relies on *)
FactorOf(r) ==
  Part(r) =>
    /\ req[r].kind = "setup" /\ req[r].step = "store" => ~account.enabled
    /\ req[r].kind = "verify" /\ req[r].step \in {"verify", "enable"} =>
         secret # None /\ secret.key \in app
    /\ req[r].kind = "verify" /\ req[r].step = "enable" => secret.verified

AsShown(k) == codes = {[batch |-> k, used |-> passed[k] > 0]}

CodesOf(r) ==
  Part(r) /\ req[r].kind = "verify" =>
    /\ req[r].step = "codes" => kept = 0 /\ codes = {}
    /\ req[r].step = "answer" /\ req[r].said = "ok" => AsShown(req[r].code)

Factor == Usable /\ \A r \in Request : FactorOf(r)
Codes == CodesAsShown /\ \A r \in Request : CodesOf(r)

SecondInv == KeyInv /\ (~doubt => Alone /\ Factor /\ Codes)

(* A request that takes no part, or goes no further                        *)
Follows(s) ==
  /\ Asks(s)' => (Asks(s) /\ req'[s].key = req[s].key) \/ req'[s].key \in app'
  /\ Part(s)' =>
       /\ Part(s) /\ req'[s].kind = req[s].kind
       /\ req'[s].step = req[s].step /\ req'[s].said = req[s].said
       /\ req'[s].code = req[s].code
  /\ Resets(s) => Resets(s)' \/ doubt'

AccountSame ==
  \/ account' = account
  \/ /\ account # None /\ account' # None
     /\ account'.id = account.id /\ account'.enabled = account.enabled

LEMMA KeyFrame ==
  ASSUME KeyInv, app \subseteq app', secret' # None => secret # None /\ secret'.key = secret.key,
         \A s \in Request :
           Asks(s)' => (Asks(s) /\ req'[s].key = req[s].key) \/ req'[s].key \in app'
  PROVE  KeyInv'
BY DEF KeyInv

LEMMA AloneFrame ==
  ASSUME Alone, \A s \in Request : Follows(s)
  PROVE  Alone'
BY DEF Alone, Follows

LEMMA FactorFrame ==
  ASSUME Factor, ~doubt', \A s \in Request : Follows(s), AccountSame, UNCHANGED secret,
         app \subseteq app'
  PROVE  Factor'
<1>1. ASSUME NEW s \in Request PROVE FactorOf(s)'
  <2>1. CASE Part(s)'
    <3>1. FactorOf(s) /\ Follows(s) /\ Part(s)
      BY <2>1 DEF Factor, Follows
    <3>2. account # None => account'.enabled = account.enabled
      BY DEF AccountSame
    <3>3. account # None
      BY <3>1 DEF Part, Exists
    <3> QED
      BY <2>1, <3>1, <3>2, <3>3 DEF FactorOf, Follows
  <2>2. CASE ~Part(s)'
    BY <2>2 DEF FactorOf
  <2> QED
    BY <2>1, <2>2
<1>2. Usable'
  <2>1. SUFFICES ASSUME account' # None, account'.enabled, \A r \in Request : ~Resets(r)'
                 PROVE  secret # None /\ secret.verified /\ secret.key \in app
    BY DEF Usable
  <2>2. \A r \in Request : ~Resets(r)
    BY <2>1 DEF Follows
  <2>3. account # None /\ account.enabled
    BY <2>1 DEF AccountSame
  <2> QED
    BY <2>2, <2>3 DEF Factor, Usable
<1> QED
  BY <1>1, <1>2 DEF Factor

LEMMA CodesFrame ==
  ASSUME Codes, ~doubt, \A s \in Request : Follows(s), UNCHANGED <<codes, passed>>,
         kept' = kept \/ kept' = 0
  PROVE  Codes'
<1>1. CodesAsShown'
  BY DEF Codes, CodesAsShown
<1>2. ASSUME NEW s \in Request PROVE CodesOf(s)'
  <2>1. CodesOf(s) /\ Follows(s)
    BY DEF Codes
  <2> QED
    BY <2>1 DEF CodesOf, Follows, AsShown
<1> QED
  BY <1>1, <1>2 DEF Codes

(* Steps that leave rows, codes and requests that take part alone *)
LEMMA SecondFrame ==
  ASSUME SecondInv, \A s \in Request : Follows(s), AccountSame, UNCHANGED <<secret, codes, passed>>,
         app \subseteq app', kept' = kept \/ kept' = 0, doubt => doubt'
  PROVE  SecondInv'
<1>1. KeyInv'
  BY KeyFrame DEF SecondInv, Follows
<1>2. ASSUME ~doubt' PROVE Alone' /\ Factor' /\ Codes'
  <2>1. Alone /\ Factor /\ Codes /\ ~doubt
    BY <1>2 DEF SecondInv
  <2> QED
    BY <1>2, <2>1, AloneFrame, FactorFrame, CodesFrame
<1> QED
  BY <1>1, <1>2 DEF SecondInv

(* a step of one request *)
LEMMA Moved ==
  ASSUME TypeOK, NEW r \in Request, NEW m, req' = [req EXCEPT ![r] = m]
  PROVE  req'[r] = m /\ \A s \in Request : s # r => req'[s] = req[s]
BY TypeParts DEF RequestType

LEMMA ExistsSame ==
  ASSUME AccountSame, NEW id
  PROVE  Exists(id)' <=> Exists(id)
BY DEF AccountSame, Exists

LEMMA FollowsSame ==
  ASSUME AccountSame, NEW s \in Request, req'[s] = req[s]
  PROVE  Follows(s)
<1>1. Exists(req[s].id)' <=> Exists(req[s].id)
  BY ExistsSame
<1>2. account' # None /\ account'.id = req'[s].id <=> account # None /\ account.id = req[s].id
  BY DEF AccountSame
<1> QED
  BY <1>2 DEF Follows, Asks, Part, Resets, Exists

(* A request that follows: it ends, is answered "no", or has not found the account. *)
LEMMA FollowsTo ==
  ASSUME AccountSame, NEW s \in Request, app \subseteq app', Resets(s) => doubt',
         \/ req'[s] = None
         \/ req'[s].kind \notin {"setup", "verify", "reset"}
         \/ req'[s].kind = "setup" /\ req'[s].step = "auth"
         \/ req'[s].kind = "verify" /\ req'[s].step = "auth" /\ req'[s].key \in app
         \/ req'[s].step = "answer" /\ req'[s].said = "no"
         \/ /\ req'[s].id = req[s].id /\ ~Exists(req[s].id)
            /\ req'[s].step \notin {"auth", "match"}
         \/ req'[s].id = req[s].id /\ ~Exists(req[s].id) /\ req'[s].kind # "verify"
  PROVE  Follows(s)
<1>1. Asks(s)' => (Asks(s) /\ req'[s].key = req[s].key) \/ req'[s].key \in app'
  BY DEF Asks
<1>2. account' # None /\ account'.id = req[s].id <=> account # None /\ account.id = req[s].id
  BY DEF AccountSame
<1>3. ~Part(s)'
  BY <1>2 DEF Part, Exists
<1> QED
  BY <1>1, <1>3 DEF Follows

LEMMA FollowsMoved ==
  ASSUME TypeOK, AccountSame, NEW r \in Request, NEW m, req' = [req EXCEPT ![r] = m], Follows(r)
  PROVE  \A s \in Request : Follows(s)
BY Moved, FollowsSame

(* what the handlers make of a request *)
LEMMA GoMoves ==
  ASSUME TypeOK, NEW r \in Request, req[r] # None, NEW step \in Step, Go(r, step)
  PROVE  /\ req' = [req EXCEPT ![r] = [req[r] EXCEPT !.step = step]]
         /\ req'[r] # None /\ req'[r].step = step
         /\ req'[r].kind = req[r].kind /\ req'[r].id = req[r].id
         /\ req'[r].key = req[r].key /\ req'[r].code = req[r].code /\ req'[r].said = req[r].said
         /\ \A s \in Request : s # r => req'[s] = req[s]
<1> DEFINE m == [req[r] EXCEPT !.step = step]
<1>1. req' = [req EXCEPT ![r] = m]
  BY TypeParts DEF Go, RequestType
<1>2. req'[r] = m /\ \A s \in Request : s # r => req'[s] = req[s]
  BY <1>1, Moved
<1>3. /\ m.step = step /\ m.kind = req[r].kind /\ m.id = req[r].id /\ m.key = req[r].key
      /\ m.code = req[r].code /\ m.said = req[r].said
  BY RequestNumbers DEF Message
<1>4. req'[r] # None
  BY <1>2, RequestNumbers, MessageStep, NoneAssumption
<1> QED
  BY <1>1, <1>2, <1>3, <1>4

LEMMA SayMoves ==
  ASSUME TypeOK, NEW r \in Request, req[r] # None, NEW what, Say(r, what)
  PROVE  /\ req' = [req EXCEPT ![r] = req'[r]]
         /\ req'[r].step = "answer" /\ req'[r].said = what
         /\ req'[r].kind = req[r].kind /\ req'[r].id = req[r].id
         /\ \A s \in Request : s # r => req'[s] = req[s]
<1> DEFINE m == [req[r] EXCEPT !.step = "answer", !.said = what, !.key = 0, !.code = 0]
<1>1. req' = [req EXCEPT ![r] = m]
  BY TypeParts DEF Say, RequestType
<1>2. req'[r] = m /\ \A s \in Request : s # r => req'[s] = req[s]
  BY <1>1, Moved
<1>3. m.step = "answer" /\ m.said = what /\ m.kind = req[r].kind /\ m.id = req[r].id
  BY RequestNumbers DEF Message
<1> QED
  BY <1>1, <1>2, <1>3

LEMMA LearnMoves ==
  ASSUME TypeOK, NEW r \in Request, req[r] # None, NEW step, Learn(r, step)
  PROVE  /\ req'[r].step = step /\ req'[r].id = account.id
         /\ req'[r].kind = req[r].kind /\ req'[r].key = req[r].key
         /\ req'[r].code = req[r].code
         /\ req' = [req EXCEPT ![r] = req'[r]]
         /\ \A s \in Request : s # r => req'[s] = req[s]
<1> DEFINE m == [req[r] EXCEPT !.step = step, !.id = account.id, !.seen = account.enabled]
<1>1. req' = [req EXCEPT ![r] = m]
  BY TypeParts DEF Learn, RequestType
<1>2. req'[r] = m /\ \A s \in Request : s # r => req'[s] = req[s]
  BY <1>1, Moved
<1>3. /\ m.step = step /\ m.kind = req[r].kind /\ m.id = account.id /\ m.key = req[r].key
      /\ m.code = req[r].code
  BY RequestNumbers DEF Message
<1> QED
  BY <1>1, <1>2, <1>3

(* What a page sends takes no part yet, and a verification names a secret scanned. *)
LEMMA SecondSent ==
  ASSUME TypeOK, SecondInv, NEW r \in Request, NEW c \in Client,
         \/ SubmitLogin(r, c) \/ SubmitSignup(r, c) \/ OpenSetup(r, c) \/ SubmitVerify(r, c)
         \/ Finish(r, c) \/ LogOut(r, c)
  PROVE  SecondInv'
<1>1. UNCHANGED <<account, secret, codes, passed, app, kept, doubt>> /\ req[r] = None
  BY DEF SubmitLogin, SubmitSignup, OpenSetup, SubmitVerify, Finish, LogOut, Send, rows, held, past
<1>2. \E m : /\ req' = [req EXCEPT ![r] = m]
             /\ \/ m.kind \notin {"setup", "verify", "reset"}
                \/ m.kind = "setup" /\ m.step = "auth"
                \/ m.kind = "verify" /\ m.step = "auth" /\ m.key \in app
  <2>1. CASE SubmitLogin(r, c)
    <3>1. \E m : /\ req' = [req EXCEPT ![r] = m]
                 /\ \/ m = Sent("login", c, "read")
                    \/ \E k : m = [Sent("login", c, "read") EXCEPT !.key = k]
                    \/ m = [Sent("login", c, "read") EXCEPT !.code = kept]
      BY <2>1 DEF SubmitLogin, Send
    <3>2. /\ Sent("login", c, "read").kind = "login"
          /\ [Sent("login", c, "read") EXCEPT !.code = kept].kind = "login"
          /\ \A k : [Sent("login", c, "read") EXCEPT !.key = k].kind = "login"
      BY DEF Sent
    <3> QED
      BY <3>1, <3>2
  <2>2. CASE SubmitSignup(r, c) \/ Finish(r, c) \/ LogOut(r, c)
    <3>1. \E k \in {"signup", "me", "logout"}, step \in {"read", "auth"} :
            req' = [req EXCEPT ![r] = Sent(k, c, step)]
      BY <2>2 DEF SubmitSignup, Finish, LogOut, Send
    <3>2. \A k, step : Sent(k, c, step).kind = k
      BY DEF Sent
    <3> QED
      BY <3>1, <3>2, ZenonT(60)
  <2>3. CASE OpenSetup(r, c)
    <3>1. req' = [req EXCEPT ![r] = Sent("setup", c, "auth")]
      BY <2>3 DEF OpenSetup, Send
    <3>2. Sent("setup", c, "auth").kind = "setup" /\ Sent("setup", c, "auth").step = "auth"
      BY DEF Sent
    <3> QED
      BY <3>1, <3>2
  <2>4. CASE SubmitVerify(r, c)
    <3>1. PICK k \in app : req' = [req EXCEPT ![r] = [Sent("verify", c, "auth") EXCEPT !.key = k]]
      BY <2>4 DEF SubmitVerify, Send
    <3> DEFINE m == [Sent("verify", c, "auth") EXCEPT !.key = k]
    <3>2. m.kind = "verify" /\ m.step = "auth" /\ m.key = k
      BY DEF Sent
    <3> QED
      BY <3>1, <3>2
  <2> QED
    BY <2>1, <2>2, <2>3, <2>4
<1>3. AccountSame /\ ~Resets(r)
  BY <1>1 DEF AccountSame, Resets, Part
<1>4. \A s \in Request : Follows(s)
  <2>1. PICK m : /\ req' = [req EXCEPT ![r] = m]
                 /\ \/ m.kind \notin {"setup", "verify", "reset"}
                    \/ m.kind = "setup" /\ m.step = "auth"
                    \/ m.kind = "verify" /\ m.step = "auth" /\ m.key \in app
    BY <1>2
  <2>2. req'[r] = m
    BY <2>1, Moved
  <2>3. Follows(r)
    BY <1>1, <1>3, <2>1, <2>2, FollowsTo
  <2> QED
    BY <1>3, <2>1, <2>3, FollowsMoved
<1> QED
  BY <1>1, <1>3, <1>4, SecondFrame

(* A page that is left changes who waits. *)
LEMMA SecondReload ==
  ASSUME TypeOK, SecondInv, NEW r \in Request, NEW c \in Client, Reload(r, c)
  PROVE  SecondInv'
<1>1. UNCHANGED <<account, secret, codes, passed, app, kept, doubt>> /\ req[r] = None
  BY DEF Reload, rows, held
<1>2. AccountSame /\ ~Resets(r)
  BY <1>1 DEF AccountSame, Resets, Part
<1>3. ASSUME NEW s \in Request PROVE Follows(s)
  <2>1. CASE s = r
    <3>1. req'[s] = Sent("me", c, "auth")
      BY <2>1 DEF Reload
    <3>2. req'[s].kind \notin {"setup", "verify", "reset"}
      BY <3>1 DEF Sent
    <3> QED
      BY <1>1, <1>2, <2>1, <3>2, FollowsTo
  <2>2. CASE s # r /\ req'[s] = req[s]
    BY <1>2, <2>2, FollowsSame
  <2>3. CASE s # r /\ req'[s] # req[s]
    <3>1. req[s] # None /\ req'[s] = [req[s] EXCEPT !.waits = FALSE]
      BY <2>3 DEF Reload
    <3>2. req[s] \in Message
      BY <3>1, RequestNumbers
    <3>3. /\ req'[s].kind = req[s].kind /\ req'[s].step = req[s].step /\ req'[s].id = req[s].id
          /\ req'[s].key = req[s].key /\ req'[s].code = req[s].code /\ req'[s].said = req[s].said
      BY <3>1, <3>2 DEF Message
    <3>4. req'[s] \in Message
      BY <3>1, <3>2 DEF Message
    <3>5. req'[s] # None
      BY <3>4, NoneAssumption
    <3>6. Asks(s)' <=> Asks(s)
      BY <3>1, <3>3, <3>5 DEF Asks
    <3>7. Part(s)' <=> Part(s)
      BY <1>1, <3>1, <3>3, <3>5 DEF Part, Exists
    <3> QED
      BY <3>3, <3>6, <3>7 DEF Follows, Resets
  <2> QED
    BY <2>1, <2>2, <2>3
<1> QED
  BY <1>1, <1>2, <1>3, SecondFrame

LEMMA SecondPage ==
  ASSUME TypeOK, SecondInv, NEW c \in Client, Scan(c) \/ Link(c)
  PROVE  SecondInv'
<1>1. UNCHANGED <<account, secret, codes, passed, req, kept, doubt>> /\ app \subseteq app'
  BY DEF Scan, Link, rows, held, past
<1>2. AccountSame /\ \A s \in Request : Follows(s)
  BY <1>1, FollowsSame DEF AccountSame
<1> QED
  BY <1>1, <1>2, SecondFrame

(* The codes shown to the person are those of the only verification. *)
LEMMA SecondAnswer ==
  ASSUME TypeOK, SecondInv, NEW r \in Request, NEW c \in Client, Answer(r, c)
  PROVE  SecondInv'
<1>1. UNCHANGED <<account, secret, codes, passed, app, doubt>>
  BY DEF Answer, rows, past
<1>2. req[r] # None /\ req[r].step = "answer"
  BY DEF Answer
<1>3. AccountSame /\ ~Resets(r)
  BY <1>1, <1>2 DEF AccountSame, Resets
<1>4. \/ req' = [req EXCEPT ![r] = None]
      \/ /\ req' = [req EXCEPT ![r] = [Sent("setup", c, "auth") EXCEPT !.waits = FALSE]]
         /\ req[r].kind = "signup" /\ UNCHANGED kept
  BY DEF Answer, SignupAnswer, LoginAnswer
<1>5. Follows(r)
  <2> DEFINE m == [Sent("setup", c, "auth") EXCEPT !.waits = FALSE]
  <2>1. m.kind = "setup" /\ m.step = "auth"
    BY DEF Sent
  <2>2. req'[r] = None \/ req'[r] = m
    BY <1>4, Moved
  <2> QED
    BY <1>1, <1>3, <2>1, <2>2, FollowsTo
<1>6. \A s \in Request : Follows(s)
  BY <1>3, <1>4, <1>5, FollowsMoved
<1>7. CASE kept' = kept \/ kept' = 0
  BY <1>1, <1>3, <1>6, <1>7, SecondFrame
<1>8. CASE kept' # kept /\ kept' # 0
  <2>1. /\ req[r].kind = "verify" /\ req[r].said = "ok" /\ Exists(req[r].id)
        /\ kept' = req[r].code
    BY <1>8 DEF Answer
  <2>2. req'[r] = None /\ \A s \in Request : s # r => req'[s] = req[s]
    BY <1>4, <1>8, Moved
  <2>3. Part(r)
    BY <1>2, <2>1 DEF Part
  <2>4. KeyInv'
    BY <1>1, <1>6, KeyFrame DEF SecondInv, Follows
  <2>5. ASSUME ~doubt' PROVE Alone' /\ Factor' /\ Codes'
    <3>1. Alone /\ Factor /\ Codes
      BY <1>1, <2>5 DEF SecondInv
    <3>2. Alone' /\ Factor'
      BY <1>1, <1>3, <1>6, <2>5, <3>1, AloneFrame, FactorFrame
    <3>3. CodesAsShown'
      <4>1. AsShown(req[r].code)
        BY <1>2, <2>1, <2>3, <3>1 DEF Codes, CodesOf
      <4> QED
        BY <4>1, <1>1, <2>1 DEF CodesAsShown, AsShown
    <3>4. ASSUME NEW s \in Request PROVE CodesOf(s)'
      <4>1. ~(Part(s)' /\ req'[s].kind = "verify")
        <5>1. CASE s = r
          BY <2>2, <5>1 DEF Part
        <5>2. CASE s # r
          <6>1. Part(s)' => Part(s) /\ req'[s].kind = req[s].kind
            BY <1>6 DEF Follows
          <6>2. Part(s) => req[s].kind = "setup"
            BY <2>3, <3>1, <5>2 DEF Alone
          <6> QED
            BY <6>1, <6>2
        <5> QED
          BY <5>1, <5>2
      <4> QED
        BY <4>1 DEF CodesOf
    <3> QED
      BY <3>2, <3>3, <3>4 DEF Codes
  <2> QED
    BY <2>4, <2>5 DEF SecondInv
<1> QED
  BY <1>7, <1>8

(* Logins, sign-ups and sessions take no part; a request that fails goes no further. *)
LEMMA SecondOthers ==
  ASSUME TypeOK, SecondInv, NEW r \in Request,
         \/ LoginRead(r) \/ LoginTotp(r) \/ LoginCode(r) \/ SignupRead(r) \/ SignupUpdate(r)
         \/ CreateSession(r) \/ Me(r) \/ Revoke(r) \/ Unheard(r) \/ Fail(r)
  PROVE  SecondInv'
<1>1. UNCHANGED <<secret, codes, passed, app, kept>> /\ (doubt => doubt')
  <2>1. CASE LoginRead(r) \/ LoginTotp(r) \/ LoginCode(r) \/ SignupRead(r)
    BY <2>1 DEF LoginRead, LoginTotp, LoginCode, SignupRead, rows, held, past
  <2>2. CASE SignupUpdate(r) \/ CreateSession(r) \/ Me(r) \/ Revoke(r) \/ Unheard(r)
    BY <2>2 DEF SignupUpdate, CreateSession, Me, Revoke, Unheard, rows, held, past
  <2>3. CASE Fail(r)
    BY <2>3 DEF Fail, rows, held
  <2> QED
    BY <2>1, <2>2, <2>3
<1>2. AccountSame
  <2>1. CASE SignupUpdate(r)
    <3>1. CASE ~Exists(req[r].id)
      BY <2>1, <3>1 DEF SignupUpdate, AccountSame
    <3>2. CASE Exists(req[r].id)
      <4>1. account' = [account EXCEPT !.status = "active"] /\ account # None
        BY <2>1, <3>2 DEF SignupUpdate, Exists
      <4>2. account \in User
        BY <4>1, TypeParts DEF StoreType
      <4>3. account' \in User /\ account'.id = account.id /\ account'.enabled = account.enabled
        BY <4>1, <4>2 DEF User
      <4> QED
        BY <4>1, <4>3, NoneAssumption DEF AccountSame
    <3> QED
      BY <3>1, <3>2
  <2>2. CASE ~SignupUpdate(r)
    BY <2>2 DEF LoginRead, LoginTotp, LoginCode, SignupRead, CreateSession, Me, Revoke,
                Unheard, Fail, rows, AccountSame
  <2> QED
    BY <2>1, <2>2
<1>3. CASE \/ LoginRead(r) \/ LoginTotp(r) \/ LoginCode(r) \/ SignupRead(r) \/ SignupUpdate(r)
           \/ CreateSession(r) \/ Me(r) \/ Revoke(r)
  <2>1. req[r] # None /\ req[r].kind \in {"login", "signup", "me", "logout"}
    BY <1>3 DEF LoginRead, LoginTotp, LoginCode, SignupRead, SignupUpdate, CreateSession, Me,
                Revoke, At
  <2>2. PICK m : req' = [req EXCEPT ![r] = m] /\ m.kind = req[r].kind
    <3>1. CASE Me(r)
      <4> DEFINE m == [req[r] EXCEPT !.step = "answer", !.said = "ok", !.id = account.id,
                                     !.seen = account.enabled]
      <4>1. m.kind = req[r].kind
        BY <2>1, RequestNumbers DEF Message
      <4>2. req' = [req EXCEPT ![r] = m] \/ Say(r, "no")
        BY <3>1, TypeParts DEF Me, RequestType
      <4>3. Say(r, "no") => \E n : req' = [req EXCEPT ![r] = n] /\ n.kind = req[r].kind
        BY <2>1, SayMoves
      <4> QED
        BY <4>1, <4>2, <4>3
    <3>2. CASE ~Me(r)
      <4>1. \/ \E what : Say(r, what)
            \/ \E step \in Step : Go(r, step) \/ Learn(r, step)
        BY <1>3, <3>2 DEF LoginRead, LoginTotp, LoginCode, SignupRead, SignupUpdate, CreateSession,
                          Revoke, Step
      <4>2. ASSUME NEW what, Say(r, what)
            PROVE  \E n : req' = [req EXCEPT ![r] = n] /\ n.kind = req[r].kind
        BY <2>1, <4>2, SayMoves
      <4>3. ASSUME NEW step \in Step, Go(r, step)
            PROVE  \E n : req' = [req EXCEPT ![r] = n] /\ n.kind = req[r].kind
        BY <2>1, <4>3, GoMoves, Moved
      <4>4. ASSUME NEW step \in Step, Learn(r, step)
            PROVE  \E n : req' = [req EXCEPT ![r] = n] /\ n.kind = req[r].kind
        BY <2>1, <4>4, LearnMoves
      <4> QED
        BY <4>1, <4>2, <4>3, <4>4
    <3> QED
      BY <3>1, <3>2
  <2>3. req'[r] = m /\ ~Resets(r)
    BY <2>1, <2>2, Moved DEF Resets
  <2>4. Follows(r)
    BY <1>1, <1>2, <2>1, <2>2, <2>3, FollowsTo
  <2>5. \A s \in Request : Follows(s)
    BY <1>2, <2>2, <2>4, FollowsMoved
  <2> QED
    BY <1>1, <1>2, <2>5, SecondFrame
<1>4. CASE Unheard(r)
  <2>1. req' = [req EXCEPT ![r] = None] /\ ~Resets(r)
    BY <1>4 DEF Unheard, Resets
  <2>2. req'[r] = None
    BY <2>1, Moved
  <2>3. \A s \in Request : Follows(s)
    BY <1>1, <1>2, <2>1, <2>2, FollowsTo, FollowsMoved
  <2> QED
    BY <1>1, <1>2, <2>3, SecondFrame
<1>5. CASE Fail(r)
  <2> DEFINE m == [req[r] EXCEPT !.step = "answer", !.said = "no"]
  <2>1. req[r] # None /\ req[r].step # "auth" /\ (Resets(r) => doubt')
    BY <1>5 DEF Fail, Resets
  <2>2. m.kind = req[r].kind /\ m.id = req[r].id /\ m.step = "answer" /\ m.said = "no"
    BY <2>1, RequestNumbers DEF Message
  <2>3. req' = [req EXCEPT ![r] = None] \/ req' = [req EXCEPT ![r] = m]
    BY <1>5 DEF Fail
  <2>4. req'[r] = None \/ req'[r] = m
    BY <2>3, Moved
  <2>5. Follows(r)
    BY <1>1, <1>2, <2>1, <2>2, <2>4, FollowsTo
  <2>6. \A s \in Request : Follows(s)
    BY <1>2, <2>3, <2>5, FollowsMoved
  <2> QED
    BY <1>1, <1>2, <2>6, SecondFrame
<1> QED
  BY <1>3, <1>4, <1>5

(* A handler that refuses, or that does not find the account any more, changes nothing. *)
LEMMA SecondRefused ==
  ASSUME TypeOK, SecondInv, NEW r \in Request, req[r] # None, Say(r, "no"), ~Resets(r) \/ doubt',
         UNCHANGED <<account, secret, codes, passed, app, kept>>, doubt => doubt'
  PROVE  SecondInv'
<1>1. req'[r].step = "answer" /\ req'[r].said = "no" /\ \A s \in Request : s # r => req'[s] = req[s]
  BY SayMoves
<1>2. AccountSame
  BY DEF AccountSame
<1>3. Follows(r)
  BY <1>1, <1>2, FollowsTo
<1>4. \A s \in Request : Follows(s)
  BY <1>1, <1>2, <1>3, FollowsSame
<1> QED
  BY <1>2, <1>4, SecondFrame

LEMMA SecondIdle ==
  ASSUME TypeOK, SecondInv, NEW r \in Request, req[r] # None,
         NEW step \in Step \ {"auth", "match"}, Go(r, step), ~Exists(req[r].id),
         UNCHANGED <<account, secret, codes, passed, app, kept>>, doubt => doubt'
  PROVE  SecondInv'
<1>1. /\ req'[r].step = step /\ req'[r].id = req[r].id
      /\ \A s \in Request : s # r => req'[s] = req[s]
  BY GoMoves
<1>2. AccountSame /\ ~Resets(r)
  BY DEF AccountSame, Resets, Part
<1>3. Follows(r)
  BY <1>1, <1>2, FollowsTo
<1>4. \A s \in Request : Follows(s)
  BY <1>1, <1>2, <1>3, FollowsSame
<1> QED
  BY <1>2, <1>4, SecondFrame

(* The only verification or reset: no other request takes part. *)
LEMMA Only ==
  ASSUME Alone, NEW r \in Request, Part(r), req[r].kind # "setup"
  PROVE  \A s \in Request : s # r => ~Part(s)
BY DEF Alone

(* If others take no part, the invariant is about one request. *)
LEMMA OneParts ==
  ASSUME NEW r \in Request, \A s \in Request : s # r => ~Part(s)',
         Usable', FactorOf(r)', CodesAsShown', CodesOf(r)'
  PROVE  Alone' /\ Factor' /\ Codes'
<1>1. Alone'
  BY DEF Alone
<1>2. \A s \in Request : s # r => FactorOf(s)' /\ CodesOf(s)'
  BY DEF FactorOf, CodesOf
<1> QED
  BY <1>1, <1>2 DEF Factor, Codes

(* A verification that has read the secret asks no more. *)
LEMMA KeyStep ==
  ASSUME KeyInv, NEW r \in Request, \A s \in Request : s # r => req'[s] = req[s],
         Asks(r)' => Asks(r) /\ req'[r].key = req[r].key,
         app \subseteq app', secret' # None => secret # None /\ secret'.key = secret.key
  PROVE  KeyInv'
<1>1. \A s \in Request : Asks(s)' => Asks(s) /\ req'[s].key = req[s].key
  BY DEF Asks
<1> QED
  BY <1>1, KeyFrame

(* where no request takes part but r, none does after a step of r *)
LEMMA OthersStay ==
  ASSUME NEW r \in Request, \A s \in Request : s # r => ~Part(s),
         \A s \in Request : s # r => req'[s] = req[s], AccountSame
  PROVE  \A s \in Request : s # r => ~Part(s)'
<1> SUFFICES ASSUME NEW s \in Request, s # r PROVE ~Part(s)'
  OBVIOUS
<1>1. Follows(s)
  BY FollowsSame
<1> QED
  BY <1>1 DEF Follows

(* A secret is set up while nobody verifies or resets, and the factor is off. *)
LEMMA SecondSetupAuth ==
  ASSUME TypeOK, SecondInv, NEW r \in Request, SetupAuth(r)
  PROVE  SecondInv'
<1>1. /\ UNCHANGED <<account, secret, codes, passed, app, kept>> /\ doubt' = (doubt \/ Overlap(r))
      /\ req[r] # None /\ req[r].kind = "setup" /\ req[r].step = "auth"
  BY DEF SetupAuth, At, rows, held
<1>2. CASE Say(r, "no")
  BY <1>1, <1>2, SecondRefused DEF Resets
<1>3. CASE ~Say(r, "no")
  <2>1. Learn(r, "store") /\ account # None /\ ~account.enabled
    BY <1>3 DEF SetupAuth, Known, Exists
  <2>2. /\ req'[r].step = "store" /\ req'[r].kind = "setup"
        /\ \A s \in Request : s # r => req'[s] = req[s]
    BY <1>1, <2>1, LearnMoves
  <2>3. AccountSame
    BY <1>1 DEF AccountSame
  <2>4. \A s \in Request : s # r => Follows(s)
    BY <2>2, <2>3, FollowsSame
  <2>5. KeyInv'
    <3>1. ~Asks(r)'
      BY <2>2 DEF Asks
    <3> QED
      BY <1>1, <2>4, <3>1, KeyFrame DEF SecondInv, Follows
  <2>6. ASSUME ~doubt' PROVE Alone' /\ Factor' /\ Codes'
    <3>1. Alone /\ Factor /\ Codes /\ Under({"verify", "reset"}) = {}
      BY <1>1, <2>6 DEF SecondInv, Overlap
    <3>2. \A s \in Request : s # r /\ Part(s)' =>
            Part(s) /\ req'[s].kind = "setup" /\ req[s].kind = "setup"
      <4>1. \A s \in Request : Part(s) => req[s].kind = "setup"
        BY <3>1 DEF Part, Under
      <4> QED
        BY <2>4, <4>1 DEF Follows
    <3>3. Alone'
      BY <2>2, <3>2 DEF Alone
    <3>4. Factor'
      <4>1. Usable'
        BY <1>1, <2>1 DEF Usable
      <4>2. \A s \in Request : FactorOf(s)'
        BY <1>1, <2>1, <2>2, <3>2 DEF FactorOf
      <4> QED
        BY <4>1, <4>2 DEF Factor
    <3>5. Codes'
      <4>1. \A s \in Request : CodesOf(s)'
        BY <2>2, <3>2 DEF CodesOf
      <4>2. CodesAsShown'
        BY <1>1, <3>1 DEF Codes, CodesAsShown
      <4> QED
        BY <4>1, <4>2 DEF Codes
    <3> QED
      BY <3>3, <3>4, <3>5
  <2> QED
    BY <2>5, <2>6 DEF SecondInv
<1> QED
  BY <1>2, <1>3

(* A new secret has a number that nobody guessed. *)
LEMMA SecondSetupStore ==
  ASSUME TypeOK, FreshInv, SecondInv, NEW r \in Request, SetupStore(r)
  PROVE  SecondInv'
<1>1. /\ UNCHANGED <<account, codes, passed, app, kept, doubt>>
      /\ req[r] # None /\ req[r].kind = "setup" /\ req[r].step = "store"
  BY DEF SetupStore, At, held, past
<1>2. CASE ~Exists(req[r].id)
  BY <1>1, <1>2, SecondRefused DEF SetupStore, Resets
<1>3. CASE Exists(req[r].id)
  <2> DEFINE m == [req[r] EXCEPT !.step = "answer", !.said = "ok", !.key = made.keys + 1]
  <2>1. req' = [req EXCEPT ![r] = m] /\ secret' = [key |-> made.keys + 1, verified |-> FALSE]
    BY <1>3, TypeParts DEF SetupStore, RequestType
  <2>2. /\ req'[r] = m /\ \A s \in Request : s # r => req'[s] = req[s]
        /\ m.kind = "setup" /\ m.step = "answer" /\ m.id = req[r].id
    <3>1. m.kind = "setup" /\ m.step = "answer" /\ m.id = req[r].id
      BY <1>1, RequestNumbers DEF Message
    <3> QED
      BY <2>1, <3>1, Moved
  <2>3. AccountSame /\ account # None
    BY <1>1, <1>3 DEF AccountSame, Exists
  <2>4. \A s \in Request : s # r => Follows(s)
    BY <2>2, <2>3, FollowsSame
  <2>5. KeyInv'
    <3> SUFFICES ASSUME NEW s \in Request, Asks(s)', secret'.key = req'[s].key PROVE FALSE
      BY DEF KeyInv
    <3>1. s # r /\ req'[s] = req[s] /\ req[s] # None
      BY <2>2 DEF Asks
    <3>2. req[s].key = made.keys + 1
      BY <2>1, <3>1
    <3>3. req[s].key <= made.keys /\ req[s].key \in Nat /\ made.keys \in Nat
      <4>1. made.keys \in Nat
        BY TypeParts, Bounds DEF PageType
      <4> QED
        BY <3>1, <4>1, RequestNumbers DEF FreshInv, Numbered
    <3> QED
      BY <3>2, <3>3
  <2>6. ASSUME ~doubt' PROVE Alone' /\ Factor' /\ Codes'
    <3>1. Alone /\ Factor /\ Codes
      BY <1>1, <2>6 DEF SecondInv
    <3>2. Part(r)
      BY <1>1, <1>3 DEF Part
    <3>3. ~account.enabled
      BY <1>1, <3>1, <3>2 DEF Factor, FactorOf
    <3>4. \A s \in Request : s # r /\ Part(s)' =>
            Part(s) /\ req'[s].kind = "setup" /\ req[s].kind = "setup"
      BY <2>4, <3>1, <3>2 DEF Follows, Alone
    <3>5. Alone'
      BY <2>2, <3>4 DEF Alone
    <3>6. Factor'
      <4>1. Usable'
        BY <1>1, <3>3 DEF Usable
      <4>2. \A s \in Request : FactorOf(s)'
        BY <1>1, <2>2, <3>3, <3>4 DEF FactorOf
      <4> QED
        BY <4>1, <4>2 DEF Factor
    <3>7. Codes'
      <4>1. \A s \in Request : CodesOf(s)'
        BY <2>2, <3>4 DEF CodesOf
      <4>2. CodesAsShown'
        BY <1>1, <3>1 DEF Codes, CodesAsShown
      <4> QED
        BY <4>1, <4>2 DEF Codes
    <3> QED
      BY <3>5, <3>6, <3>7
  <2> QED
    BY <2>5, <2>6 DEF SecondInv
<1> QED
  BY <1>2, <1>3

(* A verification that overlaps another request is in doubt. *)
LEMMA SecondVerifyAuth ==
  ASSUME TypeOK, SecondInv, NEW r \in Request, VerifyAuth(r)
  PROVE  SecondInv'
<1>1. /\ UNCHANGED <<account, secret, codes, passed, app, kept>> /\ doubt' = (doubt \/ Overlap(r))
      /\ req[r] # None /\ req[r].kind = "verify" /\ req[r].step = "auth"
  BY DEF VerifyAuth, Auth, At, rows, held
<1>2. CASE Say(r, "no")
  BY <1>1, <1>2, SecondRefused DEF Resets
<1>3. CASE ~Say(r, "no")
  <2>1. Learn(r, "match")
    BY <1>3 DEF VerifyAuth, Auth
  <2>2. /\ req'[r].step = "match" /\ req'[r].kind = "verify" /\ req'[r].key = req[r].key
        /\ \A s \in Request : s # r => req'[s] = req[s]
    BY <1>1, <2>1, LearnMoves
  <2>3. KeyInv'
    <3>1. Asks(r) /\ req'[r].key = req[r].key
      BY <1>1, <2>2 DEF Asks
    <3> QED
      BY <1>1, <2>2, <3>1, KeyStep DEF SecondInv
  <2>4. ASSUME ~doubt' PROVE Alone' /\ Factor' /\ Codes'
    <3>1. /\ Alone /\ Factor /\ Codes
          /\ Under({"setup", "verify", "reset"}) = {r}
      BY <1>1, <2>4 DEF SecondInv, Overlap
    <3>2. \A s \in Request : s # r => ~Part(s)
      BY <3>1 DEF Part, Under
    <3>3. \A s \in Request : s # r => ~Part(s)'
      BY <1>1, <2>2, <3>2, OthersStay DEF AccountSame
    <3>4. Usable'
      <4>1. \A s \in Request : ~Resets(s)
        BY <1>1, <3>2 DEF Resets
      <4> QED
        BY <1>1, <3>1, <4>1 DEF Usable, Factor
    <3>5. FactorOf(r)' /\ CodesOf(r)'
      BY <2>2 DEF FactorOf, CodesOf
    <3>6. CodesAsShown'
      BY <1>1, <3>1 DEF Codes, CodesAsShown
    <3> QED
      BY <3>3, <3>4, <3>5, <3>6, OneParts
  <2> QED
    BY <2>3, <2>4 DEF SecondInv
<1> QED
  BY <1>2, <1>3

(* The secret that matches was scanned. *)
LEMMA SecondVerifyMatch ==
  ASSUME TypeOK, SecondInv, NEW r \in Request, VerifyMatch(r)
  PROVE  SecondInv'
<1>1. /\ UNCHANGED <<account, secret, codes, passed, app, kept, doubt>>
      /\ req[r] # None /\ req[r].kind = "verify" /\ req[r].step = "match"
  BY DEF VerifyMatch, At, rows, held, past
<1>2. CASE Say(r, "no")
  BY <1>1, <1>2, SecondRefused DEF Resets
<1>3. CASE ~Say(r, "no")
  <2>1. /\ Go(r, "verify") /\ Exists(req[r].id) /\ secret # None /\ secret.key = req[r].key
    BY <1>3 DEF VerifyMatch
  <2>2. /\ req'[r].step = "verify" /\ req'[r].kind = "verify"
        /\ \A s \in Request : s # r => req'[s] = req[s]
    BY <1>1, <2>1, GoMoves DEF Step
  <2>3. KeyInv'
    <3>1. ~Asks(r)'
      BY <2>2 DEF Asks
    <3> QED
      BY <1>1, <2>2, <3>1, KeyStep DEF SecondInv
  <2>4. secret.key \in app
    <3>1. Asks(r)
      BY <1>1 DEF Asks
    <3> QED
      BY <2>1, <3>1 DEF SecondInv, KeyInv
  <2>5. ASSUME ~doubt' PROVE Alone' /\ Factor' /\ Codes'
    <3>1. Alone /\ Factor /\ Codes /\ Part(r)
      BY <1>1, <2>1, <2>5 DEF SecondInv, Part
    <3>2. \A s \in Request : s # r => ~Part(s)
      BY <1>1, <3>1, Only
    <3>3. \A s \in Request : s # r => ~Part(s)'
      BY <1>1, <2>2, <3>2, OthersStay DEF AccountSame
    <3>4. Usable'
      <4>1. \A s \in Request : ~Resets(s)
        BY <1>1, <3>2 DEF Resets
      <4> QED
        BY <1>1, <3>1, <4>1 DEF Usable, Factor
    <3>5. FactorOf(r)' /\ CodesOf(r)'
      BY <1>1, <2>1, <2>2, <2>4 DEF FactorOf, CodesOf
    <3>6. CodesAsShown'
      BY <1>1, <3>1 DEF Codes, CodesAsShown
    <3> QED
      BY <3>3, <3>4, <3>5, <3>6, OneParts
  <2> QED
    BY <2>3, <2>5 DEF SecondInv
<1> QED
  BY <1>2, <1>3

(* Alone, a verification marks the secret it has read, ... *)
LEMMA SecondVerifyMark ==
  ASSUME TypeOK, SecondInv, NEW r \in Request, VerifyMark(r)
  PROVE  SecondInv'
<1>1. /\ UNCHANGED <<account, codes, passed, app, kept, doubt>> /\ Go(r, "enable")
      /\ req[r] # None /\ req[r].kind = "verify" /\ req[r].step = "verify"
  BY DEF VerifyMark, At, held, past
<1>2. CASE ~Exists(req[r].id)
  <2>1. UNCHANGED secret
    BY <1>2 DEF VerifyMark
  <2> QED
    BY <1>1, <1>2, <2>1, SecondIdle DEF Step
<1>3. CASE Exists(req[r].id)
  <2>1. /\ req'[r].step = "enable" /\ req'[r].kind = "verify"
        /\ \A s \in Request : s # r => req'[s] = req[s]
    BY <1>1, GoMoves DEF Step
  <2>2. /\ secret = None => secret' = None
        /\ secret # None => secret'.verified /\ secret'.key = secret.key
    <3>1. CASE secret = None
      BY <3>1 DEF VerifyMark
    <3>2. CASE secret # None
      <4>1. secret' = [secret EXCEPT !.verified = TRUE]
        BY <1>3, <3>2 DEF VerifyMark
      <4>2. secret \in Secret
        BY <3>2, TypeParts DEF StoreType
      <4> QED
        BY <3>2, <4>1, <4>2 DEF Secret
    <3> QED
      BY <3>1, <3>2
  <2>3. KeyInv'
    <3>1. ~Asks(r)'
      BY <2>1 DEF Asks
    <3> QED
      BY <1>1, <2>1, <2>2, <3>1, KeyStep DEF SecondInv
  <2>4. ASSUME ~doubt' PROVE Alone' /\ Factor' /\ Codes'
    <3>1. Alone /\ Factor /\ Codes /\ Part(r)
      BY <1>1, <1>3, <2>4 DEF SecondInv, Part
    <3>2. \A s \in Request : s # r => ~Part(s)
      BY <1>1, <3>1, Only
    <3>3. \A s \in Request : s # r => ~Part(s)'
      BY <1>1, <2>1, <3>2, OthersStay DEF AccountSame
    <3>4. secret # None /\ secret.key \in app
      BY <1>1, <3>1 DEF Factor, FactorOf
    <3>5. secret' # None
      <4>1. secret' = [secret EXCEPT !.verified = TRUE]
        BY <1>3, <3>4 DEF VerifyMark
      <4>2. secret \in Secret
        BY <3>4, TypeParts DEF StoreType
      <4>3. secret' \in Secret
        BY <4>1, <4>2 DEF Secret
      <4> QED
        BY <4>3, NoneAssumption
    <3>6. Usable' /\ FactorOf(r)'
      BY <1>1, <2>1, <2>2, <3>4, <3>5 DEF Usable, FactorOf
    <3>7. CodesAsShown' /\ CodesOf(r)'
      BY <1>1, <2>1, <3>1 DEF Codes, CodesAsShown, CodesOf
    <3> QED
      BY <3>3, <3>6, <3>7, OneParts
  <2> QED
    BY <2>3, <2>4 DEF SecondInv
<1> QED
  BY <1>2, <1>3

(* ... and enables the factor with it. *)
LEMMA SecondVerifyEnable ==
  ASSUME TypeOK, SecondInv, NEW r \in Request, VerifyEnable(r)
  PROVE  SecondInv'
<1>1. /\ UNCHANGED <<secret, codes, passed, app, kept, doubt>> /\ Go(r, "drop")
      /\ req[r] # None /\ req[r].kind = "verify" /\ req[r].step = "enable"
  BY DEF VerifyEnable, At, held, past
<1>2. CASE ~Exists(req[r].id)
  <2>1. UNCHANGED account
    BY <1>2 DEF VerifyEnable
  <2> QED
    BY <1>1, <1>2, <2>1, SecondIdle DEF Step
<1>3. CASE Exists(req[r].id)
  <2>1. /\ req'[r].step = "drop" /\ req'[r].kind = "verify"
        /\ \A s \in Request : s # r => req'[s] = req[s]
    BY <1>1, GoMoves DEF Step
  <2>2. KeyInv'
    <3>1. ~Asks(r)'
      BY <2>1 DEF Asks
    <3> QED
      BY <1>1, <2>1, <3>1, KeyStep DEF SecondInv
  <2>3. ASSUME ~doubt' PROVE Alone' /\ Factor' /\ Codes'
    <3>1. Alone /\ Factor /\ Codes /\ Part(r)
      BY <1>1, <1>3, <2>3 DEF SecondInv, Part
    <3>2. \A s \in Request : s # r => ~Part(s)
      BY <1>1, <3>1, Only
    <3>3. \A s \in Request : s # r => ~Part(s)'
      <4>1. account # None /\ account \in User /\ account' = [account EXCEPT !.enabled = TRUE]
        BY <1>3, TypeParts DEF VerifyEnable, Exists, StoreType
      <4>2. account'.id = account.id
        BY <4>1 DEF User
      <4> QED
        BY <2>1, <3>2, <4>1, <4>2 DEF Part, Exists
    <3>4. secret # None /\ secret.key \in app /\ secret.verified
      BY <1>1, <3>1 DEF Factor, FactorOf
    <3>5. Usable' /\ FactorOf(r)'
      BY <1>1, <2>1, <3>4 DEF Usable, FactorOf
    <3>6. CodesAsShown' /\ CodesOf(r)'
      BY <1>1, <2>1, <3>1 DEF Codes, CodesAsShown, CodesOf
    <3> QED
      BY <3>3, <3>5, <3>6, OneParts
  <2> QED
    BY <2>2, <2>3 DEF SecondInv
<1> QED
  BY <1>2, <1>3

(* The codes of an earlier verification are dropped, ... *)
LEMMA SecondDropCodes ==
  ASSUME TypeOK, SecondInv, NEW r \in Request, DropCodes(r)
  PROVE  SecondInv'
<1>1. /\ UNCHANGED <<account, secret, passed, app, doubt>> /\ Go(r, "codes")
      /\ req[r] # None /\ req[r].kind = "verify"
  BY DEF DropCodes, At, past
<1>2. CASE ~Exists(req[r].id)
  <2>1. UNCHANGED <<codes, kept>>
    BY <1>2 DEF DropCodes
  <2> QED
    BY <1>1, <1>2, <2>1, SecondIdle DEF Step
<1>3. CASE Exists(req[r].id)
  <2>1. /\ req'[r].step = "codes" /\ req'[r].kind = "verify"
        /\ \A s \in Request : s # r => req'[s] = req[s]
        /\ codes' = {} /\ kept' = 0
    BY <1>1, <1>3, GoMoves DEF Step, DropCodes
  <2>2. KeyInv'
    <3>1. ~Asks(r)'
      BY <2>1 DEF Asks
    <3> QED
      BY <1>1, <2>1, <3>1, KeyStep DEF SecondInv
  <2>3. ASSUME ~doubt' PROVE Alone' /\ Factor' /\ Codes'
    <3>1. Alone /\ Factor /\ Codes /\ Part(r)
      <4>1. req[r].step = "drop"
        BY DEF DropCodes, At
      <4> QED
        BY <1>1, <1>3, <2>3, <4>1 DEF SecondInv, Part
    <3>2. \A s \in Request : s # r => ~Part(s)
      BY <1>1, <3>1, Only
    <3>3. \A s \in Request : s # r => ~Part(s)'
      BY <1>1, <2>1, <3>2, OthersStay DEF AccountSame
    <3>4. Usable'
      <4>1. \A s \in Request : ~Resets(s)
        BY <1>1, <3>2 DEF Resets
      <4> QED
        BY <1>1, <3>1, <4>1 DEF Usable, Factor
    <3>5. FactorOf(r)' /\ CodesAsShown' /\ CodesOf(r)'
      BY <2>1 DEF FactorOf, CodesAsShown, CodesOf
    <3> QED
      BY <3>3, <3>4, <3>5, OneParts
  <2> QED
    BY <2>2, <2>3 DEF SecondInv
<1> QED
  BY <1>2, <1>3

(* ... and new ones stored, which no login has used. *)
LEMMA SecondStoreCodes ==
  ASSUME TypeOK, UseInv, SecondInv, NEW r \in Request, StoreCodes(r)
  PROVE  SecondInv'
<1>1. /\ UNCHANGED <<account, secret, passed, app, kept, doubt>>
      /\ req[r] # None /\ req[r].kind = "verify" /\ req[r].step = "codes"
  BY DEF StoreCodes, At, held, past
<1>2. CASE ~Exists(req[r].id)
  <2>1. Say(r, "no") /\ UNCHANGED codes
    BY <1>2 DEF StoreCodes
  <2> QED
    BY <1>1, <1>2, <2>1, SecondRefused DEF Resets
<1>3. CASE Exists(req[r].id)
  <2> DEFINE n == made.batches + 1
             m == [req[r] EXCEPT !.step = "answer", !.said = "ok", !.code = n]
  <2>1. /\ req' = [req EXCEPT ![r] = m] /\ made.batches < MaxBatches
        /\ codes' = codes \cup {[batch |-> n, used |-> FALSE]}
    BY <1>3, TypeParts DEF StoreCodes, RequestType
  <2>2. m.kind = "verify" /\ m.step = "answer" /\ m.code = n
    BY <1>1, RequestNumbers DEF Message
  <2>3. req'[r] = m /\ \A s \in Request : s # r => req'[s] = req[s]
    BY <2>1, Moved
  <2>4. KeyInv'
    <3>1. ~Asks(r)'
      BY <2>2, <2>3 DEF Asks
    <3> QED
      BY <1>1, <2>3, <3>1, KeyStep DEF SecondInv
  <2>5. passed[n] = 0
    <3>1. made.batches \in Nat /\ n \in 1..MaxBatches /\ passed[n] \in Nat
      BY <2>1, TypeParts, Bounds DEF PageType
    <3> QED
      BY <3>1 DEF UseInv, Unspent
  <2>6. ASSUME ~doubt' PROVE Alone' /\ Factor' /\ Codes'
    <3>1. Alone /\ Factor /\ Codes /\ Part(r)
      BY <1>1, <1>3, <2>6 DEF SecondInv, Part
    <3>2. \A s \in Request : s # r => ~Part(s)
      BY <1>1, <3>1, Only
    <3>3. \A s \in Request : s # r => ~Part(s)'
      BY <1>1, <2>3, <3>2, OthersStay DEF AccountSame
    <3>4. Usable'
      <4>1. \A s \in Request : ~Resets(s)
        BY <1>1, <3>2 DEF Resets
      <4> QED
        BY <1>1, <3>1, <4>1 DEF Usable, Factor
    <3>5. kept = 0 /\ codes = {}
      BY <1>1, <3>1 DEF Codes, CodesOf
    <3>6. codes' = {[batch |-> n, used |-> passed'[n] > 0]}
      <4>1. (passed'[n] > 0) = FALSE
        BY <1>1, <2>5
      <4> QED
        BY <2>1, <3>5, <4>1
    <3>7. CodesOf(r)'
      BY <2>2, <2>3, <3>6 DEF CodesOf, AsShown
    <3>8. FactorOf(r)' /\ CodesAsShown'
      BY <1>1, <2>2, <2>3, <3>5 DEF FactorOf, CodesAsShown
    <3> QED
      BY <3>3, <3>4, <3>7, <3>8, OneParts
  <2> QED
    BY <2>4, <2>6 DEF SecondInv
<1> QED
  BY <1>2, <1>3

(* A login marks its code, and counts as having used it. *)
LEMMA MarkShown ==
  ASSUME TypeOK, UseInv, NEW r \in Request, LoginMark(r), NEW k, AsShown(k)
  PROVE  AsShown(k)'
<1> DEFINE b == req[r].code
           c == [batch |-> k, used |-> passed[k] > 0]
<1>1. codes \subseteq [batch : 1..MaxBatches, used : BOOLEAN]
  BY TypeParts DEF StoreType
<1>2. c \in codes /\ codes = {c}
  BY DEF AsShown
<1>3. k \in 1..MaxBatches
  BY <1>1, <1>2
<1>4. b \in 1..MaxBatches
  BY DEF UseInv, Racing, Marks, LoginMark, At
<1>5. passed \in [1..MaxBatches -> Nat] /\ passed' = [passed EXCEPT ![b] = passed[b] + 1]
  BY TypeParts DEF PageType, LoginMark
<1>6. codes' = {IF c.batch = b THEN [c EXCEPT !.used = TRUE] ELSE c}
  BY <1>2 DEF LoginMark
<1>7. CASE k = b
  <2>1. codes' = {[batch |-> k, used |-> TRUE]}
    BY <1>6, <1>7
  <2>2. (passed'[k] > 0) = TRUE
    BY <1>3, <1>5, <1>7
  <2> QED
    BY <2>1, <2>2 DEF AsShown
<1>8. CASE k # b
  <2>1. codes' = {c}
    BY <1>6, <1>8
  <2>2. passed'[k] = passed[k]
    BY <1>3, <1>5, <1>8
  <2> QED
    BY <2>1, <2>2 DEF AsShown
<1> QED
  BY <1>7, <1>8

LEMMA SecondLoginMark ==
  ASSUME TypeOK, UseInv, SecondInv, NEW r \in Request, LoginMark(r)
  PROVE  SecondInv'
<1>1. /\ UNCHANGED <<account, secret, app, kept, doubt>> /\ Go(r, "session")
      /\ req[r] # None /\ req[r].kind = "login"
  BY DEF LoginMark, At, held
<1>2. AccountSame /\ ~Resets(r)
  BY <1>1 DEF AccountSame, Resets
<1>3. req'[r].kind = "login" /\ \A s \in Request : s # r => req'[s] = req[s]
  BY <1>1, GoMoves DEF Step
<1>4. \A s \in Request : Follows(s)
  BY <1>1, <1>2, <1>3, FollowsTo, FollowsSame
<1>5. KeyInv'
  BY <1>1, <1>4, KeyFrame DEF SecondInv, Follows
<1>6. ASSUME ~doubt' PROVE Alone' /\ Factor' /\ Codes'
  <2>1. Alone /\ Factor /\ Codes
    BY <1>1, <1>6 DEF SecondInv
  <2>2. Alone' /\ Factor'
    BY <1>1, <1>2, <1>4, <1>6, <2>1, AloneFrame, FactorFrame
  <2>3. CodesAsShown'
    <3>1. kept # 0 => AsShown(kept)
      BY <1>1, <1>6, <2>1 DEF Codes, CodesAsShown, AsShown
    <3>2. kept # 0 => codes' = {[batch |-> kept, used |-> passed'[kept] > 0]}
      BY <3>1, MarkShown DEF AsShown
    <3> QED
      BY <1>1, <3>2 DEF CodesAsShown
  <2>4. ASSUME NEW s \in Request PROVE CodesOf(s)'
    <3>1. SUFFICES ASSUME Part(s)', req'[s].kind = "verify" PROVE CodesOf(s)'
      BY DEF CodesOf
    <3>2. /\ Part(s) /\ req[s].kind = "verify" /\ req'[s].step = req[s].step
          /\ req'[s].said = req[s].said /\ req'[s].code = req[s].code
      BY <1>4, <3>1 DEF Follows
    <3>3. CodesOf(s)
      BY <2>1 DEF Codes
    <3>4. req[s].step = "codes" => kept = 0 /\ codes = {}
      BY <3>2, <3>3 DEF CodesOf
    <3>5. codes = {} => codes' = {}
      BY DEF LoginMark
    <3>6. req[s].step = "answer" /\ req[s].said = "ok" => AsShown(req[s].code)
      BY <3>2, <3>3 DEF CodesOf
    <3>7. AsShown(req[s].code) =>
            codes' = {[batch |-> req[s].code, used |-> passed'[req[s].code] > 0]}
      <4>1. ASSUME NEW k, AsShown(k) PROVE codes' = {[batch |-> k, used |-> passed'[k] > 0]}
        BY <4>1, MarkShown DEF AsShown
      <4> QED
        BY <4>1
    <3> QED
      BY <1>1, <3>2, <3>4, <3>5, <3>6, <3>7 DEF CodesOf, AsShown
  <2> QED
    BY <2>2, <2>3, <2>4 DEF Codes
<1> QED
  BY <1>5, <1>6 DEF SecondInv

(* While a reset is under way, the factor need not be usable. *)
LEMMA SecondResetRead ==
  ASSUME TypeOK, SecondInv, NEW r \in Request, ResetRead(r)
  PROVE  SecondInv'
<1> DEFINE m == [Sent("reset", None, "secret") EXCEPT !.id = account.id]
<1>1. /\ UNCHANGED <<account, secret, codes, passed, app, kept>> /\ account # None
      /\ req' = [req EXCEPT ![r] = m] /\ req[r] = None
      /\ doubt' = (doubt \/ Under({"setup", "verify", "reset"}) # {})
  BY DEF ResetRead, Send, rows, held
<1>2. m.kind = "reset" /\ m.step = "secret" /\ m.id = account.id
  BY DEF Sent
<1>3. req'[r] = m /\ \A s \in Request : s # r => req'[s] = req[s]
  BY <1>1, Moved
<1>4. m # None
  <2>1. account.id \in 0..MaxIds
    BY <1>1, TypeParts, Bounds DEF StoreType, User
  <2>2. m \in Message
    BY <2>1, Sending DEF Kind, Step
  <2> QED
    BY <2>2, NoneAssumption
<1>5. KeyInv'
  <2>1. ~Asks(r)'
    BY <1>2, <1>3 DEF Asks
  <2> QED
    BY <1>1, <1>3, <2>1, KeyStep DEF SecondInv
<1>6. ASSUME ~doubt' PROVE Alone' /\ Factor' /\ Codes'
  <2>1. Alone /\ Factor /\ Codes /\ Under({"setup", "verify", "reset"}) = {}
    BY <1>1, <1>6 DEF SecondInv
  <2>2. \A s \in Request : s # r => ~Part(s)
    BY <2>1 DEF Part, Under
  <2>3. \A s \in Request : s # r => ~Part(s)'
    BY <1>1, <1>3, <2>2, OthersStay DEF AccountSame
  <2>4. Resets(r)'
    BY <1>1, <1>2, <1>3, <1>4 DEF Resets, Part, Exists
  <2>5. Usable' /\ FactorOf(r)' /\ CodesOf(r)'
    BY <1>2, <1>3, <2>4 DEF Usable, FactorOf, CodesOf
  <2>6. CodesAsShown'
    BY <1>1, <2>1 DEF Codes, CodesAsShown
  <2> QED
    BY <2>3, <2>5, <2>6, OneParts
<1> QED
  BY <1>5, <1>6 DEF SecondInv

LEMMA SecondReset ==
  ASSUME TypeOK, SecondInv, NEW r \in Request, ResetSecret(r) \/ ResetCodes(r)
  PROVE  SecondInv'
<1>1. /\ UNCHANGED <<account, passed, app, doubt>>
      /\ req[r] # None /\ req[r].kind = "reset" /\ req[r].step \in {"secret", "codes"}
  BY DEF ResetSecret, ResetCodes, At, held, past
<1>2. PICK step \in {"codes", "flag"} : Go(r, step)
  BY DEF ResetSecret, ResetCodes
<1>3. CASE ~Exists(req[r].id)
  <2>1. UNCHANGED <<secret, codes, kept>>
    BY <1>3 DEF ResetSecret, ResetCodes, held
  <2> QED
    BY <1>1, <1>2, <1>3, <2>1, SecondIdle DEF Step
<1>4. CASE Exists(req[r].id)
  <2>1. /\ req'[r] # None /\ req'[r].step = step /\ req'[r].kind = "reset"
        /\ req'[r].id = req[r].id
        /\ \A s \in Request : s # r => req'[s] = req[s]
    BY <1>1, <1>2, GoMoves DEF Step
  <2>2. /\ UNCHANGED secret \/ secret' = None
        /\ UNCHANGED <<codes, kept>> \/ kept' = 0
    BY <1>4 DEF ResetSecret, ResetCodes, held
  <2>3. KeyInv'
    <3>1. ~Asks(r)'
      BY <2>1 DEF Asks
    <3> QED
      BY <1>1, <2>1, <2>2, <3>1, KeyStep DEF SecondInv
  <2>4. ASSUME ~doubt' PROVE Alone' /\ Factor' /\ Codes'
    <3>1. Alone /\ Factor /\ Codes /\ Part(r)
      BY <1>1, <1>4, <2>4 DEF SecondInv, Part
    <3>2. \A s \in Request : s # r => ~Part(s)
      BY <1>1, <3>1, Only
    <3>3. \A s \in Request : s # r => ~Part(s)'
      BY <1>1, <2>1, <3>2, OthersStay DEF AccountSame
    <3>4. Resets(r)'
      BY <1>1, <1>2, <1>4, <2>1 DEF Resets, Part, Exists
    <3>5. Usable' /\ FactorOf(r)' /\ CodesOf(r)'
      BY <2>1, <3>4 DEF Usable, FactorOf, CodesOf
    <3>6. CodesAsShown'
      BY <1>1, <2>2, <3>1 DEF Codes, CodesAsShown
    <3> QED
      BY <3>3, <3>5, <3>6, OneParts
  <2> QED
    BY <2>3, <2>4 DEF SecondInv
<1> QED
  BY <1>3, <1>4

(* The last statement disables the factor; what was in doubt is settled. *)
LEMMA SecondResetFlag ==
  ASSUME TypeOK, SecondInv, NEW r \in Request, ResetFlag(r)
  PROVE  SecondInv'
<1>1. /\ UNCHANGED <<secret, codes, passed, app, kept>> /\ req' = [req EXCEPT ![r] = None]
      /\ account' = IF Exists(req[r].id) THEN [account EXCEPT !.enabled = FALSE] ELSE account
      /\ ~doubt' => \/ ~doubt
                    \/ Exists(req[r].id) /\ secret = None /\ codes = {} /\ kept = 0
      /\ ~doubt' => Under({"setup", "verify", "reset"}) = {r}
  BY DEF ResetFlag, held
<1>2. req'[r] = None /\ \A s \in Request : s # r => req'[s] = req[s]
  BY <1>1, Moved
<1>3. KeyInv'
  <2>1. ~Asks(r)'
    BY <1>2 DEF Asks
  <2> QED
    BY <1>1, <1>2, <2>1, KeyStep DEF SecondInv
<1>4. ASSUME ~doubt' PROVE Alone' /\ Factor' /\ Codes'
  <2>1. \A s \in Request : s # r => ~Part(s)
    BY <1>1, <1>4 DEF Part, Under
  <2>2. account # None /\ account' # account =>
          account \in User /\ account' = [account EXCEPT !.enabled = FALSE]
    BY <1>1, TypeParts DEF StoreType
  <2>3. account # None /\ account' # account => account'.id = account.id /\ ~account'.enabled
    BY <2>2 DEF User
  <2>4. \A s \in Request : s # r => ~Part(s)'
    <3>1. account = None => account' = None
      BY <1>1 DEF Exists
    <3> QED
      BY <1>2, <2>1, <2>3, <3>1 DEF Part, Exists
  <2>5. FactorOf(r)' /\ CodesOf(r)'
    BY <1>2 DEF FactorOf, CodesOf, Part
  <2>6. CodesAsShown'
    BY <1>1, <1>4 DEF SecondInv, Codes, CodesAsShown
  <2>7. Usable'
    <3>1. CASE Exists(req[r].id)
      <4>1. account \in User /\ account' = [account EXCEPT !.enabled = FALSE]
        BY <1>1, <3>1, TypeParts DEF StoreType, Exists
      <4>2. ~account'.enabled
        BY <4>1 DEF User
      <4> QED
        BY <4>2 DEF Usable
    <3>2. CASE ~Exists(req[r].id)
      <4>1. ~doubt /\ UNCHANGED <<account, secret, app>>
        BY <1>1, <1>4, <3>2
      <4>2. \A s \in Request : ~Resets(s)
        BY <2>1, <3>2 DEF Resets, Part
      <4> QED
        BY <4>1, <4>2 DEF SecondInv, Factor, Usable
    <3> QED
      BY <3>1, <3>2
  <2> QED
    BY <2>4, <2>5, <2>6, <2>7, OneParts
<1> QED
  BY <1>3, <1>4 DEF SecondInv

(* A new account has a number no request knows. *)
LEMMA SecondCreateUser ==
  ASSUME TypeOK, FreshInv, SecondInv, CreateUser
  PROVE  SecondInv'
<1>1. /\ UNCHANGED <<secret, codes, req, app, kept, doubt, passed>> /\ account = None
      /\ \E role \in Role :
           account' = [id |-> made.ids + 1, status |-> "pending", enabled |-> FALSE, role |-> role]
  BY DEF CreateUser, held, past
<1>2. account'.id = made.ids + 1 /\ account'.enabled = FALSE
  BY <1>1
<1>3. KeyInv'
  BY <1>1, KeyFrame DEF SecondInv, Asks
<1>4. \A s \in Request : ~Part(s)'
  <2> SUFFICES ASSUME NEW s \in Request, Part(s)' PROVE FALSE
    OBVIOUS
  <2>1. req[s] # None /\ req[s].id = made.ids + 1
    BY <1>1, <1>2 DEF Part, Exists
  <2>2. req[s].id <= made.ids /\ req[s].id \in Nat /\ made.ids \in Nat
    <3>1. made.ids \in Nat
      BY TypeParts, Bounds DEF PageType
    <3> QED
      BY <2>1, <3>1, RequestNumbers DEF FreshInv, Numbered
  <2> QED
    BY <2>1, <2>2
<1>5. ASSUME ~doubt' PROVE Alone' /\ Factor' /\ Codes'
  <2>1. Usable' /\ Alone' /\ (\A s \in Request : FactorOf(s)' /\ CodesOf(s)')
    BY <1>2, <1>4 DEF Usable, Alone, FactorOf, CodesOf
  <2>2. CodesAsShown'
    BY <1>1, <1>5 DEF SecondInv, Codes, CodesAsShown
  <2> QED
    BY <2>1, <2>2 DEF Factor, Codes
<1> QED
  BY <1>3, <1>5 DEF SecondInv

(* With the account goes all that is said of it. *)
LEMMA SecondDeleteUser ==
  ASSUME SecondInv, DeleteUser
  PROVE  SecondInv'
<1>1. account' = None /\ secret' = None /\ kept' = 0
  BY DEF DeleteUser
<1>2. \A s \in Request : ~Part(s)'
  BY <1>1 DEF Part, Exists
<1>3. KeyInv' /\ Alone' /\ Factor' /\ Codes'
  BY <1>1, <1>2 DEF KeyInv, Alone, Factor, Usable, FactorOf, Codes, CodesAsShown, CodesOf
<1> QED
  BY <1>3 DEF SecondInv

LEMMA SecondStep ==
  TypeOK /\ UseInv /\ FreshInv /\ SecondInv /\ [Next]_vars => SecondInv'
<1> SUFFICES ASSUME TypeOK, UseInv, FreshInv, SecondInv, [Next]_vars PROVE SecondInv'
  OBVIOUS
<1>1. CASE PageNext
  BY <1>1, SecondSent, SecondReload, SecondPage, SecondAnswer DEF PageNext
<1>2. CASE ServerNext
  BY <1>2, SecondOthers, SecondLoginMark, SecondSetupAuth, SecondSetupStore, SecondVerifyAuth,
     SecondVerifyMatch, SecondVerifyMark, SecondVerifyEnable, SecondDropCodes, SecondStoreCodes,
     SecondResetRead, SecondReset, SecondResetFlag DEF ServerNext
<1>3. CASE CreateUser \/ DeleteUser
  BY <1>3, SecondCreateUser, SecondDeleteUser
<1>4. CASE UNCHANGED vars
  <2>1. UNCHANGED <<account, secret, codes, req, app, kept, doubt, passed>>
    BY <1>4 DEF vars, rows, held, past
  <2>2. AccountSame /\ \A s \in Request : Follows(s)
    BY <2>1, FollowsSame DEF AccountSame
  <2> QED
    BY <2>1, <2>2, SecondFrame
<1> QED
  BY <1>1, <1>2, <1>3, <1>4 DEF Next

-----------------------------------------------------------------------------
(* Every state has the types of TypeOK: secrets, codes and sessions belong *)
(* to an account that exists, whatever requests are cut short.             *)
THEOREM TypeCorrect == Spec => []TypeOK
<1>1. Init => TypeOK
  <2> SUFFICES ASSUME Init PROVE TypeOK
    OBVIOUS
  <2>1. StoreType
    BY Zeros DEF Init, StoreType
  <2>2. RequestType
    BY DEF Init, RequestType
  <2>3. made \in [ids : 0..MaxIds, keys : 0..MaxKeys, batches : 0..MaxBatches]
    BY Zeros DEF Init
  <2>4. page \in [Client -> Page] /\ shown \in [Client -> 0..MaxKeys]
    BY Zeros DEF Init, Page
  <2>5. doubt = FALSE /\ faults = 0
    BY DEF Init
  <2>6. app \subseteq 1..MaxKeys /\ kept \in 0..MaxBatches /\ raced \subseteq 0..MaxBatches
    BY Zeros DEF Init
  <2>7. passed \in [1..MaxBatches -> Nat]
    BY DEF Init
  <2>8. doubt \in BOOLEAN
    BY <2>5
  <2>9. faults \in 0..MaxFaults
    BY <2>5, Bounds
  <2>10. PageType
    BY <2>3, <2>4, <2>6, <2>7, <2>8, <2>9 DEF PageType
  <2> QED
    BY <2>1, <2>2, <2>10, TypeParts
<1>2. TypeOK /\ [Next]_vars => TypeOK'
  BY StoreTypeStep, RequestTypeStep, PageTypeStep DEF TypeOK, StoreType, RequestType, PageType
<1> QED
  BY <1>1, <1>2, PTL DEF Spec

(* A recovery code lets one login through unless two presented it at once: *)
(* however many browsers, requests and failures, and whenever a            *)
(* verification or a reset replaces the codes (useRecoveryCode).           *)
THEOREM CodeLetsOneLoginThrough == Spec => []CodesUsedOnce
<1>1. Init => UseInv
  BY Bounds DEF Init, UseInv, Presented, Presents, Unspent, Racing, Marks, CodesUsedOnce
<1>2. UseInv => CodesUsedOnce
  BY DEF UseInv
<1> QED
  BY <1>1, <1>2, TypeCorrect, UseInvStep, PTL DEF Spec

(* The invariants of the second factor, of every reachable state.          *)
LEMMA SecondAlways == Spec => [](TypeOK /\ SecondInv)
<1>1. Init => UseInv
  BY Bounds DEF Init, UseInv, Presented, Presents, Unspent, Racing, Marks, CodesUsedOnce
<1>2. Init => FreshInv
  <2> SUFFICES ASSUME Init PROVE FreshInv
    OBVIOUS
  <2>1. made.ids = 0 /\ made.keys = 0 /\ made.batches = 0
    BY DEF Init
  <2>2. Numbered
    BY DEF Init, Numbered
  <2> QED
    BY <2>1, <2>2 DEF Init, FreshInv
<1>3. Init => SecondInv
  BY DEF Init, SecondInv, KeyInv, Asks, Alone, Factor, Usable, FactorOf, Codes, CodesAsShown,
         CodesOf, Part
<1> QED
  BY <1>1, <1>2, <1>3, TypeCorrect, UseInvStep, FreshStep, SecondStep, PTL DEF Spec

(* While a login asks for the second factor, the secret is one the person  *)
(* scanned and confirmed, whatever is set up, left, cut short, reset or    *)
(* created anew, by however many browsers (auth.ts 161-171, 208-266).      *)
THEOREM FactorStaysUsable == Spec => []SecondFactorUsable
<1>1. TypeOK /\ SecondInv => SecondFactorUsable
  <2> SUFFICES ASSUME SecondInv, account # None, account.enabled, ~doubt, Under({"reset"}) = {}
               PROVE  secret # None /\ secret.verified /\ secret.key \in app
    BY DEF SecondFactorUsable
  <2>1. \A r \in Request : ~Resets(r)
    BY DEF Resets, Part, Under
  <2> QED
    BY <2>1 DEF SecondInv, Factor, Usable
<1> QED
  BY <1>1, SecondAlways, PTL

(* The recovery codes the person was shown are the ones stored, each       *)
(* unused until a login used it, for any number of verifications, resets   *)
(* and failures (generateAndStoreRecoveryCodes, useRecoveryCode).          *)
THEOREM ShownCodesStored == Spec => []CodesAsShown
<1>1. TypeOK /\ SecondInv => CodesAsShown
  BY DEF SecondInv, Codes, CodesAsShown
<1> QED
  BY <1>1, SecondAlways, PTL
=============================================================================
