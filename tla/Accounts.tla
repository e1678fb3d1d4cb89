------------------------------ MODULE Accounts ------------------------------
(***************************************************************************)
(* An account, its second factor and its recovery codes: the handlers of   *)
(* storage-api and admin-api over services/auth.ts, statement by statement *)
(* (each await is a point where another request runs), and the pages of    *)
(* the storage UI that issue the requests.  One username is followed; a    *)
(* Client is a browser with its session cookie, a Request one request in   *)
(* flight.  TOTP secrets and batches of recovery codes are numbered in     *)
(* the order they are generated; a batch stands for one of its codes.      *)
(* A wrong password, a malformed body and an expired session change        *)
(* nothing and are left out.                                               *)
(***************************************************************************)
EXTENDS Naturals, FiniteSets

CONSTANTS Client, Request, Role, None,
          MaxIds,       \* accounts created under the name
          MaxKeys,      \* TOTP secrets generated
          MaxBatches,   \* batches of recovery codes generated
          MaxFaults     \* requests that fail half-way, answers lost, pages reloaded

ASSUME AccountsAssumption ==
    /\ {MaxIds, MaxKeys, MaxBatches, MaxFaults} \subseteq Nat
    /\ Role \subseteq {"user", "superuser"}

(* a row of users *)
User == [id : 1..MaxIds, status : {"pending", "active"}, enabled : BOOLEAN, role : Role]

(* a row of totp_secrets *)
Secret == [key : 1..MaxKeys, verified : BOOLEAN]

VARIABLES
  account,   \* the row of users, or None
  secret,    \* its row of totp_secrets, or None
  codes,     \* its rows of recovery_codes
  session,   \* the account whose session the cookie of a browser names, or 0
  req,       \* the requests in flight
  page,      \* the page a browser shows; what AuthProvider holds follows from it
  shown,     \* the secret in the QR code on the page, or 0
  app,       \* the secrets the person has scanned
  kept,      \* the batch of codes the person holds, or 0
  made,      \* how many accounts, secrets and batches were generated
  doubt,     \* the second factor was set up and reset at once, or cut short
  passed,    \* how many logins a code let through
  raced,     \* codes presented by two logins at once
  faults     \* how many faults there were

rows  == <<account, secret, codes>>
pages == <<page, shown>>
held  == <<app, kept>>
past  == <<doubt, passed, raced, faults>>
vars  == <<rows, session, req, pages, held, made, past>>

Kind  == {"login", "signup", "me", "logout", "setup", "verify", "reset"}
Step  == {"read", "match", "mark", "session", "update", "auth", "store",
          "verify", "enable", "drop", "codes", "secret", "flag", "answer"}
Page  == {"login", "totp", "signup", "setup", "wait", "scan", "verify", "codes",
          "home", "loading"}

Message ==
  [kind : Kind, client : Client \cup {None}, waits : BOOLEAN, step : Step, id : 0..MaxIds,
   seen : BOOLEAN, key : 0..MaxKeys, code : 0..MaxBatches, said : {"ok", "no", "totp"}]

ASSUME NoneAssumption == None \notin User /\ None \notin Secret /\ None \notin Message

Sent(k, c, step) ==
  [kind |-> k, client |-> c, waits |-> c # None, step |-> step, id |-> 0,
   seen |-> FALSE, key |-> 0, code |-> 0, said |-> "no"]

Busy(c) == \E r \in Request : req[r] # None /\ req[r].client = c /\ req[r].waits
Under(ks) == {r \in Request : req[r] # None /\ req[r].kind \in ks}
Exists(id) == account # None /\ account.id = id
Home(enabled) == IF enabled THEN "home" ELSE "setup"

-----------------------------------------------------------------------------
(* What the pages send *)

(* A bound: once the second factor is in doubt, what is under way ends and
   the administrator resets it; the pages send nothing new until then. *)
Send(r, m) ==
  /\ req[r] = None /\ (doubt => m.kind = "reset")
  /\ req' = [req EXCEPT ![r] = m]

SubmitLogin(r, c) ==
  /\ ~Busy(c)
  /\ \/ page[c] = "login" /\ Send(r, Sent("login", c, "read"))
     \/ /\ page[c] = "totp"
        /\ \E k \in app : Send(r, [Sent("login", c, "read") EXCEPT !.key = k])
     \/ /\ page[c] = "totp" /\ kept # 0
        /\ account # None /\ account.role = "superuser"
        /\ Send(r, [Sent("login", c, "read") EXCEPT !.code = kept])
  /\ UNCHANGED <<rows, session, pages, held, made, past>>

SubmitSignup(r, c) ==
  /\ page[c] = "signup" /\ ~Busy(c)
  /\ Send(r, Sent("signup", c, "read"))
  /\ UNCHANGED <<rows, session, pages, held, made, past>>

OpenSetup(r, c) ==
  /\ page[c] = "setup"
  /\ Send(r, Sent("setup", c, "auth"))
  /\ page' = [page EXCEPT ![c] = "wait"]
  /\ shown' = [shown EXCEPT ![c] = 0]
  /\ UNCHANGED <<rows, session, held, made, past>>

Scan(c) ==
  /\ page[c] = "scan"
  /\ page' = [page EXCEPT ![c] = "verify"]
  /\ app' = app \cup ({shown[c]} \ {0})
  /\ UNCHANGED <<rows, session, req, shown, kept, made, past>>

SubmitVerify(r, c) ==
  /\ page[c] = "verify" /\ ~Busy(c)
  /\ \E k \in app : Send(r, [Sent("verify", c, "auth") EXCEPT !.key = k])
  /\ UNCHANGED <<rows, session, pages, held, made, past>>

Finish(r, c) ==
  /\ page[c] = "codes" /\ ~Busy(c)
  /\ Send(r, Sent("me", c, "auth"))
  /\ UNCHANGED <<rows, session, pages, held, made, past>>

LogOut(r, c) ==
  /\ page[c] = "home" /\ ~Busy(c)
  /\ Send(r, Sent("logout", c, "auth"))
  /\ UNCHANGED <<rows, session, pages, held, made, past>>

(* the link between the two pages, followed by a person told to sign up *)
Link(c) ==
  /\ ~Busy(c)
  /\ page[c] = IF account # None /\ account.status = "pending" THEN "login" ELSE "signup"
  /\ page' = [page EXCEPT ![c] = IF @ = "login" THEN "signup" ELSE "login"]
  /\ UNCHANGED <<rows, session, req, shown, held, made, past>>

(* The page is left during a request: nobody waits for the answer, and
   AuthProvider asks anew who is signed in. *)
Reload(r, c) ==
  /\ faults < MaxFaults /\ Busy(c) /\ page[c] # "loading" /\ req[r] = None
  /\ faults' = faults + 1
  /\ req' = [s \in Request |->
       IF s = r THEN Sent("me", c, "auth")
       ELSE IF req[s] # None /\ req[s].client = c THEN [req[s] EXCEPT !.waits = FALSE]
       ELSE req[s]]
  /\ page' = [page EXCEPT ![c] = "loading"]
  /\ shown' = [shown EXCEPT ![c] = 0]
  /\ UNCHANGED <<rows, session, held, made, doubt, passed, raced>>

-----------------------------------------------------------------------------
(* The steps of a request *)

At(r, k, step) == req[r] # None /\ req[r].kind = k /\ req[r].step = step
Go(r, step) == req' = [req EXCEPT ![r].step = step]
Say(r, what) == req' = [req EXCEPT ![r].step = "answer", ![r].said = what,
                                   ![r].key = 0, ![r].code = 0]
Learn(r, step) == req' = [req EXCEPT ![r].step = step, ![r].id = account.id,
                                     ![r].seen = account.enabled]

(* Two requests on the second factor at once, one of them a verification or
   a reset: what they leave is not judged. *)
Overlap(r) ==
  \/ req[r].kind \in {"verify", "reset"} /\ Under({"setup", "verify", "reset"}) # {r}
  \/ req[r].kind = "setup" /\ Under({"verify", "reset"}) # {}

LoginRead(r) ==
  /\ At(r, "login", "read")
  /\ IF account = None \/ account.status = "pending" THEN Say(r, "no")
     ELSE IF ~account.enabled THEN Learn(r, "session")
     ELSE IF req[r].key = 0 /\ req[r].code = 0 THEN Say(r, "totp")
     ELSE Learn(r, "match")
  /\ UNCHANGED <<rows, session, pages, held, made, past>>

(* verifyTotp *)
LoginTotp(r) ==
  /\ At(r, "login", "match") /\ req[r].key # 0
  /\ IF /\ Exists(req[r].id) /\ secret # None
        /\ secret.verified /\ secret.key = req[r].key
     THEN Go(r, "session") ELSE Say(r, "no")
  /\ UNCHANGED <<rows, session, pages, held, made, past>>

(* mutant: used codes are found as well *)
CodeFoundUsed(r) == Exists(req[r].id) /\ \E c \in codes : c.batch = req[r].code

CodeFound(r) == Exists(req[r].id) /\ [batch |-> req[r].code, used |-> FALSE] \in codes

(* useRecoveryCode: the select ... *)
LoginCode(r) ==
  /\ At(r, "login", "match") /\ req[r].key = 0
  /\ IF CodeFound(r) THEN Go(r, "mark") ELSE Say(r, "no")
  /\ raced' = raced \cup {req[s].code : s \in
                {s \in Under({"login"}) \ {r} : req[s].step = "mark" /\ req[s].code = req[r].code}}
  /\ UNCHANGED <<rows, session, pages, held, made, doubt, passed, faults>>

(* ... and the update, by the id of the row *)
LoginMark(r) ==
  /\ At(r, "login", "mark")
  /\ codes' = {IF c.batch = req[r].code THEN [c EXCEPT !.used = TRUE] ELSE c : c \in codes}
  /\ passed' = [passed EXCEPT ![req[r].code] = @ + 1]
  /\ Go(r, "session")
  /\ UNCHANGED <<account, secret, session, pages, held, made, doubt, raced, faults>>

SignupRead(r) ==
  /\ At(r, "signup", "read")
  /\ IF account = None \/ account.status # "pending" THEN Say(r, "no") ELSE Learn(r, "update")
  /\ UNCHANGED <<rows, session, pages, held, made, past>>

SignupUpdate(r) ==
  /\ At(r, "signup", "update")
  /\ IF Exists(req[r].id)
     THEN account' = [account EXCEPT !.status = "active"] /\ Go(r, "session")
     ELSE Say(r, "no") /\ UNCHANGED account
  /\ UNCHANGED <<secret, codes, session, pages, held, made, past>>

(* createSession: the row refers to the account *)
CreateSession(r) ==
  /\ At(r, "login", "session") \/ At(r, "signup", "session")
  /\ Say(r, IF Exists(req[r].id) THEN "ok" ELSE "no")
  /\ UNCHANGED <<rows, session, pages, held, made, past>>

(* the middleware: validateSession reads the session with its user *)
Known(c) == session[c] # 0 /\ Exists(session[c])

Auth(r, k, step) ==
  /\ At(r, k, "auth")
  /\ IF Known(req[r].client) THEN Learn(r, step) ELSE Say(r, "no")

Me(r) ==
  /\ At(r, "me", "auth")
  /\ IF Known(req[r].client)
     THEN req' = [req EXCEPT ![r].step = "answer", ![r].said = "ok", ![r].id = account.id,
                             ![r].seen = account.enabled]
     ELSE Say(r, "no")
  /\ UNCHANGED <<rows, session, pages, held, made, past>>

(* revokeSession: the row of the cookie that was just validated *)
Revoke(r) ==
  /\ At(r, "logout", "auth")
  /\ session' = [session EXCEPT ![req[r].client] = 0]
  /\ Say(r, IF Known(req[r].client) THEN "ok" ELSE "no")
  /\ UNCHANGED <<rows, pages, held, made, past>>

(* mutant: a secret is set up again although the second factor is enabled *)
SetupAuthAgain(r) ==
  /\ Auth(r, "setup", "store")
  /\ doubt' = (doubt \/ Overlap(r))
  /\ UNCHANGED <<rows, session, pages, held, made, passed, raced, faults>>

SetupAuth(r) ==
  /\ At(r, "setup", "auth")
  /\ IF Known(req[r].client) /\ ~account.enabled THEN Learn(r, "store") ELSE Say(r, "no")
  /\ doubt' = (doubt \/ Overlap(r))
  /\ UNCHANGED <<rows, session, pages, held, made, passed, raced, faults>>

(* setupTotp: a new secret replaces the row *)
SetupStore(r) ==
  /\ At(r, "setup", "store")
  /\ IF Exists(req[r].id)
     THEN /\ made.keys < MaxKeys
          /\ made' = [made EXCEPT !.keys = @ + 1]
          /\ secret' = [key |-> made.keys + 1, verified |-> FALSE]
          /\ req' = [req EXCEPT ![r].step = "answer", ![r].said = "ok", ![r].key = made.keys + 1]
     ELSE Say(r, "no") /\ UNCHANGED <<made, secret>>
  /\ UNCHANGED <<account, codes, session, pages, held, past>>

VerifyAuth(r) ==
  /\ Auth(r, "verify", "match")
  /\ doubt' = (doubt \/ Overlap(r))
  /\ UNCHANGED <<rows, session, pages, held, made, passed, raced, faults>>

(* verifyAndEnableTotp: the row is read and compared ... *)
VerifyMatch(r) ==
  /\ At(r, "verify", "match")
  /\ IF Exists(req[r].id) /\ secret # None /\ secret.key = req[r].key
     THEN Go(r, "verify") ELSE Say(r, "no")
  /\ UNCHANGED <<rows, session, pages, held, made, past>>

(* ... marked verified, whichever secret it holds by now ... *)
VerifyMark(r) ==
  /\ At(r, "verify", "verify")
  /\ secret' = IF Exists(req[r].id) /\ secret # None
               THEN [secret EXCEPT !.verified = TRUE] ELSE secret
  /\ Go(r, "enable")
  /\ UNCHANGED <<account, codes, session, pages, held, made, past>>

(* ... and the second factor is enabled. *)
VerifyEnable(r) ==
  /\ At(r, "verify", "enable")
  /\ account' = IF Exists(req[r].id) THEN [account EXCEPT !.enabled = TRUE] ELSE account
  /\ Go(r, "drop")
  /\ UNCHANGED <<secret, codes, session, pages, held, made, past>>

(* mutant: a verification leaves the codes of an earlier one *)
DropCodesNone(r) ==
  /\ At(r, "verify", "drop")
  /\ kept' = IF Exists(req[r].id) THEN 0 ELSE kept
  /\ Go(r, "codes")
  /\ UNCHANGED <<account, secret, codes, session, pages, app, made, past>>

(* generateAndStoreRecoveryCodes *)
DropCodes(r) ==
  /\ At(r, "verify", "drop")
  /\ codes' = IF Exists(req[r].id) THEN {} ELSE codes
  /\ kept' = IF Exists(req[r].id) THEN 0 ELSE kept
  /\ Go(r, "codes")
  /\ UNCHANGED <<account, secret, session, pages, app, made, past>>

StoreCodes(r) ==
  /\ At(r, "verify", "codes")
  /\ IF Exists(req[r].id)
     THEN /\ made.batches < MaxBatches
          /\ made' = [made EXCEPT !.batches = @ + 1]
          /\ codes' = codes \cup {[batch |-> made.batches + 1, used |-> FALSE]}
          /\ req' = [req EXCEPT ![r].step = "answer", ![r].said = "ok",
                                ![r].code = made.batches + 1]
     ELSE Say(r, "no") /\ UNCHANGED <<made, codes>>
  /\ UNCHANGED <<account, secret, session, pages, held, past>>

-----------------------------------------------------------------------------
(* The administrator *)

CreateUser ==
  /\ account = None /\ made.ids < MaxIds
  /\ made' = [made EXCEPT !.ids = @ + 1]
  /\ \E role \in Role :
       account' = [id |-> made.ids + 1, status |-> "pending", enabled |-> FALSE, role |-> role]
  /\ UNCHANGED <<secret, codes, session, req, pages, held, past>>

(* the rows that refer to the account go with it *)
DeleteUser ==
  /\ account # None /\ account.role # "superuser"
  /\ account' = None /\ secret' = None /\ codes' = {}
  /\ session' = [c \in Client |-> 0]
  /\ app' = {} /\ kept' = 0
  /\ doubt' = FALSE /\ raced' = {} /\ passed' = [b \in 1..MaxBatches |-> 0]
  /\ UNCHANGED <<req, pages, made, faults>>

ResetRead(r) ==
  /\ account # None /\ account.status = "active"
  /\ Send(r, [Sent("reset", None, "secret") EXCEPT !.id = account.id])
  /\ doubt' = (doubt \/ Under({"setup", "verify", "reset"}) # {})
  /\ UNCHANGED <<rows, session, pages, held, made, passed, raced, faults>>

ResetSecret(r) ==
  /\ At(r, "reset", "secret")
  /\ secret' = IF Exists(req[r].id) THEN None ELSE secret
  /\ Go(r, "codes")
  /\ UNCHANGED <<account, codes, session, pages, held, made, past>>

ResetCodes(r) ==
  /\ At(r, "reset", "codes")
  /\ IF Exists(req[r].id) THEN codes' = {} /\ kept' = 0 ELSE UNCHANGED <<codes, kept>>
  /\ Go(r, "flag")
  /\ UNCHANGED <<account, secret, session, pages, app, made, past>>

(* a reset that ran alone leaves nothing of what went before *)
ResetFlag(r) ==
  /\ At(r, "reset", "flag")
  /\ account' = IF Exists(req[r].id) THEN [account EXCEPT !.enabled = FALSE] ELSE account
  /\ doubt' = (\/ (doubt /\ ~(Exists(req[r].id) /\ secret = None /\ codes = {} /\ kept = 0))
               \/ Under({"setup", "verify", "reset"}) # {r})
  /\ req' = [req EXCEPT ![r] = None]
  /\ UNCHANGED <<secret, codes, session, pages, held, made, passed, raced, faults>>

-----------------------------------------------------------------------------
(* Answers, and requests that fail *)

Show(c, p) == page' = [page EXCEPT ![c] = p]

(* signup.tsx asks for a secret and renders once more, authenticated: it
   navigates away, to a page that asks for a secret of its own. *)
SignupAnswer(r, c) ==
  IF req[r].said = "ok"
  THEN /\ Show(c, "setup")
       /\ session' = [session EXCEPT ![c] = IF Exists(req[r].id) THEN req[r].id ELSE 0]
       /\ req' = [req EXCEPT ![r] = [Sent("setup", c, "auth") EXCEPT !.waits = FALSE]]
  ELSE req' = [req EXCEPT ![r] = None] /\ UNCHANGED <<page, session>>

LoginAnswer(r, c) ==
  /\ IF req[r].said = "ok"
     THEN /\ Show(c, Home(req[r].seen))
          /\ session' = [session EXCEPT ![c] = IF Exists(req[r].id) THEN req[r].id ELSE 0]
     ELSE /\ page' = [page EXCEPT ![c] = IF req[r].said = "totp" THEN "totp" ELSE @]
          /\ UNCHANGED session
  /\ req' = [req EXCEPT ![r] = None]

Answer(r, c) ==
  /\ req[r] # None /\ req[r].step = "answer" /\ req[r].client = c /\ req[r].waits
  /\ \/ /\ req[r].kind = "signup" /\ SignupAnswer(r, c)
        /\ UNCHANGED <<shown, kept>>
     \/ /\ req[r].kind = "login" /\ LoginAnswer(r, c)
        /\ UNCHANGED <<shown, kept>>
     \/ /\ req[r].kind = "setup"
        /\ page' = [page EXCEPT ![c] = "scan"]
        /\ shown' = [shown EXCEPT ![c] = IF req[r].said = "ok" THEN req[r].key ELSE 0]
        /\ req' = [req EXCEPT ![r] = None]
        /\ UNCHANGED <<session, kept>>
     \/ /\ req[r].kind = "verify"
        /\ IF req[r].said = "ok"
           THEN /\ page' = [page EXCEPT ![c] = "codes"]
                /\ kept' = IF Exists(req[r].id) THEN req[r].code ELSE 0
           ELSE UNCHANGED <<page, kept>>
        /\ req' = [req EXCEPT ![r] = None]
        /\ shown' = [shown EXCEPT ![c] = IF page'[c] = "codes" THEN 0 ELSE @]
        /\ UNCHANGED session
     \/ /\ req[r].kind = "me"
        /\ IF req[r].said = "ok" THEN Show(c, Home(req[r].seen))
           ELSE IF page[c] = "loading" THEN Show(c, "login")
           ELSE UNCHANGED page
        /\ req' = [req EXCEPT ![r] = None]
        /\ UNCHANGED <<shown, session, kept>>
     \/ /\ req[r].kind = "logout"
        /\ Show(c, "login")
        /\ session' = [session EXCEPT ![c] = 0]
        /\ req' = [req EXCEPT ![r] = None]
        /\ UNCHANGED <<shown, kept>>
  /\ UNCHANGED <<rows, app, made, past>>

(* nobody waits: codes that were made are never seen *)
Unheard(r) ==
  /\ req[r] # None /\ req[r].step = "answer" /\ ~req[r].waits
  /\ req' = [req EXCEPT ![r] = None]
  /\ UNCHANGED <<rows, session, pages, held, made, past>>

(* A statement fails, or the answer is lost: what was written stays.  (A
   request that fails before it wrote anything is only sent again.) *)
Fail(r) ==
  /\ req[r] # None /\ faults < MaxFaults
  /\ \/ req[r].step \in {"session", "enable", "drop", "codes", "flag"}
     \/ req[r].step = "answer" /\ req[r].said = "ok"
     \/ req[r].kind = "setup" /\ req[r].step = "store"
  /\ faults' = faults + 1
  /\ doubt' = (doubt \/ req[r].kind = "reset")
  /\ IF req[r].waits
     THEN req' = [req EXCEPT ![r] = [@ EXCEPT !.step = "answer", !.said = "no"]]
     ELSE req' = [req EXCEPT ![r] = None]
  /\ UNCHANGED <<rows, session, pages, held, made, passed, raced>>

-----------------------------------------------------------------------------
Init ==
  /\ account = None /\ secret = None /\ codes = {}
  /\ session = [c \in Client |-> 0]
  /\ req = [r \in Request |-> None]
  /\ page = [c \in Client |-> "login"]
  /\ shown = [c \in Client |-> 0]
  /\ app = {} /\ kept = 0
  /\ made = [ids |-> 0, keys |-> 0, batches |-> 0]
  /\ doubt = FALSE /\ passed = [b \in 1..MaxBatches |-> 0] /\ raced = {}
  /\ faults = 0

PageNext ==
  \/ \E c \in Client : Scan(c) \/ Link(c)
  \/ \E r \in Request, c \in Client :
       \/ SubmitLogin(r, c) \/ SubmitSignup(r, c) \/ OpenSetup(r, c) \/ SubmitVerify(r, c)
       \/ Finish(r, c) \/ LogOut(r, c) \/ Reload(r, c) \/ Answer(r, c)

ServerNext ==
  \E r \in Request :
    \/ LoginRead(r) \/ LoginTotp(r) \/ LoginCode(r) \/ LoginMark(r)
    \/ SignupRead(r) \/ SignupUpdate(r) \/ CreateSession(r)
    \/ Me(r) \/ Revoke(r) \/ SetupAuth(r) \/ SetupStore(r)
    \/ VerifyAuth(r) \/ VerifyMatch(r) \/ VerifyMark(r) \/ VerifyEnable(r)
    \/ DropCodes(r) \/ StoreCodes(r)
    \/ ResetRead(r) \/ ResetSecret(r) \/ ResetCodes(r) \/ ResetFlag(r)
    \/ Unheard(r) \/ Fail(r)

Next == PageNext \/ ServerNext \/ CreateUser \/ DeleteUser

Spec == Init /\ [][Next]_vars

-----------------------------------------------------------------------------
(* The types of the state; secrets, codes and sessions belong to an account. *)
TypeOK ==
  /\ account = None \/ account \in User
  /\ secret = None \/ (account # None /\ secret \in Secret)
  /\ codes \subseteq [batch : 1..MaxBatches, used : BOOLEAN]
  /\ codes # {} => account # None
  /\ session \in [Client -> 0..MaxIds]
  /\ \A c \in Client : session[c] # 0 => Exists(session[c])
  /\ req \in [Request -> {None} \cup Message]
  /\ page \in [Client -> Page]
  /\ shown \in [Client -> 0..MaxKeys]
  /\ app \subseteq 1..MaxKeys /\ kept \in 0..MaxBatches
  /\ made \in [ids : 0..MaxIds, keys : 0..MaxKeys, batches : 0..MaxBatches]
  /\ doubt \in BOOLEAN /\ passed \in [1..MaxBatches -> Nat]
  /\ raced \subseteq 0..MaxBatches
  /\ faults \in 0..MaxFaults

(* While a login asks for the second factor, the secret it is compared with
   is one the person scanned and confirmed: nobody is locked out by setting
   up, reloading, failing half-way, deleting and creating anew (auth.ts
   161-171, 208-266).  A verification that overlaps a setup or a reset, and
   a reset cut short, can leave the account without a usable secret until
   the next reset. *)
SecondFactorUsable ==
  account # None /\ account.enabled /\ ~doubt /\ Under({"reset"}) = {} =>
    secret # None /\ secret.verified /\ secret.key \in app

(* The recovery codes the person was shown are the ones stored, each unused
   until a login used it (generateAndStoreRecoveryCodes, useRecoveryCode). *)
CodesAsShown ==
  kept # 0 /\ ~doubt => codes = {[batch |-> kept, used |-> passed[kept] > 0]}

(* A recovery code lets one login through, "Each code can only be used once"
   (seed.ts:85), unless two logins present it at the same time: the row is
   read as unused and marked in two statements (auth.ts:312-330). *)
CodesUsedOnce == \A b \in 1..MaxBatches : passed[b] > 1 => b \in raced

(* The secret in the QR code is the one stored, once nothing is under way:
   "Scan the QR code with your authenticator app" (setup-mfa.tsx:94). *)
ShownIsStored ==
  \A c \in Client :
    /\ page[c] \in {"scan", "verify"} /\ shown[c] # 0
    /\ Under(Kind) = {} /\ Known(c) /\ ~account.enabled
    => secret # None /\ secret.key = shown[c]
=============================================================================
