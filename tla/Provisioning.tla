---------------------------- MODULE Provisioning ----------------------------
(***************************************************************************)
(* A project and what is provisioned for it: its row and storage folder    *)
(* (services/projects.ts), one database of each type with its credentials  *)
(* (routes/project-databases.ts), the key of its search indexes and its    *)
(* synced collections with their triggers (routes/projects.ts,             *)
(* services/collections.ts), and its vector indexes                        *)
(* (routes/project-vector-indexes.ts).  Each request runs statement by     *)
(* statement against four stores without a transaction between them.       *)
(* One slug is followed; its rows are numbered as they are created.        *)
(***************************************************************************)
EXTENDS Naturals, FiniteSets

CONSTANTS Handler, Type, Collection, Table, Vector, None,
          TableOf,      \* the source table of a collection
          MaxSynced,    \* MAX_SYNCED_COLLECTIONS
          MaxVectors,   \* maxIndexesPerProject
          MaxRequests,  \* a bound: requests sent
          MaxFaults     \* a bound: statements that fail, and restarts

ASSUME ProvisioningAssumption ==
    /\ Type \subseteq {"postgres", "mongodb", "redis"}
    /\ Collection \cap (Type \cup {"project", "key", "limit", "vectors"}) = {}
    /\ TableOf \in [Collection -> Table]
    /\ {MaxSynced, MaxVectors, MaxRequests, MaxFaults} \subseteq Nat

VARIABLES
  project,  \* the row of the project, or 0
  folder,   \* its storage folder has a row
  record,   \* project_databases: per type, the password stored, or 0
  user,     \* per type, the password the server knows, or 0
  data,     \* per type, whether the database is there
  key,      \* the search key in the row of the project, or 0
  keys,     \* the search keys Meilisearch knows
  rows,     \* project_collections: per name, None or whether it is synced
  trigger,  \* the tables with a trigger
  index,    \* the collections with a search index
  worker,   \* the collections the sync worker follows, each with its project
  vectors,  \* the vector indexes
  req,      \* the requests in flight
  sent,     \* how many there were
  faults,   \* how many faults there were
  doubt     \* what two requests or a failure left half-done

base   == <<project, folder>>
dbs    == <<record, user, data>>
search == <<key, keys>>
sync   == <<rows, trigger, index, worker>>
store  == <<base, dbs, search, sync, vectors>>
past   == <<sent, faults, doubt>>
vars   == <<store, req, past>>

(* What a request works on: two requests on the same thing are a race; those
   that count the synced collections race with each other. *)
Thing == {"project", "key", "limit", "vectors"} \cup Type \cup Collection
Kind  == {"create", "delete", "provision", "deprovision", "collect", "switch", "drop",
          "resync", "vector", "unvector"}
Step  == {"read", "folder", "row", "indexes", "key", "user", "data", "record", "mint", "note",
          "count", "trigger", "start", "stop", "index", "build"}

Request == [kind : Kind, on : Thing, value : BOOLEAN, step : Step, id : 0..MaxRequests,
            secret : 0..MaxRequests, was : BOOLEAN]

ASSUME NoneAssumption == None \notin BOOLEAN /\ None \notin Request

At(h, k, s) == req[h] # None /\ req[h].kind = k /\ req[h].step = s
Go(h, s) == req' = [req EXCEPT ![h].step = s]
End(h) == req' = [req EXCEPT ![h] = None]
Others(h) == {g \in Handler \ {h} : req[g] # None}

(* Creating and deleting the project races with everything that is under
   way; the other requests race with those on the same thing or its key. *)
Touches(r) ==
  IF r.kind \in {"create", "delete"} THEN Thing
  ELSE {r.on} \cup (IF r.kind = "collect" THEN {"key", "limit"} ELSE {})
                \cup (IF r.kind = "switch" THEN {"limit"} ELSE {})
                \cup (IF r.on \in Collection
                      THEN {c \in Collection : TableOf[c] = TableOf[r.on]} ELSE {})

Start(h, r) ==
  /\ req[h] = None /\ sent < MaxRequests
  /\ sent' = sent + 1
  /\ req' = [req EXCEPT ![h] = r]
  /\ doubt' = doubt \cup UNION {Touches(r) \cap Touches(req[g]) : g \in Others(h)}
  /\ UNCHANGED <<store, faults>>

Receive(h) ==
  \E k \in Kind, on \in Thing, v \in BOOLEAN :
    /\ k \in {"create", "delete"} => on = "project"
    /\ k \in {"provision", "deprovision"} => on \in Type
    /\ k \in {"collect", "switch", "drop", "resync"} => on \in Collection
    /\ k \in {"vector", "unvector"} => on = "vectors"
    /\ k # "switch" => v
    /\ Start(h, [kind |-> k, on |-> on, value |-> v, step |-> "read", id |-> 0, secret |-> 0,
                 was |-> FALSE])

Mine(h) == project # 0 /\ project = req[h].id
Synced == {c \in Collection : rows[c] = TRUE}

-----------------------------------------------------------------------------
(* services/projects.ts *)

CreateFolder(h) ==
  /\ At(h, "create", "read")
  /\ IF folder THEN End(h) ELSE Go(h, "row")
  /\ folder' = TRUE
  /\ UNCHANGED <<project, dbs, search, sync, vectors, past>>

CreateRow(h) ==
  /\ At(h, "create", "row")
  /\ project' = IF project = 0 THEN sent ELSE project
  /\ End(h)
  /\ UNCHANGED <<folder, dbs, search, sync, vectors, past>>

DeleteRead(h) ==
  /\ At(h, "delete", "read")
  /\ IF project = 0 THEN End(h)
     ELSE req' = [req EXCEPT ![h].step = IF key = 0 THEN "folder" ELSE "indexes",
                             ![h].id = project, ![h].secret = key]
  /\ UNCHANGED <<store, past>>

DeleteIndexes(h) ==
  /\ At(h, "delete", "indexes")
  /\ index' = {}
  /\ Go(h, "key")
  /\ UNCHANGED <<base, dbs, search, rows, trigger, worker, vectors, past>>

DeleteKey(h) ==
  /\ At(h, "delete", "key")
  /\ keys' = keys \ {req[h].secret}
  /\ Go(h, "folder")
  /\ UNCHANGED <<base, dbs, key, sync, vectors, past>>

DeleteFolder(h) ==
  /\ At(h, "delete", "folder")
  /\ folder' = (folder /\ ~Mine(h))
  /\ Go(h, "row")
  /\ UNCHANGED <<project, dbs, search, sync, vectors, past>>

(* the rows of databases and collections go with the project *)
DeleteRow(h) ==
  /\ At(h, "delete", "row")
  /\ IF Mine(h)
     THEN /\ project' = 0 /\ key' = 0
          /\ record' = [t \in Type |-> 0]
          /\ rows' = [c \in Collection |-> None]
     ELSE UNCHANGED <<project, record, key, rows>>
  /\ End(h)
  /\ UNCHANGED <<folder, user, data, keys, trigger, index, worker, vectors, past>>

-----------------------------------------------------------------------------
(* routes/project-databases.ts *)

(* mutant: a second database of the same type is not refused *)
ProvisionReadAnyway(h) ==
  /\ At(h, "provision", "read")
  /\ IF project = 0 THEN End(h)
     ELSE req' = [req EXCEPT ![h].step = "user", ![h].id = project, ![h].secret = sent]
  /\ UNCHANGED <<store, past>>

ProvisionRead(h) ==
  /\ At(h, "provision", "read")
  /\ IF project = 0 \/ record[req[h].on] # 0 THEN End(h)
     ELSE req' = [req EXCEPT ![h].step = "user", ![h].id = project, ![h].secret = sent]
  /\ UNCHANGED <<store, past>>

(* CREATE ROLE and createUser refuse a name that exists, ACL SETUSER resets
   the user to the new password. *)
CreateUser(h) ==
  LET t == req[h].on IN
  /\ At(h, "provision", "user")
  /\ IF user[t] # 0 /\ t # "redis"
     THEN End(h) /\ UNCHANGED user
     ELSE Go(h, "data") /\ user' = [user EXCEPT ![t] = req[h].secret]
  /\ UNCHANGED <<base, record, data, search, sync, vectors, past>>

(* CREATE DATABASE, the _meta document, ACL SAVE *)
CreateData(h) ==
  LET t == req[h].on IN
  /\ At(h, "provision", "data")
  /\ IF t = "postgres" /\ data[t] THEN End(h) ELSE Go(h, "record")
  /\ data' = [data EXCEPT ![t] = TRUE]
  /\ UNCHANGED <<base, record, user, search, sync, vectors, past>>

Record(h) ==
  LET t == req[h].on IN
  /\ At(h, "provision", "record")
  /\ record' = IF Mine(h) /\ record[t] = 0 THEN [record EXCEPT ![t] = req[h].secret] ELSE record
  /\ End(h)
  /\ UNCHANGED <<base, user, data, search, sync, vectors, past>>

(* MongoDB loses its user first, the others their data. *)
DeprovisionRead(h) ==
  LET t == req[h].on IN
  /\ At(h, "deprovision", "read")
  /\ IF record[t] = 0 THEN End(h)
     ELSE req' = [req EXCEPT ![h].step = IF t = "mongodb" THEN "user" ELSE "data",
                             ![h].id = project, ![h].secret = record[t]]
  /\ UNCHANGED <<store, past>>

DropData(h) ==
  LET t == req[h].on IN
  /\ At(h, "deprovision", "data")
  /\ data' = [data EXCEPT ![t] = FALSE]
  /\ vectors' = IF t = "mongodb" THEN {} ELSE vectors
  /\ Go(h, IF t = "mongodb" THEN "record" ELSE "user")
  /\ UNCHANGED <<base, record, user, search, sync, past>>

DropUser(h) ==
  LET t == req[h].on IN
  /\ At(h, "deprovision", "user")
  /\ user' = [user EXCEPT ![t] = 0]
  /\ Go(h, IF t = "mongodb" THEN "data" ELSE "record")
  /\ UNCHANGED <<base, record, data, search, sync, vectors, past>>

(* by the id of the record; alone, it leaves nothing to doubt *)
DropRecord(h) ==
  LET t == req[h].on IN
  /\ At(h, "deprovision", "record")
  /\ record' = IF record[t] = req[h].secret THEN [record EXCEPT ![t] = 0] ELSE record
  /\ doubt' = IF record'[t] = 0 /\ user[t] = 0 /\ ~data[t] /\ Others(h) = {}
               THEN doubt \ {t} ELSE doubt
  /\ End(h)
  /\ UNCHANGED <<base, user, data, search, sync, vectors, sent, faults>>

(* syncRedisProjectAclUsers, when admin-api starts *)
AclSync(u) ==
  [t \in Type |-> IF t = "redis" /\ record[t] # 0 THEN record[t] ELSE u[t]]

-----------------------------------------------------------------------------
(* routes/projects.ts: collections, each one taken from a table of Postgres *)

CollectRead(h) ==
  /\ At(h, "collect", "read")
  /\ IF project = 0 THEN End(h)
     ELSE req' = [req EXCEPT ![h].step = "key", ![h].id = project]
  /\ UNCHANGED <<store, past>>

(* ensureMeiliKey: the row is read, a key created, the row written *)
ReadKey(h) ==
  /\ At(h, "collect", "key")
  /\ IF ~Mine(h) THEN End(h) ELSE Go(h, IF key # 0 THEN "count" ELSE "mint")
  /\ UNCHANGED <<store, past>>

(* mutant: a key that could not be created is noted all the same *)
MintKeyUnchecked(h) ==
  /\ At(h, "collect", "mint")
  /\ keys' \in {keys, keys \cup {sent}}
  /\ req' = [req EXCEPT ![h].step = "note", ![h].secret = sent]
  /\ UNCHANGED <<base, dbs, key, sync, vectors, past>>

MintKey(h) ==
  /\ At(h, "collect", "mint")
  /\ keys' = keys \cup {sent}
  /\ req' = [req EXCEPT ![h].step = "note", ![h].secret = sent]
  /\ UNCHANGED <<base, dbs, key, sync, vectors, past>>

NoteKey(h) ==
  /\ At(h, "collect", "note")
  /\ key' = IF Mine(h) THEN req[h].secret ELSE key
  /\ Go(h, "count")
  /\ UNCHANGED <<base, dbs, keys, sync, vectors, past>>

(* createCollection: the synced ones are counted, then the row inserted *)
CountSynced(h) ==
  /\ At(h, "collect", "count")
  /\ IF ~Mine(h) \/ Cardinality(Synced) >= MaxSynced THEN End(h) ELSE Go(h, "row")
  /\ UNCHANGED <<store, past>>

InsertRow(h) ==
  LET c == req[h].on IN
  /\ At(h, "collect", "row")
  /\ IF Mine(h) /\ rows[c] = None
     THEN rows' = [rows EXCEPT ![c] = TRUE] /\ Go(h, "trigger")
     ELSE End(h) /\ UNCHANGED rows
  /\ UNCHANGED <<base, dbs, search, trigger, index, worker, vectors, past>>

InstallTrigger(h) ==
  /\ At(h, "collect", "trigger")
  /\ trigger' = trigger \cup {TableOf[req[h].on]}
  /\ Go(h, "start")
  /\ UNCHANGED <<base, dbs, search, rows, index, worker, vectors, past>>

(* the trigger cannot be installed: the row is taken back *)
TakeBack(h) ==
  LET c == req[h].on IN
  /\ At(h, "collect", "trigger") /\ faults < MaxFaults
  /\ faults' = faults + 1
  /\ rows' = IF Mine(h) THEN [rows EXCEPT ![c] = None] ELSE rows
  /\ End(h)
  /\ UNCHANGED <<base, dbs, search, trigger, index, worker, vectors, sent, doubt>>

(* SyncWorker.addCollection: the source is copied, and followed *)
Follow(h) ==
  LET c == req[h].on IN
  /\ req[h] # None /\ req[h].step = "start"
  /\ IF req[h].kind = "resync" /\ (~Mine(h) \/ rows[c] = None)
     THEN UNCHANGED <<worker, index>>
     ELSE /\ worker' = worker \cup {<<req[h].id, c>>}
          /\ index' = index \cup {c}
  /\ End(h)
  /\ UNCHANGED <<base, dbs, search, rows, trigger, vectors, past>>

SwitchRead(h) ==
  LET c == req[h].on IN
  /\ At(h, "switch", "read")
  /\ IF rows[c] = None THEN End(h)
     ELSE req' = [req EXCEPT ![h].step = IF req[h].value /\ ~rows[c] THEN "count" ELSE "row",
                             ![h].id = project, ![h].was = rows[c]]
  /\ UNCHANGED <<store, past>>

SwitchCount(h) ==
  /\ At(h, "switch", "count")
  /\ IF Cardinality(Synced) >= MaxSynced THEN End(h) ELSE Go(h, "row")
  /\ UNCHANGED <<store, past>>

SwitchRow(h) ==
  LET c == req[h].on IN
  /\ At(h, "switch", "row")
  /\ IF Mine(h) /\ rows[c] # None
     THEN /\ rows' = [rows EXCEPT ![c] = req[h].value]
          /\ IF req[h].value /\ ~req[h].was THEN Go(h, "start")
             ELSE IF ~req[h].value /\ req[h].was THEN Go(h, "stop") ELSE End(h)
     ELSE End(h) /\ UNCHANGED rows
  /\ UNCHANGED <<base, dbs, search, trigger, index, worker, vectors, past>>

(* dropping and resyncing a collection, by the id of its row *)
RowRead(h) ==
  LET c == req[h].on IN
  /\ At(h, "drop", "read") \/ At(h, "resync", "read")
  /\ IF rows[c] = None THEN End(h)
     ELSE req' = [req EXCEPT ![h].step = "stop", ![h].id = project]
  /\ UNCHANGED <<store, past>>

(* mutant: a resync stops the collection and does not start it again *)
UnfollowOnly(h) ==
  LET c == req[h].on IN
  /\ req[h] # None /\ req[h].step = "stop"
  /\ worker' = worker \ {<<req[h].id, c>>}
  /\ IF req[h].kind = "drop" THEN Go(h, "trigger") ELSE End(h)
  /\ UNCHANGED <<base, dbs, search, rows, trigger, index, vectors, past>>

(* SyncWorker.removeCollection *)
Unfollow(h) ==
  LET c == req[h].on IN
  /\ req[h] # None /\ req[h].step = "stop"
  /\ worker' = worker \ {<<req[h].id, c>>}
  /\ CASE req[h].kind = "switch" -> End(h)
       [] req[h].kind = "resync" -> Go(h, "start")
       [] req[h].kind = "drop"   -> Go(h, "trigger")
  /\ UNCHANGED <<base, dbs, search, rows, trigger, index, vectors, past>>

(* the table may feed another collection: it does so no longer *)
DropTrigger(h) ==
  LET c == req[h].on IN
  /\ At(h, "drop", "trigger")
  /\ trigger' = trigger \ {TableOf[c]}
  /\ doubt' = doubt \cup {d \in Collection \ {c} : TableOf[d] = TableOf[c] /\ rows[d] # None}
  /\ Go(h, "index")
  /\ UNCHANGED <<base, dbs, search, rows, index, worker, vectors, sent, faults>>

DropIndex(h) ==
  LET c == req[h].on IN
  /\ At(h, "drop", "index")
  /\ index' = index \ {c}
  /\ Go(h, "row")
  /\ UNCHANGED <<base, dbs, search, rows, trigger, worker, vectors, past>>

DropRow(h) ==
  LET c == req[h].on IN
  /\ At(h, "drop", "row")
  /\ rows' = IF Mine(h) THEN [rows EXCEPT ![c] = None] ELSE rows
  /\ doubt' = IF rows'[c] = None /\ Others(h) = {} THEN doubt \ {c} ELSE doubt
  /\ End(h)
  /\ UNCHANGED <<base, dbs, search, trigger, index, worker, vectors, sent, faults>>

(* The worker goes on: a change of the source is written to the index, and
   an index that is not there is created by the first document. *)
Feed(c) ==
  /\ \E id \in 1..MaxRequests : <<id, c>> \in worker
  /\ TableOf[c] \in trigger /\ c \notin index
  /\ index' = index \cup {c}
  /\ UNCHANGED <<base, dbs, search, rows, trigger, worker, vectors, req, past>>

-----------------------------------------------------------------------------
(* routes/project-vector-indexes.ts: the indexes are listed and counted,
   then one is created. *)

VectorRead(h) ==
  /\ At(h, "vector", "read")
  /\ IF record["mongodb"] = 0 \/ Cardinality(vectors) >= MaxVectors THEN End(h)
     ELSE Go(h, "build")
  /\ UNCHANGED <<store, past>>

VectorBuild(h) ==
  /\ At(h, "vector", "build")
  /\ IF data["mongodb"] THEN \E v \in Vector \ vectors : vectors' = vectors \cup {v}
     ELSE UNCHANGED vectors
  /\ End(h)
  /\ UNCHANGED <<base, dbs, search, sync, past>>

VectorDrop(h) ==
  /\ At(h, "unvector", "read")
  /\ vectors' \in IF record["mongodb"] = 0 THEN {vectors} ELSE {vectors \ {v} : v \in Vector}
  /\ End(h)
  /\ UNCHANGED <<base, dbs, search, sync, past>>

-----------------------------------------------------------------------------
(* Failures *)

(* what a request leaves half-done, if it stops before its end *)
Half(r) == CASE r.kind = "delete" -> Thing [] r.kind = "create" -> {} [] OTHER -> {r.on}

(* The step after a failure that is swallowed: the deletion of a project
   goes on whatever Meilisearch answers, that of a collection whatever its
   database and Meilisearch answer, and MongoDB may have lost the user. *)
Swallowed(r) ==
  CASE r.kind = "delete" /\ r.step \in {"indexes", "key"} -> "folder"
    [] r.kind = "drop" /\ r.step = "trigger" -> "index"
    [] r.kind = "drop" /\ r.step = "index" -> "row"
    [] r.kind = "deprovision" /\ r.step = "user" /\ r.on = "mongodb" -> "data"
    [] OTHER -> "read"

(* A statement fails: the rest of the request is not run, or it goes on. *)
Fail(h) ==
  /\ req[h] # None /\ req[h].step # "read" /\ faults < MaxFaults
  /\ ~At(h, "collect", "trigger")
  /\ faults' = faults + 1
  /\ IF Swallowed(req[h]) # "read" THEN Go(h, Swallowed(req[h])) /\ UNCHANGED doubt
     ELSE End(h) /\ doubt' = doubt \cup Half(req[h])
  /\ UNCHANGED <<store, sent>>

(* admin-api restarts: SyncWorker.start follows what is enabled *)
Restart ==
  /\ faults < MaxFaults
  /\ faults' = faults + 1
  /\ req' = [h \in Handler |-> None]
  /\ doubt' = doubt \cup UNION {Half(req[h]) : h \in {g \in Handler : req[g] # None}}
  /\ worker' = {<<project, c>> : c \in Synced}
  /\ user' = AclSync(user)
  /\ UNCHANGED <<base, record, data, search, rows, trigger, index, vectors, sent>>

-----------------------------------------------------------------------------
Init ==
  /\ project = 0 /\ folder = FALSE
  /\ record = [t \in Type |-> 0] /\ user = [t \in Type |-> 0]
  /\ data = [t \in Type |-> FALSE]
  /\ key = 0 /\ keys = {}
  /\ rows = [c \in Collection |-> None]
  /\ trigger = {} /\ index = {} /\ worker = {} /\ vectors = {}
  /\ req = [h \in Handler |-> None]
  /\ sent = 0 /\ faults = 0 /\ doubt = {}

ProjectNext(h) ==
  \/ CreateFolder(h) \/ CreateRow(h)
  \/ DeleteRead(h) \/ DeleteIndexes(h) \/ DeleteKey(h) \/ DeleteFolder(h) \/ DeleteRow(h)

DatabaseNext(h) ==
  \/ ProvisionRead(h) \/ CreateUser(h) \/ CreateData(h) \/ Record(h)
  \/ DeprovisionRead(h) \/ DropData(h) \/ DropUser(h) \/ DropRecord(h)

CollectionNext(h) ==
  \/ CollectRead(h) \/ ReadKey(h) \/ MintKey(h) \/ NoteKey(h) \/ CountSynced(h)
  \/ InsertRow(h) \/ InstallTrigger(h) \/ TakeBack(h) \/ Follow(h)
  \/ SwitchRead(h) \/ SwitchCount(h) \/ SwitchRow(h)
  \/ RowRead(h) \/ Unfollow(h) \/ DropTrigger(h) \/ DropIndex(h) \/ DropRow(h)

Next ==
  \/ \E h \in Handler :
       \/ Receive(h) \/ ProjectNext(h) \/ DatabaseNext(h) \/ CollectionNext(h)
       \/ VectorRead(h) \/ VectorBuild(h) \/ VectorDrop(h) \/ Fail(h)
  \/ \E c \in Collection : Feed(c)
  \/ Restart

Spec == Init /\ [][Next]_vars

-----------------------------------------------------------------------------
Under(k, on) == \E h \in Handler : req[h] # None /\ req[h].kind = k /\ req[h].on = on

(* The types of the state; every row belongs to the project. *)
TypeOK ==
  /\ project \in 0..MaxRequests /\ folder \in BOOLEAN
  /\ record \in [Type -> 0..MaxRequests] /\ user \in [Type -> 0..MaxRequests]
  /\ data \in [Type -> BOOLEAN]
  /\ key \in 0..MaxRequests /\ keys \subseteq 1..MaxRequests
  /\ rows \in [Collection -> BOOLEAN \cup {None}]
  /\ trigger \subseteq Table /\ index \subseteq Collection
  /\ worker \subseteq (1..MaxRequests) \X Collection
  /\ vectors \subseteq Vector
  /\ project = 0 => key = 0 /\ Synced = {} /\ \A t \in Type : record[t] = 0
  /\ req \in [Handler -> {None} \cup Request]
  /\ sent \in 0..MaxRequests /\ faults \in 0..MaxFaults /\ doubt \subseteq Thing

(* The password in a record opens the database it names, through any order
   of provisioning, deprovisioning, deletion of the project and restarts
   (project-databases.ts:296-395, 422-462): what the page shows works. *)
RecordOpens ==
  \A t \in Type :
    record[t] # 0 /\ t \notin doubt /\ ~Under("deprovision", t)
      => user[t] = record[t] /\ data[t]

(* The key in the row of the project is one Meilisearch knows, so that
   tokens made from it are accepted (projects.ts:73-92, 195-211, 794-841). *)
KeyOpens ==
  key # 0 /\ {"project", "key"} \cap doubt = {} /\ ~Under("delete", "project") => key \in keys

(* A collection with a row has its trigger, and the worker follows it when
   it is enabled and only then: no change of its table goes unnoticed
   (projects.ts:291-396, 418-563). *)
Served ==
  \A c \in Collection :
    /\ rows[c] # None /\ c \notin doubt
    /\ \A h \in Handler : req[h] # None => c \notin Touches(req[h])
    => /\ TableOf[c] \in trigger
       /\ rows[c] => <<project, c>> \in worker

(* A project has no more synced collections and no more vector indexes than
   allowed unless two requests that counted them overlapped: the count and
   the insertion are two statements (collections.ts:37-92,
   project-vector-indexes.ts:231-281). *)
LimitsKept ==
  /\ Cardinality(Synced) > MaxSynced => "limit" \in doubt
  /\ Cardinality(vectors) > MaxVectors => "vectors" \in doubt
=============================================================================
