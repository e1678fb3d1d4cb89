---------------------------- MODULE AdminProjects ----------------------------
(***************************************************************************)
(* The projects page of admin-ui (pages/projects.tsx) and its section of   *)
(* vector indexes (components/project-vector-search.tsx): the list of      *)
(* projects, the view of one project with its lists, and their dialogs.    *)
(*                                                                         *)
(* Every list is read when its part of the page appears and again after    *)
(* each change the person made; the handlers of the six lists differ in    *)
(* what they close, keep and read again.  `rows' is what the server has.   *)
(* The person works with the lists in `focus'; the other lists are only    *)
(* read by the page, and that is left out.                                 *)
(***************************************************************************)
EXTENDS AdminApi, FiniteSets

CONSTANTS
  Item,    \* the rows of a list: projects, keys, collections, databases, indexes
  Home,    \* the project looked at
  Mongo,   \* the database of type mongodb
  NoItem,
  MaxIndexes,  \* vector indexes a project may have
  Parts    \* a bound: the sets of lists the person works with

Lists  == {"projects", "keys", "collections", "databases", "indexes", "s3"}
Detail == Lists \ {"projects"}

(* absent; there; there with its search key, or its sync paused; revoked *)
Status == {"none", "on", "keyed", "paused", "gone"}

ASSUME ProjectsAssumption ==
  /\ {Home, Mongo} \subseteq Item /\ NoItem \notin Item /\ Parts \subseteq SUBSET Lists
  /\ MaxIndexes \in Nat

VARIABLES
  focus,
  rows,      \* at the server: the status of each row of each list
  view,      \* "list", or "detail" of Home
  picked,    \* the row of the project as it was when picked
  shown,     \* the rows shown
  loading,   \* lists shown as a skeleton
  open,      \* lists whose dialog for a new row is open
  target,    \* the row each confirmation dialog asks about
  newKey,    \* the value of a new API key, by its row
  overview,  \* the section of vector indexes has read them
  \* history
  seen,      \* keys whose value was on the screen
  closed,    \* keys whose dialog was closed
  excused,   \* keys whose value could not be shown
  behind     \* lists that were not told of a change

page    == <<view, picked, shown, loading, open, target, newKey, overview>>
history == <<seen, closed, excused, behind>>
pvars   == <<focus, rows, page, history>>

Empty  == [x \in Item |-> "none"]
There(s) == s \in {"on", "keyed", "paused"}
Cut(f) == [x \in Item |-> IF There(f[x]) THEN f[x] ELSE "none"]

ReadList(l) == Call("read", <<l>>)
ReadAll(ls) == SetToSeq({ReadList(l) : l \in ls \cap focus})
Busy(l)     == \E i \in DOMAIN wire : wire[i].at[1] = l

(* the section of vector indexes is there when a MongoDB database is listed *)
Section(dbs, skeletons) == "databases" \notin skeletons /\ dbs[Mongo] = "on"
OnPage(l) ==
  IF l = "projects" THEN view = "list"
  ELSE view = "detail" /\ (l = "indexes" => Section(shown["databases"], loading))

ProjectsStart ==
  /\ focus \in Parts
  /\ rows = [l \in Lists |-> [x \in Item |->
       IF (l = "projects" /\ x = Home) \/ (l = "s3" /\ x = Home) THEN "on" ELSE "none"]]
  /\ view = "list" /\ picked = "none"
  /\ shown = [l \in Lists |-> IF l = "projects" /\ l \notin focus THEN rows[l] ELSE Empty]
  /\ loading = {"projects"} \cap focus
  /\ open = {} /\ target = [l \in Lists |-> NoItem] /\ newKey = NoItem /\ overview = FALSE
  /\ seen = {} /\ closed = {} /\ excused = {} /\ behind = {}

ProjectsInit == ProjectsStart /\ wire = ReadAll({"projects"}) /\ faults = 0

-----------------------------------------------------------------------------
(* The server *)

ServeRead(i) ==
  /\ Asked(i) /\ wire[i].op = "read"
  /\ LET l == wire[i].at[1] IN
     Reply(i, IF l \in Detail \ {"s3"} /\ rows["projects"][Home] = "none" THEN Error
              ELSE Answer(Cut(rows[l])))
  /\ UNCHANGED <<focus, rows, page, history, faults>>

Missed(i) == behind' = IF wire[i].heard THEN behind ELSE behind \cup {wire[i].at[1]}

Refuse(i) == Reply(i, Error) /\ UNCHANGED <<rows, behind, excused>>

Limit(l) == IF l = "indexes" THEN MaxIndexes ELSE Cardinality(Item)
Full(l, list) == Cardinality({x \in Item : There(list[x])}) >= Limit(l)

(* A new row.  The first collection gives the project its search key; a
   list of projects on the screen is not told, nor is the section of a
   database that was dropped and is made again. *)
ServeAdd(i) ==
  /\ Asked(i) /\ wire[i].op = "add"
  /\ LET l == wire[i].at[1]
         free == {x \in Item : rows[l][x] = "none" /\ (l = "databases" => x = wire[i].at[2])}
     IN IF \/ free = {} \/ Full(l, rows[l])
           \/ l # "projects" /\ rows["projects"][Home] = "none"
           \/ l = "indexes" /\ rows["databases"][Mongo] = "none"
        THEN Refuse(i)
        ELSE \E x \in free :
          /\ rows' = [k \in Lists |->
               CASE k = l -> [rows[l] EXCEPT ![x] = "on"]
                 [] k = "projects" /\ l = "collections" -> [rows[k] EXCEPT ![Home] = "keyed"]
                 [] OTHER -> rows[k]]
          /\ Reply(i, Answer(x))
          /\ behind' = behind \cup (IF wire[i].heard THEN {} ELSE {l})
                              \cup (IF l = "databases" /\ OnPage("indexes") THEN {"indexes"} ELSE {})
                              \cup (IF l = "collections" /\ OnPage("projects") THEN {"projects"} ELSE {})
          /\ excused' = IF l = "keys" /\ ~wire[i].heard THEN excused \cup {x} ELSE excused
  /\ UNCHANGED <<focus, page, seen, closed, faults>>

(* a row goes, and with it what belongs to it, which a view of the project
   opened meanwhile is not told; a revoked key never returns *)
ServeDrop(i) ==
  /\ Asked(i) /\ wire[i].op = "drop"
  /\ LET l == wire[i].at[1]  x == wire[i].at[2]
         emptied == CASE l = "projects" /\ x = Home -> Detail \ {"s3"}
                      [] l = "databases" /\ x = Mongo -> {"indexes"}
                      [] OTHER -> {}
     IN IF ~There(rows[l][x]) THEN Refuse(i)
        ELSE /\ rows' = [k \in Lists |-> IF k \in emptied THEN Empty
                           ELSE IF k = l THEN [rows[l] EXCEPT ![x] = IF l = "keys" THEN "gone" ELSE "none"]
                           ELSE rows[k]]
             /\ Reply(i, Answer(x)) /\ UNCHANGED excused
             /\ behind' = behind \cup (IF wire[i].heard THEN {} ELSE {l})
                                 \cup (IF l = "projects" THEN {k \in emptied : OnPage(k)} ELSE {})
  /\ UNCHANGED <<focus, page, seen, closed, faults>>

(* PATCH of a collection, or its resync, which changes nothing shown *)
ServeSet(i) ==
  /\ Asked(i) /\ wire[i].op = "set"
  /\ LET x == wire[i].at[2]  status == wire[i].at[3] IN
     IF ~There(rows["collections"][x]) THEN Refuse(i)
     ELSE /\ rows' = IF status = "none" THEN rows ELSE [rows EXCEPT !["collections"][x] = status]
          /\ Reply(i, Answer(x)) /\ Missed(i) /\ UNCHANGED excused
  /\ UNCHANGED <<focus, page, seen, closed, faults>>

(* a call fails, before the server has it or after: then nobody reads again *)
CallFails(i) ==
  /\ Fail(i)
  /\ behind' = IF wire[i].answer # NotYet THEN behind \cup {wire[i].at[1]} ELSE behind
  /\ excused' = IF Came(i, "add") /\ wire[i].at[1] = "keys" THEN excused \cup {Value(i)} ELSE excused
  /\ UNCHANGED <<focus, rows, page, seen, closed>>

-----------------------------------------------------------------------------
(* The lists *)

(* refresh: an older answer that comes last is shown all the same *)
Listed(i) ==
  /\ Came(i, "read") /\ wire[i].at[1] # "databases"
  /\ LET l == wire[i].at[1] IN
     /\ shown' = [shown EXCEPT ![l] = Value(i)]
     /\ loading' = loading \ {l}
     /\ behind' = IF wire[i].late THEN behind \cup {l} ELSE behind
  /\ overview' = (overview \/ wire[i].at[1] = "indexes")
  /\ wire' = After(i, <<>>)
  /\ UNCHANGED <<focus, rows, view, picked, open, target, newKey, seen, closed, excused, faults>>

(* The databases decide whether the section of vector indexes is there; it
   starts anew each time. *)
DatabasesListed(i) ==
  /\ Came(i, "read") /\ wire[i].at[1] = "databases"
  /\ LET was == Section(shown["databases"], loading)
         is  == Section(Value(i), {})
         idx == {"indexes"} \cap focus
     IN
     /\ shown' = [shown EXCEPT !["databases"] = Value(i),
                                !["indexes"] = IF was /\ is THEN @ ELSE Empty]
     /\ loading' = (loading \ {"databases"}) \cup (IF is /\ ~was THEN idx ELSE {})
     /\ wire' = IF was /\ ~is THEN Leave(After(i, <<>>), {"indexes"})
                ELSE After(i, IF was THEN <<>> ELSE IF is THEN ReadAll(idx) ELSE <<>>)
     /\ IF was /\ ~is
        THEN open' = open \ {"indexes"} /\ target' = [target EXCEPT !["indexes"] = NoItem]
        ELSE UNCHANGED <<open, target>>
     /\ overview' = (overview /\ is)
     /\ behind' = (behind \ (IF is /\ ~was /\ ~Busy("indexes") THEN idx ELSE {}))
                    \cup (IF wire[i].late THEN {"databases"} ELSE {})
  /\ UNCHANGED <<focus, rows, view, picked, newKey, seen, closed, excused, faults>>

(* what was shown stays, but for the S3 credentials *)
ListFails(i) ==
  /\ Failed(i, "read")
  /\ LET l == wire[i].at[1] IN
     /\ shown' = IF l = "s3" THEN [shown EXCEPT ![l] = Empty] ELSE shown
     /\ loading' = loading \ {l}
     /\ behind' = behind \cup {l}
  /\ wire' = After(i, <<>>)
  /\ UNCHANGED <<focus, rows, view, picked, open, target, newKey, overview, seen, closed, excused, faults>>

NoDialog == open = {} /\ \A l \in Lists : target[l] = NoItem
(* a bound: what may be stale is left alone *)
Click(l) == Quiet /\ NoDialog /\ l \in focus \ behind /\ OnPage(l)

RefreshList(l) ==
  /\ Click(l) /\ l # "s3" /\ (l = "projects" => l \notin loading)
  /\ Send(<<ReadList(l)>>)
  /\ UNCHANGED <<pvars, faults>>

RefreshS3Credentials ==
  /\ Click("s3") /\ Send(<<ReadList("s3")>>)
  /\ loading' = loading \cup {"s3"}
  /\ UNCHANGED <<focus, rows, view, picked, shown, open, target, newKey, overview, history, faults>>

OpenProject ==
  /\ Quiet /\ NoDialog /\ view = "list" /\ "projects" \notin loading
  /\ There(shown["projects"][Home])
  /\ view' = "detail" /\ picked' = shown["projects"][Home]
  /\ loading' = loading \cup ((Detail \ {"indexes"}) \cap focus)
  /\ shown' = [l \in Lists |-> IF l = "projects" THEN shown[l] ELSE Empty]
  /\ Send(ReadAll(Detail \ {"indexes"}))
  /\ behind' = {l \in behind : l = "projects" \/ Busy(l)}
  /\ UNCHANGED <<focus, rows, open, target, newKey, overview, seen, closed, excused, faults>>

(* onBack: the view goes, its calls are not heard, its new keys not shown *)
BackToList ==
  /\ Quiet /\ NoDialog /\ view = "detail"
  /\ view' = "list" /\ picked' = "none"
  /\ shown' = [l \in Lists |-> IF l = "projects" THEN shown[l] ELSE Empty]
  /\ loading' = loading \ Detail
  /\ wire' = Leave(wire, Detail) \o ReadAll({"projects"})
  /\ newKey' = NoItem /\ overview' = FALSE
  /\ excused' = excused \cup ({newKey} \ {NoItem})
                  \cup {Value(i) : i \in {k \in DOMAIN wire : Came(k, "add") /\ wire[k].at[1] = "keys"}}
  /\ behind' = behind \cup {l \in Detail : \E i \in DOMAIN wire : wire[i].op # "read" /\ wire[i].at[1] = l}
  /\ UNCHANGED <<focus, rows, open, target, seen, closed, faults>>

-----------------------------------------------------------------------------
(* New rows *)

Submitting(l) == \E i \in DOMAIN wire : wire[i].op = "add" /\ wire[i].at[1] = l /\ wire[i].form

(* the section of indexes waits for its own read after a change *)
Working(op) == UnderWay(op, <<"indexes">>) \/ UnderWay("read", <<"indexes", op>>)

OpenForm(l) ==
  /\ Click(l) /\ l \in {"projects", "keys", "collections", "indexes"}
  /\ l \in {"projects", "indexes"} => l \notin loading
  /\ l = "indexes" => overview /\ ~Full(l, shown[l])
  /\ open' = open \cup {l}
  /\ seen' = IF l = "keys" THEN seen \cup ({newKey} \ {NoItem}) ELSE seen
  /\ UNCHANGED <<focus, rows, view, picked, shown, loading, target, newKey, overview, closed, excused,
                 behind, wire, faults>>

CloseForm(l) ==
  /\ l \in open
  /\ open' = open \ {l}
  /\ wire' = IF l = "indexes" THEN wire ELSE Orphan(wire, "add", l)
  /\ IF l = "keys"
     THEN newKey' = NoItem /\ closed' = closed \cup ({newKey} \ {NoItem})
     ELSE UNCHANGED <<newKey, closed>>
  /\ UNCHANGED <<focus, rows, view, picked, shown, loading, target, overview, seen, excused, behind,
                 faults>>

SubmitForm(l) ==
  /\ l \in open /\ Quiet
  /\ IF l = "indexes" THEN ~Working("add") ELSE ~Submitting(l)
  /\ l = "keys" => newKey = NoItem
  /\ Send(<<Call("add", <<l>>)>>)
  /\ UNCHANGED <<pvars, faults>>

(* onCreated of a project or a collection: the dialog is closed, even one
   opened since, and the list is read *)
RowCreated(i) ==
  /\ Came(i, "add") /\ wire[i].at[1] \in {"projects", "collections"}
  /\ LET l == wire[i].at[1] IN
     /\ open' = open \ {l}
     /\ wire' = After(i, <<>>) \o <<ReadList(l)>>
  /\ UNCHANGED <<focus, rows, view, picked, shown, loading, target, newKey, overview, history, faults>>

(* mutant: a key that comes to a closed dialog is dropped *)
KeyCreatedWhenOpen(i) ==
  /\ Came(i, "add") /\ wire[i].at[1] = "keys"
  /\ newKey' = IF "keys" \in open THEN Value(i) ELSE newKey
  /\ wire' = After(i, <<ReadList("keys")>>)
  /\ seen' = IF "keys" \in open THEN seen \cup {Value(i)} ELSE seen
  /\ UNCHANGED <<focus, rows, view, picked, shown, loading, open, target, overview, closed, excused,
                 behind, faults>>

(* onCreated of a key: its value is kept until the dialog is closed, and
   replaces one that waits for the dialog *)
KeyCreated(i) ==
  /\ Came(i, "add") /\ wire[i].at[1] = "keys"
  /\ newKey' = Value(i)
  /\ wire' = After(i, <<ReadList("keys")>>)
  /\ seen' = IF "keys" \in open THEN seen \cup {Value(i)} ELSE seen
  /\ excused' = IF "keys" \in open THEN excused ELSE excused \cup ({newKey} \ {NoItem})
  /\ UNCHANGED <<focus, rows, view, picked, shown, loading, open, target, overview, closed, behind,
                 faults>>

(* onCreated of a vector index: the list is read before the form is usable *)
IndexCreated(i) ==
  /\ Came(i, "add") /\ wire[i].at[1] = "indexes"
  /\ open' = open \ {"indexes"}
  /\ wire' = After(i, <<Call("read", <<"indexes", "add">>)>>)
  /\ UNCHANGED <<focus, rows, view, picked, shown, loading, target, newKey, overview, history, faults>>

(* handleProvision, of the card of one type *)
Provision(x) ==
  /\ Click("databases") /\ "databases" \notin loading /\ ~There(shown["databases"][x])
  /\ ~UnderWay("add", <<"databases", x>>)
  /\ Send(<<Call("add", <<"databases", x>>)>>)
  /\ UNCHANGED <<pvars, faults>>

(* mutant: the card does not ask for the list *)
ProvisionedOnly(i) ==
  /\ Came(i, "add") /\ wire[i].at[1] = "databases"
  /\ wire' = After(i, <<>>)
  /\ UNCHANGED <<pvars, faults>>

Provisioned(i) ==
  /\ Came(i, "add") /\ wire[i].at[1] = "databases"
  /\ wire' = After(i, <<ReadList("databases")>>)
  /\ UNCHANGED <<pvars, faults>>

-----------------------------------------------------------------------------
(* Rows that change or go *)

Pick(l, x) ==
  /\ Click(l) /\ l \notin loading /\ There(shown[l][x])
  /\ target' = [target EXCEPT ![l] = x]
  /\ UNCHANGED <<focus, rows, view, picked, shown, loading, open, newKey, overview, history, wire,
                 faults>>

PickProject(x)    == Pick("projects", x)
PickKey(x)        == Pick("keys", x)
PickCollection(x) == Pick("collections", x)
PickDatabase(x)   == Pick("databases", x)
PickIndex(x)      == Pick("indexes", x)

CancelPick(l) ==
  /\ target[l] # NoItem /\ (l = "indexes" => ~Working("drop"))
  /\ target' = [target EXCEPT ![l] = NoItem]
  /\ UNCHANGED <<focus, rows, view, picked, shown, loading, open, newKey, overview, history, wire,
                 faults>>

(* the action button sends the call and closes the dialog *)
Confirm(l) ==
  /\ target[l] # NoItem /\ Quiet
  /\ Send(<<Call("drop", <<l, target[l]>>)>>)
  /\ target' = [target EXCEPT ![l] = NoItem]
  /\ UNCHANGED <<focus, rows, view, picked, shown, loading, open, newKey, overview, history, faults>>

(* the call is done: the dialog is closed, even one opened since *)
Gone(i, l, read) ==
  /\ Came(i, "drop") /\ wire[i].at[1] = l
  /\ target' = [target EXCEPT ![l] = NoItem]
  /\ wire' = After(i, <<read>>)
  /\ UNCHANGED <<focus, rows, view, picked, shown, loading, open, newKey, overview, history, faults>>

ConfirmDeleteProject    == Confirm("projects")
ConfirmRevoke           == Confirm("keys")
ConfirmDeleteCollection == Confirm("collections")
ConfirmDeprovision      == Confirm("databases")
ConfirmDropIndex        == ~Working("drop") /\ Confirm("indexes")

ProjectDeleted(i)    == Gone(i, "projects", ReadList("projects"))
KeyRevoked(i)        == Gone(i, "keys", ReadList("keys"))
CollectionDeleted(i) == Gone(i, "collections", ReadList("collections"))
Deprovisioned(i)     == Gone(i, "databases", ReadList("databases"))
IndexDropped(i)      == Gone(i, "indexes", Call("read", <<"indexes", "drop">>))

(* handleToggleSync: the other one of what the row shows *)
ToggleSync(x) ==
  /\ Click("collections") /\ "collections" \notin loading /\ There(shown["collections"][x])
  /\ LET to == IF shown["collections"][x] = "on" THEN "paused" ELSE "on" IN
     Send(<<Call("set", <<"collections", x, to>>)>>)
  /\ UNCHANGED <<pvars, faults>>

Resync(x) ==
  /\ Click("collections") /\ "collections" \notin loading /\ There(shown["collections"][x])
  /\ Send(<<Call("set", <<"collections", x, "none">>)>>)
  /\ UNCHANGED <<pvars, faults>>

CollectionSet(i) ==
  /\ Came(i, "set")
  /\ wire' = After(i, <<ReadList("collections")>>)
  /\ UNCHANGED <<pvars, faults>>

(* a message is shown, nothing else *)
ChangeFails(i) ==
  /\ Failed(i, "add") \/ Failed(i, "drop") \/ Failed(i, "set")
  /\ wire' = After(i, <<>>)
  /\ UNCHANGED <<pvars, faults>>

-----------------------------------------------------------------------------
ProjectsServe(i) == ServeRead(i) \/ ServeAdd(i) \/ ServeDrop(i) \/ ServeSet(i)

ProjectsGoOn(i) ==
  \/ Listed(i) \/ DatabasesListed(i) \/ ListFails(i)
  \/ RowCreated(i) \/ KeyCreated(i) \/ IndexCreated(i) \/ Provisioned(i)
  \/ ProjectDeleted(i) \/ KeyRevoked(i) \/ CollectionDeleted(i) \/ Deprovisioned(i) \/ IndexDropped(i)
  \/ CollectionSet(i) \/ ChangeFails(i)

ProjectsClick ==
  \/ OpenProject \/ BackToList \/ RefreshS3Credentials
  \/ \E l \in Lists : RefreshList(l) \/ OpenForm(l) \/ CloseForm(l) \/ SubmitForm(l) \/ CancelPick(l)
  \/ \E x \in Item :
       \/ Provision(x) \/ ToggleSync(x) \/ Resync(x)
       \/ PickProject(x) \/ PickKey(x) \/ PickCollection(x) \/ PickDatabase(x) \/ PickIndex(x)
  \/ ConfirmDeleteProject \/ ConfirmRevoke \/ ConfirmDeleteCollection \/ ConfirmDeprovision
  \/ ConfirmDropIndex

ProjectsNext ==
  \/ ProjectsClick
  \/ \E i \in DOMAIN wire : ProjectsServe(i) \/ ProjectsGoOn(i) \/ CallFails(i)

ProjectsSpec ==
  /\ ProjectsInit /\ [][ProjectsNext]_<<pvars, wire, faults>>
  /\ WF_<<pvars, wire, faults>>(wire # <<>> /\ (ProjectsServe(1) \/ ProjectsGoOn(1)))

-----------------------------------------------------------------------------
ProjectsTypeOK ==
  /\ focus \in Parts /\ rows \in [Lists -> [Item -> Status]] /\ view \in {"list", "detail"}
  /\ picked \in {"none", "on", "keyed"} /\ shown \in [Lists -> [Item -> Status \ {"gone"}]]
  /\ {loading, open, behind} \subseteq SUBSET Lists /\ target \in [Lists -> Item \cup {NoItem}]
  /\ newKey \in Item \cup {NoItem} /\ overview \in BOOLEAN
  /\ {seen, closed, excused} \subseteq SUBSET Item

(* A change the person made is shown: once nothing of a list is under way,
   the list is the server's, unless a call of it failed, an older answer
   came last, or the view was left with a change under way.  (Every handler
   of a change reads the list again; the section of indexes goes with the
   database and is read anew.) *)
OwnChangesListed ==
  \A l \in focus : OnPage(l) /\ l \notin loading \cup behind /\ ~Busy(l)
                   /\ (l = "indexes" => ~Busy("databases") /\ "databases" \notin behind)
    => shown[l] = Cut(rows[l])

(* The value of a new API key can be read: it is on the screen, was there,
   or waits for the dialog; it is lost only with the view, the answer, or
   to a second key while the dialog is closed. *)
NewKeyShown ==
  \A x \in Item : rows["keys"][x] = "on" =>
    \/ x \in seen \cup excused \/ newKey = x
    \/ \E i \in DOMAIN wire : Came(i, "add") /\ wire[i].at[1] = "keys" /\ Value(i) = x

(* "Copy this key now. It will not be shown again." *)
ShownOnce == "keys" \in open => newKey \notin closed
=============================================================================
