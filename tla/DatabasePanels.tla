--------------------------- MODULE DatabasePanels ---------------------------
(***************************************************************************)
(* The databases page of admin-ui (pages/databases) and its routes: a tab  *)
(* for MongoDB and one for PostgreSQL, each with a tree of databases and   *)
(* their collections or tables (`kids'), a panel about what is selected    *)
(* with a query of it, and the dialogs that create and drop.               *)
(*                                                                         *)
(* The two tabs are the same program over different routes: an action of   *)
(* the page is defined once and named for each tab below.  While the list  *)
(* of databases is read the whole tab is a skeleton: the panel and the     *)
(* dialogs are gone, the tree's state stays.                               *)
(***************************************************************************)
EXTENDS AdminApi, FiniteSets

CONSTANTS
  Engines,    \* the tabs looked at, of "mongodb" and "postgres"
  Db, Kid,
  Seed,       \* the collection a new MongoDB database is made with
  Protected,  \* the database that cannot be dropped
  Managed,    \* the kid of it that cannot be dropped
  Works       \* a bound: the person works with the "tree", the "panel" or the "indexes"

ASSUME PanelsAssumption ==
  /\ Engines \subseteq {"mongodb", "postgres"} /\ Works \subseteq {"tree", "panel", "indexes"}
  /\ Protected \in Db /\ {Seed, Managed} \subseteq Kid
  /\ Db \cap {"dbs", "db", "kid", "index", "overview", "detail", "find", "indexes"} = {}   \* a database is no route

VARIABLES
  engine, work,
  there, kids,       \* at the server
  tree,              \* the databases shown
  cached,            \* the kids read of each database: <<>> or <<a set>>
  spinning,          \* databases whose kids are being read
  expanded,
  skeleton,          \* the list of databases is being read
  selected,          \* <<>>, <<d>> or <<d, k>>
  panelBusy,         \* the panel is a skeleton
  result,            \* what the result shown in the panel is of
  asking, dropping,  \* the dialog that creates, the one that drops, and for what
  stale              \* history: "dbs", and databases whose kids are not known anew

server   == <<there, kids>>
treevars == <<tree, cached, spinning, expanded, skeleton>>
panel    == <<selected, panelBusy, result>>
boxes    == <<asking, dropping>>
bvars    == <<engine, work, server, treevars, panel, boxes, stale>>

ReadDbs     == Call("read", <<"dbs">>)
ReadKids(d) == Call("read", <<d>>)
ReadPanel(sel) == IF sel = <<>> \/ work = "tree" THEN <<>>
                  ELSE <<Call("read", <<IF Len(sel) = 1 THEN "overview" ELSE "detail", sel>>)>>
Inside == {"overview", "detail", "find", "indexes"}   \* what only the panel waits for

PanelsStart ==
  /\ engine \in Engines /\ work \in Works /\ (work = "indexes" => engine = "mongodb")
  /\ there = (IF work # "tree" THEN Db ELSE {Protected})
  /\ kids = [d \in Db |-> IF d \in there THEN {Managed} ELSE {}]
  /\ tree = {} /\ spinning = {} /\ skeleton = TRUE
  /\ cached = [d \in Db |-> IF work # "tree" THEN <<kids[d]>> ELSE <<>>]
  /\ expanded = IF work # "tree" THEN Db ELSE {}
  /\ selected = <<>> /\ panelBusy = FALSE /\ result = <<>>
  /\ asking = <<>> /\ dropping = <<>> /\ stale = {}

PanelsInit == PanelsStart /\ wire = <<ReadDbs>> /\ faults = 0

-----------------------------------------------------------------------------
(* The routes *)

ServeDbs(i) ==
  /\ Asked(i) /\ wire[i].at = <<"dbs">>
  /\ Reply(i, Answer(there))
  /\ UNCHANGED <<bvars, faults>>

ServeKids(i) ==
  /\ Asked(i) /\ wire[i].op = "read" /\ wire[i].at[1] \in Db
  /\ LET d == wire[i].at[1] IN
     Reply(i, IF engine = "postgres" /\ d \notin there THEN Error ELSE Answer(kids[d]))
  /\ UNCHANGED <<bvars, faults>>

(* what the panel asks: PostgreSQL refuses what is about no database *)
ServePanel(i) ==
  /\ Asked(i) /\ wire[i].op = "read" /\ wire[i].at[1] \in Inside
  /\ Reply(i, IF engine = "postgres" /\ wire[i].at[2][1] \notin there THEN Error ELSE Answer(wire[i].at[2]))
  /\ UNCHANGED <<bvars, faults>>

Serve(i, kidsNow, thereNow) ==
  /\ kids' = kidsNow /\ there' = thereNow /\ Reply(i, Answer(TRUE))

RefuseIt(i) == Reply(i, Error) /\ UNCHANGED server

(* MongoDB has the databases that have collections, and makes what is
   missing; a new database is made with a collection. *)
MongoCreates(i) ==
  /\ Asked(i) /\ wire[i].op = "add" /\ engine = "mongodb"
  /\ LET d == wire[i].at[2]  k == IF wire[i].at[1] = "db" THEN Seed ELSE wire[i].at[3] IN
     IF wire[i].at[1] # "index" /\ k \in kids[d] THEN RefuseIt(i)
     ELSE Serve(i, [kids EXCEPT ![d] = @ \cup {k}], there \cup {d})
  /\ LET d == wire[i].at[2] IN
     stale' = CASE wire[i].at[1] = "kid" /\ d \notin there -> stale \cup {"dbs", d}
                [] wire[i].at[1] = "db" /\ (cached[d] # <<>> \/ UnderWay("read", <<d>>)) -> stale \cup {d}
                [] OTHER -> stale
  /\ UNCHANGED <<engine, work, treevars, panel, boxes, faults>>

MongoDrops(i) ==
  /\ Asked(i) /\ wire[i].op = "drop" /\ engine = "mongodb"
  /\ LET d == wire[i].at[2]
         left == CASE wire[i].at[1] = "db" -> {} [] wire[i].at[1] = "kid" -> kids[d] \ {wire[i].at[3]}
                   [] OTHER -> kids[d]
     IN IF wire[i].at[1] = "db" /\ d = Protected THEN RefuseIt(i)
        ELSE Serve(i, [kids EXCEPT ![d] = left], IF left = {} THEN there \ {d} ELSE there)
  /\ stale' = IF wire[i].at[1] = "db" THEN stale \cup {wire[i].at[2]} ELSE stale
  /\ UNCHANGED <<engine, work, treevars, panel, boxes, faults>>

PgCreates(i) ==
  /\ Asked(i) /\ wire[i].op = "add" /\ engine = "postgres"
  /\ LET d == wire[i].at[2] IN
     IF wire[i].at[1] = "db"
     THEN IF d \in there THEN RefuseIt(i) ELSE Serve(i, kids, there \cup {d})
     ELSE IF d \notin there \/ wire[i].at[3] \in kids[d] THEN RefuseIt(i)
          ELSE Serve(i, [kids EXCEPT ![d] = @ \cup {wire[i].at[3]}], there)
  /\ UNCHANGED <<engine, work, treevars, panel, boxes, stale, faults>>

(* the tables of the application stay *)
PgDrops(i) ==
  /\ Asked(i) /\ wire[i].op = "drop" /\ engine = "postgres"
  /\ LET d == wire[i].at[2] IN
     IF wire[i].at[1] = "db"
     THEN IF d \notin there \/ d = Protected THEN RefuseIt(i)
          ELSE Serve(i, [kids EXCEPT ![d] = {}], there \ {d})
     ELSE IF wire[i].at[3] \notin kids[d] \/ (d = Protected /\ wire[i].at[3] = Managed) THEN RefuseIt(i)
          ELSE Serve(i, [kids EXCEPT ![d] = @ \ {wire[i].at[3]}], there)
  /\ stale' = IF wire[i].at[1] = "db" THEN stale \cup {wire[i].at[2]} ELSE stale
  /\ UNCHANGED <<engine, work, treevars, panel, boxes, faults>>

(* the answer to a change is lost: the lists are not read again *)
PanelCallFails(i) ==
  /\ Fail(i)
  /\ stale' = IF wire[i].op \in {"add", "drop"} /\ wire[i].answer # NotYet
              THEN stale \cup {"dbs", wire[i].at[2]} ELSE stale
  /\ UNCHANGED <<engine, work, server, treevars, panel, boxes>>

-----------------------------------------------------------------------------
(* The tree *)

(* loadDatabases, from a wire w *)
Unmounted(w) ==
  LET closed(c) == [c EXCEPT !.form = FALSE] IN
  Leave([i \in DOMAIN w |-> closed(w[i])], Inside)

LoadDatabases(w) ==
  /\ wire' = Unmounted(w) \o <<ReadDbs>>
  /\ skeleton' = TRUE /\ panelBusy' = FALSE /\ result' = <<>>

(* the panel is there again and reads what is selected *)
Remounted == IF skeleton THEN ReadPanel(selected) ELSE <<>>

DbsCome(i) ==
  /\ \/ Came(i, "read") /\ wire[i].at = <<"dbs">>
        /\ tree' = Value(i) /\ stale' = IF wire[i].late THEN stale \cup {"dbs"} ELSE stale
     \/ Failed(i, "read") /\ wire[i].at = <<"dbs">>
        /\ tree' = tree /\ stale' = stale \cup {"dbs"}
  /\ skeleton' = FALSE
  /\ panelBusy' = (panelBusy \/ Remounted # <<>>)
  /\ wire' = After(i, Remounted)
  /\ UNCHANGED <<engine, work, server, cached, spinning, expanded, selected, result, boxes, faults>>

(* whichever answer comes last is kept; the first ends the spinner *)
KidsCome(i) ==
  /\ i \in DOMAIN wire /\ wire[i].op = "read" /\ wire[i].at[1] \in Db
  /\ LET d == wire[i].at[1] IN
     /\ \/ Came(i, "read") /\ cached' = [cached EXCEPT ![d] = <<Value(i)>>]
           /\ stale' = IF wire[i].late THEN stale \cup {d} ELSE stale
        \/ Failed(i, "read") /\ cached' = cached /\ stale' = stale \cup {d}
     /\ spinning' = spinning \ {d}
  /\ wire' = After(i, <<>>)
  /\ UNCHANGED <<engine, work, server, tree, expanded, skeleton, panel, boxes, faults>>

(* a bound: the person who works with the tree stops when it may be stale *)
Calm == Quiet /\ (work = "tree" => stale = {})

OnTab == Calm /\ ~skeleton /\ asking = <<>> /\ dropping = <<>>

(* mutant: the panel for kids is kept as it is *)
TurnKeeps(sel, w) ==
  LET same == Len(sel) = 2 /\ Len(selected) = 2 IN
  /\ selected' = sel
  /\ IF sel = selected THEN wire' = w /\ UNCHANGED <<panelBusy, result>>
     ELSE /\ wire' = Leave(w, IF same THEN {} ELSE Inside) \o ReadPanel(sel)
          /\ panelBusy' = (work # "tree" /\ ~same) /\ result' = IF same THEN result ELSE <<>>

(* The panel turns to sel: the one for kids is kept from kid to kid, and
   does not cancel what it reads; its query goes with the skeleton. *)
Turn(sel, w) ==
  LET gone == IF Len(sel) = 2 /\ Len(selected) = 2 THEN {"find"} ELSE Inside IN
  /\ selected' = sel
  /\ IF sel = selected THEN wire' = w /\ UNCHANGED <<panelBusy, result>>
     ELSE /\ wire' = Leave(w, gone) \o ReadPanel(sel)
          /\ panelBusy' = (work # "tree") /\ result' = <<>>

(* a click on a database selects it and opens or closes it (a bound: who
   works with the tree closes none) *)
SelectDb(d) ==
  /\ OnTab /\ d \in tree /\ (work = "tree" => d \notin expanded)
  /\ LET opens == d \notin expanded  reads == opens /\ cached[d] = <<>> IN
     /\ expanded' = IF opens THEN expanded \cup {d} ELSE expanded \ {d}
     /\ spinning' = IF reads THEN spinning \cup {d} ELSE spinning
     /\ Turn(<<d>>, IF reads THEN Append(wire, ReadKids(d)) ELSE wire)
  /\ UNCHANGED <<engine, work, server, tree, cached, skeleton, boxes, stale, faults>>

Offered(d) == d \in tree /\ d \in expanded /\ d \notin spinning
KidsShown(d) == IF cached[d] = <<>> THEN {} ELSE cached[d][1]

SelectKid(d, k) ==
  /\ OnTab /\ work # "tree" /\ Offered(d) /\ k \in KidsShown(d)
  /\ Turn(<<d, k>>, wire)
  /\ UNCHANGED <<engine, work, server, treevars, boxes, stale, faults>>

-----------------------------------------------------------------------------
(* The panel *)

(* any answer ends the skeleton, that of a kid left as well *)
PanelComes(i) ==
  /\ Came(i, "read") \/ Failed(i, "read")
  /\ wire[i].at[1] \in {"overview", "detail"}
  /\ panelBusy' = FALSE
  /\ wire' = After(i, <<>>)
  /\ UNCHANGED <<engine, work, server, treevars, selected, result, boxes, stale, faults>>

PanelShown == work # "tree" /\ ~skeleton /\ ~panelBusy /\ selected # <<>>
Running    == \E i \in DOMAIN wire : wire[i].at[1] = "find" /\ wire[i].heard

(* a query of a collection, or of a database of PostgreSQL *)
Find(len) ==
  /\ OnTab /\ PanelShown /\ Len(selected) = len /\ ~Running
  /\ Send(<<Call("read", <<"find", selected>>)>>)

MongoFind == engine = "mongodb" /\ Find(2) /\ UNCHANGED <<bvars, faults>>

(* the next or the previous page *)
MongoPage == result # <<>> /\ MongoFind

PgRun ==
  /\ engine = "postgres" /\ Find(1) /\ result' = <<>>
  /\ UNCHANGED <<engine, work, server, treevars, selected, panelBusy, boxes, stale, faults>>

Found(i) ==
  /\ wire[i].at[1] = "find"
  /\ \/ Came(i, "read") /\ result' = <<Value(i)>>
     \/ Failed(i, "read") /\ result' = <<>>
  /\ wire' = After(i, <<>>)
  /\ UNCHANGED <<engine, work, server, treevars, selected, panelBusy, boxes, stale, faults>>

(* an index other than _id_ *)
DropIndex ==
  /\ engine = "mongodb" /\ work = "indexes" /\ OnTab /\ PanelShown /\ Len(selected) = 2
  /\ ~\E i \in DOMAIN wire : wire[i].at[1] = "indexes" /\ wire[i].heard
  /\ Send(<<Call("drop", <<"indexes", selected[1], selected[2]>>)>>)
  /\ UNCHANGED <<bvars, faults>>

(* the indexes are read of the collection the handler was made for *)
IndexGone(i) ==
  /\ Came(i, "drop") /\ wire[i].at[1] = "indexes"
  /\ LET sel == <<wire[i].at[2], wire[i].at[3]>> IN
     wire' = Leave(After(i, <<>>), {"find"}) \o ReadPanel(sel)
  /\ panelBusy' = TRUE /\ result' = <<>>
  /\ UNCHANGED <<engine, work, server, treevars, selected, boxes, stale, faults>>

-----------------------------------------------------------------------------
(* The dialogs *)

Ask(box) == asking' = box /\ UNCHANGED <<engine, work, server, treevars, panel, dropping, stale, wire, faults>>

AskDb    == OnTab /\ work = "tree" /\ Ask(<<"db">>)
AskKid(d) == OnTab /\ work = "tree" /\ Offered(d) /\ Ask(<<"kid", d>>)
AskIndex ==
  /\ engine = "mongodb" /\ work = "indexes" /\ OnTab /\ PanelShown /\ Len(selected) = 2
  /\ Ask(<<"index", selected[1], selected[2]>>)

CloseBox == ~skeleton /\ asking # <<>> /\ Ask(<<>>)

(* each dialog is sending until its call is answered, closed or not *)
Sending(kind) == \E i \in DOMAIN wire : wire[i].op = "add" /\ wire[i].at[1] = kind /\ wire[i].form

Create(kind, at) ==
  /\ ~skeleton /\ asking # <<>> /\ asking[1] = kind /\ Calm /\ ~Sending(kind)
  /\ Send(<<Call("add", at)>>)
  /\ UNCHANGED <<bvars, faults>>

CreateDb(d)  == Create("db", <<"db", d>>)
CreateKid(k) == asking # <<>> /\ Create("kid", <<"kid", asking[2], k>>)
CreateIndex  == Create("index", asking)

(* onCreated: the dialog of that kind is closed, whatever it is about now *)
Closed(kind) == asking' = IF asking # <<>> /\ asking[1] = kind THEN <<>> ELSE asking

DbCreated(i) ==
  /\ Came(i, "add") /\ wire[i].at[1] = "db"
  /\ LoadDatabases(After(i, <<>>)) /\ Closed("db")
  /\ UNCHANGED <<engine, work, server, tree, cached, spinning, expanded, selected, dropping, stale, faults>>

(* mutant: the tree is not told *)
KidCreatedOnly(i) ==
  /\ Came(i, "add") /\ wire[i].at[1] = "kid"
  /\ wire' = After(i, <<>>) /\ Closed("kid")
  /\ UNCHANGED <<engine, work, server, treevars, panel, dropping, stale, faults>>

KidCreated(i) ==
  /\ Came(i, "add") /\ wire[i].at[1] = "kid"
  /\ LET d == wire[i].at[2] IN
     wire' = After(i, <<ReadKids(d)>>) /\ spinning' = spinning \cup {d}
  /\ Closed("kid")
  /\ UNCHANGED <<engine, work, server, tree, cached, expanded, skeleton, panel, dropping, stale, faults>>

IndexMade(i) ==
  /\ Came(i, "add") /\ wire[i].at[1] = "index"
  /\ wire' = After(i, <<>>) /\ Closed("index")
  /\ UNCHANGED <<engine, work, server, treevars, panel, dropping, stale, faults>>

(* a bound: who works with the panel drops one kid *)
OneDrop == \A d \in Db : kids[d] # {}

AskDrop(at) ==
  /\ OnTab
  /\ \/ work = "tree" /\ at[1] = "db" /\ at[2] \in tree \ {Protected}
     \/ work # "indexes" /\ (work = "panel" => OneDrop) /\ at[1] = "kid" /\ Offered(at[2]) /\ at[3] \in KidsShown(at[2])
  /\ dropping' = at
  /\ UNCHANGED <<engine, work, server, treevars, panel, asking, stale, wire, faults>>

CancelDrop ==
  /\ ~skeleton /\ dropping # <<>> /\ dropping' = <<>>
  /\ UNCHANGED <<engine, work, server, treevars, panel, asking, stale, wire, faults>>

(* the handler knows what was selected when it was called, by the name of
   the collection or table alone *)
ConfirmDrop ==
  /\ ~skeleton /\ dropping # <<>> /\ Calm
  /\ LET match == dropping[1] = "kid" /\ Len(selected) = 2 /\ selected[2] = dropping[3] IN
     Send(<<Call("drop", dropping \o <<match>>)>>)
  /\ dropping' = <<>>
  /\ UNCHANGED <<engine, work, server, treevars, panel, asking, stale, faults>>

DbDropped(i) ==
  /\ Came(i, "drop") /\ wire[i].at[1] = "db"
  /\ selected' = <<>> /\ expanded' = expanded \ {wire[i].at[2]} /\ dropping' = <<>>
  /\ LoadDatabases(After(i, <<>>))
  /\ UNCHANGED <<engine, work, server, tree, cached, spinning, asking, stale, faults>>

KidDropped(i) ==
  /\ Came(i, "drop") /\ wire[i].at[1] = "kid"
  /\ LET d == wire[i].at[2] IN
     /\ selected' = IF wire[i].at[4] THEN <<d>> ELSE selected
     /\ spinning' = spinning \cup {d}
     /\ LoadDatabases(After(i, <<ReadKids(d)>>))
  /\ dropping' = <<>>
  /\ UNCHANGED <<engine, work, server, tree, cached, expanded, asking, stale, faults>>

OrderFails(i) ==
  /\ Failed(i, "add") \/ Failed(i, "drop")
  /\ wire' = After(i, <<>>)
  /\ dropping' = IF wire[i].op = "drop" /\ wire[i].at[1] # "indexes" THEN <<>> ELSE dropping
  /\ UNCHANGED <<engine, work, server, treevars, panel, asking, stale, faults>>

-----------------------------------------------------------------------------
(* The two tabs *)

MongoTree(i) == engine = "mongodb" /\ (DbsCome(i) \/ KidsCome(i))
PgTree(i)    == engine = "postgres" /\ (DbsCome(i) \/ KidsCome(i))

MongoSelect == engine = "mongodb" /\ \E d \in Db : SelectDb(d) \/ \E k \in Kid : SelectKid(d, k)
PgSelect    == engine = "postgres" /\ \E d \in Db : SelectDb(d) \/ \E k \in Kid : SelectKid(d, k)

MongoPanel(i) == engine = "mongodb" /\ (PanelComes(i) \/ Found(i))
PgPanel(i)    == engine = "postgres" /\ (PanelComes(i) \/ Found(i))

MongoDialogs == engine = "mongodb" /\
  (CreateIndex \/ (\E d \in Db : CreateDb(d)) \/ (\E k \in Kid : CreateKid(k)))
PgDialogs    == engine = "postgres" /\ ((\E d \in Db : CreateDb(d)) \/ (\E k \in Kid : CreateKid(k)))

MongoDropped(i) == engine = "mongodb" /\ (DbDropped(i) \/ KidDropped(i))
PgDropped(i)    == engine = "postgres" /\ (DbDropped(i) \/ KidDropped(i))

PanelsServe(i) ==
  \/ ServeDbs(i) \/ ServeKids(i) \/ ServePanel(i)
  \/ MongoCreates(i) \/ MongoDrops(i) \/ PgCreates(i) \/ PgDrops(i)

PanelsGoOn(i) ==
  \/ MongoTree(i) \/ PgTree(i) \/ MongoPanel(i) \/ PgPanel(i) \/ IndexGone(i)
  \/ DbCreated(i) \/ KidCreated(i) \/ IndexMade(i)
  \/ MongoDropped(i) \/ PgDropped(i) \/ OrderFails(i)

PanelsClick ==
  \/ MongoSelect \/ PgSelect \/ MongoFind \/ MongoPage \/ PgRun \/ DropIndex
  \/ AskDb \/ AskIndex \/ CloseBox \/ CancelDrop \/ ConfirmDrop \/ MongoDialogs \/ PgDialogs
  \/ \E d \in Db : AskKid(d) \/ AskDrop(<<"db", d>>) \/ \E k \in Kid : AskDrop(<<"kid", d, k>>)

PanelsNext ==
  \/ PanelsClick
  \/ \E i \in DOMAIN wire : PanelsServe(i) \/ PanelsGoOn(i) \/ PanelCallFails(i)

PanelsSpec ==
  /\ PanelsInit /\ [][PanelsNext]_<<bvars, wire, faults>>
  /\ WF_<<bvars, wire, faults>>(wire # <<>> /\ (PanelsServe(1) \/ PanelsGoOn(1)))

-----------------------------------------------------------------------------
PanelsTypeOK ==
  /\ engine \in Engines /\ work \in Works /\ there \subseteq Db /\ kids \in [Db -> SUBSET Kid]
  /\ {tree, spinning, expanded} \subseteq SUBSET Db
  /\ cached \in [Db -> {<<>>} \cup {<<s>> : s \in SUBSET Kid}]
  /\ {skeleton, panelBusy} \subseteq BOOLEAN
  /\ selected \in {<<>>} \cup {<<d>> : d \in Db} \cup (Db \X Kid)
  /\ Len(result) \in 0..1 /\ Len(asking) \in 0..3 /\ Len(dropping) \in {0, 2, 3}
  /\ stale \subseteq Db \cup {"dbs"}

(* The result in the panel is of what is selected.  (No query is cancelled
   and none knows its collection; only that each change of the selection
   shows a skeleton keeps an answer for the last one out.) *)
FindOfSelection == result # <<>> => PanelShown /\ result = <<selected>>

(* The tree shows the person's own changes: when nothing about it is under
   way, and no read of it failed or was overtaken, the databases and what
   was read of each are what the server has, unless the database was
   dropped or made anew. *)
Concerns(d) == \E i \in DOMAIN wire : wire[i].at[1] = d \/ (Len(wire[i].at) > 1 /\ wire[i].at[2] = d)

OwnTreeChanges ==
  /\ ~skeleton /\ ~(\E i \in DOMAIN wire : wire[i].op \in {"add", "drop"}) /\ ~Concerns("dbs")
       /\ "dbs" \notin stale
     => tree = there
  /\ \A d \in there : cached[d] # <<>> /\ d \notin stale /\ ~Concerns(d) => KidsShown(d) = kids[d]
=============================================================================
