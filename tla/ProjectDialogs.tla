--------------------------- MODULE ProjectDialogs ---------------------------
(***************************************************************************)
(* Two dialogs of the view of a project in pages/projects.tsx: the form    *)
(* for a new search collection (CreateCollectionDialog), whose selects for *)
(* a Postgres source depend on each other, and the form for a search token *)
(* (GenerateSearchTokenDialog).                                            *)
(*                                                                         *)
(* A select reads its options when the choices before it change.  Nothing  *)
(* cancels a read, and a choice is kept when the choices before it change  *)
(* unless they become empty.                                               *)
(***************************************************************************)
EXTENDS AdminApi, FiniteSets

CONSTANTS
  Name, None,      \* databases, schemas, tables and columns; no choice
  Public,          \* the schema chosen by itself
  Catalog,         \* the paths <<database, schema, table, column>> at the server
  Primary,         \* the columns that are primary keys
  Coll             \* the collections listed in the view

ASSUME DialogsAssumption ==
  /\ Catalog \subseteq [1..4 -> Name] /\ Public \in Name /\ None \notin Name
  /\ Primary \subseteq Name /\ Coll \cap Name = {}

VARIABLES
  dialog,      \* "none", "collection" or "token"
  source,      \* "mongodb" or "postgres"
  choice,      \* database, schema, table and id column
  options,     \* what each select offers
  fields,      \* fields of some table are offered
  rules,       \* the index of each filter rule
  custom,      \* the box for filter rules is ticked
  token,       \* the indexes of the token shown
  astray       \* history: a read failed, or was answered for choices since changed

form    == <<source, choice, options, fields>>
tform   == <<rules, custom, token>>
dvars   == <<dialog, form, tform, astray>>

(* what the server has at level k below the first k - 1 names of a choice *)
Below(k, c) == {path[k] : path \in {q \in Catalog : \A j \in 1..(k - 1) : q[j] = c[j]}}

NoChoice == <<None, None, None, None>>

Reset(d) ==
  /\ dialog' = d /\ source' = "mongodb" /\ choice' = NoChoice
  /\ options' = [k \in 1..4 |-> {}] /\ fields' = FALSE
  /\ rules' = <<>> /\ custom' = FALSE /\ token' = <<>> /\ astray' = FALSE

DialogsStart ==
  /\ dialog = "none" /\ source = "mongodb" /\ choice = NoChoice
  /\ options = [k \in 1..4 |-> {}] /\ fields = FALSE
  /\ rules = <<>> /\ custom = FALSE /\ token = <<>> /\ astray = FALSE

DialogsInit == DialogsStart /\ wire = <<>> /\ faults = 0

OpenDialog(d) ==
  /\ dialog = "none" /\ Quiet /\ d \in {"collection", "token"} /\ Reset(d)
  /\ UNCHANGED <<wire, faults>>

(* the dialog goes with all it has; an order to create stays *)
CloseDialog ==
  /\ dialog # "none" /\ Reset("none")
  /\ wire' = Orphan(Leave(wire, {"options", "fields", "token"}), "create", "collection")
  /\ UNCHANGED faults

-----------------------------------------------------------------------------
(* The selects *)

(* select k has what it depends on *)
Ready(k, s, c) == s = "postgres" /\ \A j \in 1..(k - 1) : c[j] # None

ReadOptions(k, c) == Call("read", <<"options", k, SubSeq(c, 1, k - 1)>>)

(* mutant: the columns are read again for another table, not for another
   database or schema *)
RereadOfTable(k, s, c) ==
  /\ Ready(k, s, c)
  /\ IF k = 4 THEN s # source \/ c[3] # choice[3]
              ELSE s # source \/ \E j \in 1..(k - 1) : c[j] # choice[j]

(* the dependencies of the effect that reads the options of select k *)
Reread(k, s, c) ==
  Ready(k, s, c) /\ (s # source \/ \E j \in 1..(k - 1) : c[j] # choice[j])

(* The effects run after source and choice became s and c: a select without
   what it depends on is emptied, one whose dependencies changed is read. *)
Chosen(s, c) ==
  LET empty(k) == k > 1 /\ ~Ready(k, s, c) IN
  /\ source' = s
  /\ choice' = [k \in 1..4 |-> IF empty(k) THEN None ELSE c[k]]
  /\ options' = [k \in 1..4 |-> IF empty(k) THEN {} ELSE options[k]]

Reads(s, c) ==
  SetToSeq({ReadOptions(k, c) : k \in {j \in 1..4 : Reread(j, s, c)}})

Free == dialog = "collection" /\ Quiet

ChooseSource(s) ==
  /\ Free /\ s # source
  /\ Send(Reads(s, choice)) /\ Chosen(s, choice)
  /\ fields' = FALSE
  /\ UNCHANGED <<dialog, tform, astray, faults>>

Choose(k, x) ==
  /\ Free /\ source = "postgres" /\ x \in options[k] /\ x # choice[k]
  /\ (k > 1 => choice[k - 1] # None)
  /\ LET c == [choice EXCEPT ![k] = x] IN Send(Reads(source, c)) /\ Chosen(source, c)
  /\ UNCHANGED <<dialog, fields, tform, astray, faults>>

ServeOptions(i) ==
  /\ Asked(i) /\ wire[i].op = "read" /\ wire[i].at[1] = "options"
  /\ Reply(i, Answer(Below(wire[i].at[2], wire[i].at[3])))
  /\ UNCHANGED <<dvars, faults>>

(* what the answer chooses by itself: the public schema, the primary key *)
Default(k, offered) ==
  LET first(s) == CHOOSE x \in s : TRUE
      primary  == offered \cap Primary
  IN CASE offered # {} /\ k = 2 -> IF Public \in offered THEN Public ELSE first(offered)
       [] offered # {} /\ k = 4 -> first(IF Cardinality(primary) = 1 THEN primary ELSE offered)
       [] OTHER -> choice[k]

OptionsCome(i) ==
  /\ Came(i, "read") /\ wire[i].at[1] = "options"
  /\ LET k == wire[i].at[2]  c == [choice EXCEPT ![k] = Default(k, Value(i))] IN
     /\ wire' = After(i, Reads(source, c))
     /\ source' = source /\ choice' = c
     /\ options' = [options EXCEPT ![k] = Value(i)]
     /\ astray' = (astray \/ source = "mongodb" \/ wire[i].at[3] # SubSeq(choice, 1, k - 1))
  /\ UNCHANGED <<dialog, fields, tform, faults>>

-----------------------------------------------------------------------------
(* The fields, and the new collection *)

Discover ==
  /\ Free /\ ~\E i \in DOMAIN wire : wire[i].op = "discover"
  /\ source = "postgres" => None \notin {choice[k] : k \in 1..3}
  /\ Send(<<Call("discover", <<"fields">>)>>)
  /\ UNCHANGED <<dvars, faults>>

ServeDiscover(i) ==
  /\ Asked(i) /\ wire[i].op = "discover"
  /\ Reply(i, Answer("fields"))
  /\ UNCHANGED <<dvars, faults>>

(* the fields are offered whatever is chosen by now *)
Discovered(i) ==
  /\ Came(i, "discover")
  /\ fields' = TRUE /\ wire' = After(i, <<>>)
  /\ UNCHANGED <<dialog, source, choice, options, tform, astray, faults>>

SubmitCollection ==
  /\ Free /\ ~\E i \in DOMAIN wire : wire[i].op = "create" /\ wire[i].form
  /\ source = "postgres" => None \notin {choice[k] : k \in 1..4}
  /\ Send(<<Call("create", <<"collection", source, choice>>)>>)
  /\ UNCHANGED <<dvars, faults>>

(* the server has the table and the column, or refuses *)
ServeCreate(i) ==
  /\ Asked(i) /\ wire[i].op = "create"
  /\ LET s == wire[i].at[2]  c == wire[i].at[3] IN
     Reply(i, IF s = "mongodb" \/ c \in Catalog THEN Answer(c) ELSE Error)
  /\ UNCHANGED <<dvars, faults>>

(* onCreated closes the dialog that is open now *)
CollectionCreated(i) ==
  /\ Came(i, "create")
  /\ IF dialog = "collection"
     THEN /\ Reset("none")
          /\ wire' = Orphan(Leave(After(i, <<>>), {"options", "fields"}), "create", "collection")
     ELSE wire' = After(i, <<>>) /\ UNCHANGED dvars
  /\ UNCHANGED faults

DialogCallFails(i) ==
  /\ i \in DOMAIN wire /\ wire[i].answer = Error
  /\ wire' = After(i, <<>>)
  /\ astray' = (astray \/ (wire[i].op = "read" /\ dialog = "collection"))
  /\ UNCHANGED <<dialog, form, tform, faults>>

-----------------------------------------------------------------------------
(* The search token *)

Used == {rules[n] : n \in DOMAIN rules}
FirstFree == IF Coll \ Used = {} THEN <<>> ELSE <<CHOOSE c \in Coll : c \notin Used>>

TForm == dialog = "token" /\ Quiet /\ token = <<>>

(* ticking the box adds a first rule *)
TickRules ==
  /\ TForm /\ custom' = ~custom
  /\ rules' = IF ~custom /\ rules = <<>> THEN FirstFree ELSE rules
  /\ UNCHANGED <<dialog, form, token, astray, wire, faults>>

AddRule ==
  /\ TForm /\ custom /\ Len(rules) < Cardinality(Coll)
  /\ rules' = rules \o FirstFree
  /\ UNCHANGED <<dialog, form, custom, token, astray, wire, faults>>

RemoveRule(n) ==
  /\ TForm /\ custom /\ n \in DOMAIN rules
  /\ rules' = RemoveAt(rules, n)
  /\ UNCHANGED <<dialog, form, custom, token, astray, wire, faults>>

(* the index of a rule may become that of another rule *)
UpdateRule(n, c) ==
  /\ TForm /\ custom /\ n \in DOMAIN rules /\ rules[n] # c
  /\ rules' = [rules EXCEPT ![n] = c]
  /\ UNCHANGED <<dialog, form, custom, token, astray, wire, faults>>

(* without a rule the token is asked without rules: it is for every index *)
GenerateToken ==
  /\ TForm /\ ~\E i \in DOMAIN wire : wire[i].op = "token"
  /\ Send(<<Call("token", <<"token", IF custom /\ rules # <<>> THEN Used ELSE Coll>>)>>)
  /\ UNCHANGED <<dvars, faults>>

ServeToken(i) ==
  /\ Asked(i) /\ wire[i].op = "token"
  /\ Reply(i, Answer(wire[i].at[2]))
  /\ UNCHANGED <<dvars, faults>>

TokenComes(i) ==
  /\ Came(i, "token")
  /\ token' = <<Value(i)>> /\ wire' = After(i, <<>>)
  /\ UNCHANGED <<dialog, form, rules, custom, astray, faults>>

-----------------------------------------------------------------------------
DialogsStep(i) ==
  \/ ServeOptions(i) \/ ServeDiscover(i) \/ ServeCreate(i) \/ ServeToken(i)
  \/ OptionsCome(i) \/ Discovered(i) \/ CollectionCreated(i) \/ TokenComes(i)
  \/ DialogCallFails(i)

DialogsClick ==
  \/ OpenDialog("collection") \/ OpenDialog("token") \/ CloseDialog
  \/ ChooseSource("mongodb") \/ ChooseSource("postgres")
  \/ \E k \in 1..4, x \in Name : Choose(k, x)
  \/ Discover \/ SubmitCollection
  \/ TickRules \/ AddRule \/ GenerateToken
  \/ \E n \in DOMAIN rules : RemoveRule(n) \/ \E c \in Coll : UpdateRule(n, c)

DialogsNext ==
  \/ DialogsClick
  \/ \E i \in DOMAIN wire : DialogsStep(i) \/ (Fail(i) /\ UNCHANGED dvars)

DialogsSpec == DialogsInit /\ [][DialogsNext]_<<dvars, wire, faults>>

-----------------------------------------------------------------------------
DialogsTypeOK ==
  /\ dialog \in {"none", "collection", "token"} /\ source \in {"mongodb", "postgres"}
  /\ choice \in [1..4 -> Name \cup {None}] /\ options \in [1..4 -> SUBSET Name]
  /\ fields \in BOOLEAN
  /\ rules \in UNION {[1..n -> Coll] : n \in 0..Cardinality(Coll)} /\ custom \in BOOLEAN
  /\ Len(token) \in 0..1 /\ astray \in BOOLEAN

(* The id column is one of the table chosen: once every select has its
   options, and no read failed or was answered for choices since changed,
   the column is one of the table, unless the database chosen since has no
   such table.  (The id column is chosen by the answer for the columns, and
   the three effects before it may change what it is read for.) *)
IdColumnOfTable ==
  LET columns == Below(4, choice) IN
  ~astray /\ ~(\E i \in DOMAIN wire : wire[i].at[1] = "options") /\ choice[4] # None /\ columns # {}
    => choice[4] \in columns
=============================================================================
