------------------------------ MODULE TasksPage ------------------------------
(***************************************************************************)
(* The tasks page of admin-ui (pages/tasks.tsx) over the services of       *)
(* scheduled tasks (shared/src/services/tasks.ts) and their routes: the    *)
(* list of tasks, and the history of the runs of the one expanded, which   *)
(* is read again every five seconds while a run is shown as running.       *)
(*                                                                         *)
(* The scheduler is reduced to what the page sees of it (TaskScheduler     *)
(* models it): a run begins when asked for or due, and ends.               *)
(***************************************************************************)
EXTENDS AdminApi, FiniteSets

CONSTANTS
  Task, Run,
  Own,       \* the task with a runLog, there from the start
  Polls,     \* a bound: polls under way at once
  MaxAsked,  \* a bound: runs asked for and not begun
  Chores     \* a bound: the person works with the "tasks" or with the "runs" of Own

ASSUME TasksAssumption == Own \in Task /\ {Polls, MaxAsked} \subseteq Nat /\ Chores \subseteq {"tasks", "runs"}

VARIABLES
  chore,
  tasks,          \* at the server: "none", "on", "off"
  runs,           \* at the server: "none", "running", "done", "gone"
  asked,          \* Run now was answered and its run has not begun
  tasksShown, tasksLoading,
  creating,       \* the dialog for a new task is open
  toDelete,       \* the tasks the confirmation dialog asks about
  runLog,        \* the history of Own: "closed", "loading" or "shown"
  runsShown,
  deletingRun,    \* the run whose button spins
  clearing,
  \* history of the run
  untold,         \* a change or a read of the tasks failed or came late
  crossed         \* a read of the history was under way with a deletion

jobs   == <<tasks, runs, asked>>
table  == <<tasksShown, tasksLoading, creating, toDelete>>
log    == <<runLog, runsShown, deletingRun, clearing>>
tvars  == <<chore, jobs, table, log, untold, crossed>>

NoRuns    == [r \in Run |-> "none"]
Present(f) == [r \in Run |-> IF f[r] = "gone" THEN "none" ELSE f[r]]
ReadTasks == IF chore = "tasks" THEN <<Call("read", <<"tasks">>)>> ELSE <<>>
ReadRuns  == <<Call("read", <<"runs", "first">>)>>
Deletion(w) == \E i \in DOMAIN w : w[i].op = "drop"
Reading   == \E i \in DOMAIN wire : wire[i].op = "read" /\ wire[i].at[1] = "runs" /\ wire[i].heard

TasksStart ==
  /\ chore \in Chores
  /\ tasks = [t \in Task |-> IF t = Own THEN "on" ELSE "none"]
  /\ runs = NoRuns /\ asked = 0
  /\ tasksShown = (IF chore = "tasks" THEN [t \in Task |-> "none"] ELSE tasks)
  /\ tasksLoading = (chore = "tasks") /\ creating = FALSE /\ toDelete = {}
  /\ runLog = "closed" /\ runsShown = NoRuns /\ deletingRun = {} /\ clearing = FALSE
  /\ untold = FALSE /\ crossed = FALSE

TasksInit == TasksStart /\ wire = ReadTasks /\ faults = 0

-----------------------------------------------------------------------------
(* The services *)

ServeListTasks(i) ==
  /\ Asked(i) /\ wire[i].op = "read" /\ wire[i].at[1] = "tasks"
  /\ Reply(i, Answer(tasks))
  /\ UNCHANGED <<tvars, faults>>

ServeListRuns(i) ==
  /\ Asked(i) /\ wire[i].op = "read" /\ wire[i].at[1] = "runs"
  /\ Reply(i, Answer(Present(runs)))
  /\ UNCHANGED <<tvars, faults>>

ServeCreateTask(i) ==
  /\ Asked(i) /\ wire[i].op = "add"
  /\ \E t \in Task :
       /\ tasks[t] = "none" /\ tasks' = [tasks EXCEPT ![t] = "on"]
       /\ Reply(i, Answer(t))
  /\ UNCHANGED <<chore, runs, asked, table, log, untold, crossed, faults>>

Missing(i, t) == tasks[t] = "none" /\ Reply(i, Error) /\ UNCHANGED jobs

ServeUpdateTask(i) ==
  /\ Asked(i) /\ wire[i].op = "set"
  /\ LET t == wire[i].at[2] IN
     \/ Missing(i, t)
     \/ /\ tasks[t] # "none" /\ tasks' = [tasks EXCEPT ![t] = wire[i].at[3]]
        /\ Reply(i, Answer(t)) /\ UNCHANGED <<runs, asked>>
  /\ UNCHANGED <<chore, table, log, untold, crossed, faults>>

ServeDeleteTask(i) ==
  /\ Asked(i) /\ wire[i].op = "drop" /\ wire[i].at[1] = "tasks"
  /\ LET t == wire[i].at[2] IN
     \/ Missing(i, t)
     \/ /\ tasks[t] # "none" /\ tasks' = [tasks EXCEPT ![t] = "none"]
        /\ Reply(i, Answer(t)) /\ UNCHANGED <<runs, asked>>
  /\ UNCHANGED <<chore, table, log, untold, crossed, faults>>

(* Run now is answered before the run is there *)
ServeRunNow(i) ==
  /\ Asked(i) /\ wire[i].op = "run"
  /\ asked' = asked + 1 /\ Reply(i, Answer(Own))
  /\ UNCHANGED <<chore, tasks, runs, table, log, untold, crossed, faults>>

(* one run, or every run of the task; a run that is not there is an error *)
ServeDeleteRuns(i) ==
  /\ Asked(i) /\ wire[i].op = "drop" /\ wire[i].at[1] = "runs"
  /\ LET one == Len(wire[i].at) = 2
         these == IF one THEN {wire[i].at[2]} ELSE {r \in Run : runs[r] # "none"} IN
     IF one /\ runs[wire[i].at[2]] = "gone" THEN Reply(i, Error) /\ UNCHANGED runs
     ELSE /\ runs' = [r \in Run |-> IF r \in these THEN "gone" ELSE runs[r]]
          /\ Reply(i, Answer(these))
  /\ UNCHANGED <<chore, tasks, asked, table, log, untold, crossed, faults>>

(* a run begins, one at a time, when asked for or due; what is asked for
   while another runs is skipped *)
Executing == \E r \in Run : runs[r] = "running"

RunBegins ==
  /\ chore = "runs" /\ ~Executing
  /\ \E r \in Run : runs[r] = "none" /\ runs' = [runs EXCEPT ![r] = "running"]
  /\ asked' = IF asked > 0 THEN asked - 1 ELSE 0
  /\ UNCHANGED <<chore, tasks, table, log, untold, crossed, wire, faults>>

RunSkipped ==
  /\ asked > 0 /\ Executing /\ asked' = asked - 1
  /\ UNCHANGED <<chore, tasks, runs, table, log, untold, crossed, wire, faults>>

RunEnds(r) ==
  /\ runs[r] = "running" /\ runs' = [runs EXCEPT ![r] = "done"]
  /\ UNCHANGED <<chore, tasks, asked, table, log, untold, crossed, wire, faults>>

TaskCallFails(i) ==
  /\ Fail(i)
  /\ untold' = (untold \/ (wire[i].op \in {"add", "set", "drop"} /\ wire[i].answer # NotYet))
  /\ UNCHANGED <<chore, jobs, table, log, crossed>>

-----------------------------------------------------------------------------
(* The list of tasks *)

TasksCome(i) ==
  /\ i \in DOMAIN wire /\ wire[i].at[1] = "tasks"
  /\ \/ Came(i, "read") /\ tasksShown' = Value(i) /\ untold' = (untold \/ wire[i].late)
     \/ Failed(i, "read") /\ tasksShown' = tasksShown /\ untold' = TRUE
  /\ tasksLoading' = FALSE /\ wire' = After(i, <<>>)
  /\ UNCHANGED <<chore, jobs, creating, toDelete, log, crossed, faults>>

OnTasks == Quiet /\ ~tasksLoading /\ ~creating /\ toDelete = {}

RefreshTasks ==
  /\ OnTasks /\ chore = "tasks" /\ Send(ReadTasks) /\ UNCHANGED <<tvars, faults>>

OpenTaskForm ==
  /\ OnTasks /\ chore = "tasks" /\ creating' = TRUE
  /\ UNCHANGED <<chore, jobs, tasksShown, tasksLoading, toDelete, log, untold, crossed, wire, faults>>

CloseTaskForm ==
  /\ creating /\ creating' = FALSE
  /\ wire' = Orphan(wire, "add", "tasks")
  /\ UNCHANGED <<chore, jobs, tasksShown, tasksLoading, toDelete, log, untold, crossed, faults>>

(* a bound: while the server has room for a task *)
SubmitTask ==
  /\ creating /\ Quiet /\ ~\E i \in DOMAIN wire : wire[i].op = "add" /\ wire[i].form
  /\ Cardinality({t \in Task : tasks[t] = "none"}) > Cardinality({i \in DOMAIN wire : wire[i].op = "add"})
  /\ Send(<<Call("add", <<"tasks">>)>>)
  /\ UNCHANGED <<tvars, faults>>

TaskCreated(i) ==
  /\ Came(i, "add") /\ creating' = FALSE /\ wire' = After(i, ReadTasks)
  /\ UNCHANGED <<chore, jobs, tasksShown, tasksLoading, toDelete, log, untold, crossed, faults>>

(* handleToggle: the other one of what the row shows *)
ToggleTask(t) ==
  /\ OnTasks /\ chore = "tasks" /\ tasksShown[t] # "none"
  /\ Send(<<Call("set", <<"tasks", t, IF tasksShown[t] = "on" THEN "off" ELSE "on">>)>>)
  /\ UNCHANGED <<tvars, faults>>

TaskSet(i) ==
  /\ Came(i, "set") /\ wire' = After(i, ReadTasks) /\ UNCHANGED <<tvars, faults>>

PickTask(t) ==
  /\ OnTasks /\ chore = "tasks" /\ tasksShown[t] # "none" /\ toDelete' = {t}
  /\ UNCHANGED <<chore, jobs, tasksShown, tasksLoading, creating, log, untold, crossed, wire, faults>>

CancelDelete ==
  /\ toDelete # {} /\ toDelete' = {}
  /\ UNCHANGED <<chore, jobs, tasksShown, tasksLoading, creating, log, untold, crossed, wire, faults>>

(* the action button closes the dialog *)
ConfirmDelete ==
  /\ Quiet /\ \E t \in toDelete : Send(<<Call("drop", <<"tasks", t>>)>>)
  /\ toDelete' = {}
  /\ UNCHANGED <<chore, jobs, tasksShown, tasksLoading, creating, log, untold, crossed, faults>>

TaskDeleted(i) ==
  /\ Came(i, "drop") /\ wire[i].at[1] = "tasks"
  /\ toDelete' = {} /\ wire' = After(i, ReadTasks)
  /\ UNCHANGED <<chore, jobs, tasksShown, tasksLoading, creating, log, untold, crossed, faults>>

-----------------------------------------------------------------------------
(* The history of the runs *)

(* it is there anew: expanded, or under its next key *)
Anew(w) ==
  /\ runLog' = "loading" /\ runsShown' = NoRuns /\ deletingRun' = {} /\ clearing' = FALSE
  /\ crossed' = Deletion(w) /\ wire' = Leave(w, {"runs"}) \o ReadRuns

Expand ==
  /\ OnTasks /\ chore = "runs" /\ runLog = "closed"
  /\ Anew(wire)
  /\ UNCHANGED <<chore, jobs, table, untold, faults>>

Collapse ==
  /\ OnTasks /\ runLog # "closed"
  /\ runLog' = "closed" /\ runsShown' = NoRuns /\ deletingRun' = {} /\ clearing' = FALSE
  /\ crossed' = FALSE /\ wire' = Leave(wire, {"runs"})
  /\ UNCHANGED <<chore, jobs, table, untold, faults>>

RunNow ==
  /\ OnTasks /\ chore = "runs" /\ asked < MaxAsked
  /\ Send(<<Call("run", <<"tasks">>)>>)
  /\ UNCHANGED <<tvars, faults>>

(* handleRunNow: the next key, and the list *)
RunStarted(i) ==
  /\ Came(i, "run")
  /\ IF runLog = "closed"
     THEN wire' = After(i, ReadTasks) /\ UNCHANGED <<log, crossed>>
     ELSE Anew(After(i, ReadTasks))
  /\ UNCHANGED <<chore, jobs, table, untold, faults>>

(* loadRuns: what comes last is shown *)
RunsCome(i) ==
  /\ i \in DOMAIN wire /\ wire[i].at[1] = "runs"
  /\ \/ Came(i, "read") /\ runsShown' = Value(i)
     \/ Failed(i, "read") /\ runsShown' = runsShown
  /\ runLog' = IF wire[i].at[2] = "first" THEN "shown" ELSE runLog
  /\ wire' = After(i, <<>>)
  /\ UNCHANGED <<chore, jobs, table, deletingRun, clearing, untold, crossed, faults>>

(* mutant: the timer is stopped by a failure *)
PollUntilError ==
  /\ faults = 0 /\ \E r \in Run : runsShown[r] = "running"
  /\ Cardinality({i \in DOMAIN wire : wire[i].at = <<"runs", "poll">>}) < Polls
  /\ Send(<<Call("read", <<"runs", "poll">>)>>)
  /\ crossed' = (crossed \/ Deletion(wire))
  /\ UNCHANGED <<chore, jobs, table, log, untold, faults>>

Poll ==
  /\ \E r \in Run : runsShown[r] = "running"
  /\ Cardinality({i \in DOMAIN wire : wire[i].at = <<"runs", "poll">>}) < Polls
  /\ Send(<<Call("read", <<"runs", "poll">>)>>)
  /\ crossed' = (crossed \/ Deletion(wire))
  /\ UNCHANGED <<chore, jobs, table, log, untold, faults>>

(* the button of a run spins for one run at a time *)
DeleteRun(r) ==
  /\ OnTasks /\ runLog = "shown" /\ runsShown[r] # "none" /\ r \notin deletingRun
  /\ Send(<<Call("drop", <<"runs", r>>)>>)
  /\ deletingRun' = {r} /\ crossed' = (crossed \/ Reading)
  /\ UNCHANGED <<chore, jobs, table, runLog, runsShown, clearing, untold, faults>>

(* mutant: the row stays *)
RunDeletedNot(i) ==
  /\ Came(i, "drop") /\ wire[i].at[1] = "runs" /\ Len(wire[i].at) = 2
  /\ deletingRun' = {} /\ wire' = After(i, <<>>)
  /\ UNCHANGED <<chore, jobs, table, runLog, runsShown, clearing, untold, crossed, faults>>

RunDeleted(i) ==
  /\ Came(i, "drop") /\ wire[i].at[1] = "runs" /\ Len(wire[i].at) = 2
  /\ runsShown' = [runsShown EXCEPT ![wire[i].at[2]] = "none"]
  /\ deletingRun' = {} /\ wire' = After(i, <<>>)
  /\ UNCHANGED <<chore, jobs, table, runLog, clearing, untold, crossed, faults>>

ClearLogs ==
  /\ OnTasks /\ runLog = "shown" /\ runsShown # NoRuns /\ ~clearing
  /\ Send(<<Call("drop", <<"runs">>)>>)
  /\ clearing' = TRUE /\ crossed' = (crossed \/ Reading)
  /\ UNCHANGED <<chore, jobs, table, runLog, runsShown, deletingRun, untold, faults>>

LogsCleared(i) ==
  /\ Came(i, "drop") /\ wire[i].at = <<"runs">>
  /\ runsShown' = NoRuns /\ clearing' = FALSE /\ wire' = After(i, <<>>)
  /\ UNCHANGED <<chore, jobs, table, runLog, deletingRun, untold, crossed, faults>>

TaskOrderFails(i) ==
  /\ \E op \in {"add", "set", "run", "drop"} : Failed(i, op)
  /\ IF wire[i].op = "drop" /\ wire[i].at[1] = "runs"
     THEN IF Len(wire[i].at) = 2 THEN deletingRun' = {} /\ UNCHANGED clearing
          ELSE clearing' = FALSE /\ UNCHANGED deletingRun
     ELSE UNCHANGED <<deletingRun, clearing>>
  /\ wire' = After(i, <<>>)
  /\ crossed' = (crossed \/ (wire[i].op = "drop" /\ wire[i].at[1] = "runs"))
  /\ UNCHANGED <<chore, jobs, table, runLog, runsShown, untold, faults>>

-----------------------------------------------------------------------------
TasksServe(i) ==
  \/ ServeListTasks(i) \/ ServeListRuns(i) \/ ServeCreateTask(i) \/ ServeUpdateTask(i)
  \/ ServeDeleteTask(i) \/ ServeRunNow(i) \/ ServeDeleteRuns(i)

TasksGoOn(i) ==
  \/ TasksCome(i) \/ TaskCreated(i) \/ TaskSet(i) \/ TaskDeleted(i) \/ RunStarted(i)
  \/ RunsCome(i) \/ RunDeleted(i) \/ LogsCleared(i) \/ TaskOrderFails(i)

TasksClick ==
  \/ RefreshTasks \/ OpenTaskForm \/ CloseTaskForm \/ SubmitTask \/ CancelDelete \/ ConfirmDelete
  \/ Expand \/ Collapse \/ RunNow \/ ClearLogs
  \/ \E t \in Task : ToggleTask(t) \/ PickTask(t)
  \/ \E r \in Run : DeleteRun(r)

TasksNext ==
  \/ TasksClick \/ Poll \/ RunBegins \/ RunSkipped \/ \E r \in Run : RunEnds(r)
  \/ \E i \in DOMAIN wire : TasksServe(i) \/ TasksGoOn(i) \/ TaskCallFails(i)

TasksSpec ==
  /\ TasksInit /\ [][TasksNext]_<<tvars, wire, faults>>
  /\ WF_<<tvars, wire, faults>>(wire # <<>> /\ (TasksServe(1) \/ TasksGoOn(1)))
  /\ WF_<<tvars, wire, faults>>(Poll) /\ WF_<<tvars, wire, faults>>(\E r \in Run : RunEnds(r))

-----------------------------------------------------------------------------
TasksTypeOK ==
  /\ chore \in Chores /\ tasks \in [Task -> {"none", "on", "off"}]
  /\ runs \in [Run -> {"none", "running", "done", "gone"}] /\ asked \in Nat
  /\ tasksShown \in [Task -> {"none", "on", "off"}]
  /\ {tasksLoading, creating, clearing, untold, crossed} \subseteq BOOLEAN
  /\ toDelete \subseteq Task /\ deletingRun \subseteq Run
  /\ runLog \in {"closed", "loading", "shown"} /\ runsShown \in [Run -> {"none", "running", "done"}]

(* The list shows the person's own changes: every handler reads it again. *)
OwnTasksListed ==
  chore = "tasks" /\ wire = <<>> /\ ~tasksLoading /\ ~untold => tasksShown = tasks

(* A run that was deleted is not shown again, unless a read of the history
   was under way with the deletion.  (The poll and the deletions write the
   same list.) *)
DeletedRunsAway ==
  wire = <<>> /\ ~crossed /\ ~untold => \A r \in Run : runs[r] = "gone" => runsShown[r] = "none"

(* A run shown as running is at last shown otherwise: the history polls as
   long as it shows one, also one that an overtaken answer brought back. *)
RunsSettle == \A r \in Run : runsShown[r] = "running" ~> runsShown[r] # "running"
=============================================================================
