---------------------------- MODULE TaskScheduler ----------------------------
(***************************************************************************)
(* Scheduled tasks of the admin API (scheduler.ts, routes/tasks.ts,        *)
(* services/tasks.ts).                                                     *)
(*                                                                         *)
(* A task row says when the task is due: a cron expression, a date, or     *)
(* both.  The process keeps a Cron object for every enabled recurring task *)
(* (activeCrons) and polls the rows for one-off tasks that are due.  Cron  *)
(* objects, polls and the "run now" route all call runTask, which keeps    *)
(* the tasks being run in activeRuns and records each run as a row.        *)
(*                                                                         *)
(* Every await is an action boundary: routes, polls, runs and the startup  *)
(* interleave there, and the process may stop and start again anywhere.    *)
(* nextRunAt is only displayed and is left out.                            *)
(***************************************************************************)
EXTENDS FiniteSets, Naturals

CONSTANTS
  Task,              \* tasks
  NoTask,            \* no task
  Expr,              \* cron expressions
  NoCron,            \* no cron expression, no Cron object
  Run,               \* ids of run rows
  NoRun,             \* no run row yet
  Runner,            \* slots for overlapping calls of runTask
  Poller,            \* slots for overlapping polls
  MaxRequests,       \* bound: admin requests between two awaits
  MaxRestarts,       \* bound: restarts of the process
  Mixed,             \* a task may have both a cron expression and a date
  EarlyRequests,     \* requests are served while the scheduler is starting
  EditTaken,         \* a task may be edited while a run or a poll has it in hand
  DbFaults           \* calls of a run or a poll to the database may fail

ASSUME SchedulerAssumption ==
  /\ NoCron \notin Expr /\ NoRun \notin Run /\ NoTask \notin Task
  /\ MaxRequests \in Nat /\ MaxRestarts \in Nat
  /\ Mixed \in BOOLEAN /\ EarlyRequests \in BOOLEAN
  /\ EditTaken \in BOOLEAN /\ DbFaults \in BOOLEAN

VARIABLES
  \* the control database
  row,         \* scheduled_tasks
  runs,        \* task_runs
  \* the process
  crons,       \* activeCrons: the expression of the task's Cron object
  activeRuns,  \* tasks that runTask considers running
  runner,      \* calls of runTask
  poller,      \* calls of pollOneOffTasks
  timer,       \* is the interval of the polls set
  boot,        \* progress of startScheduler
  selected,    \* rows startScheduler has read
  requests,    \* requests that have one more step to do
  restarts,
  \* history
  past         \* how often the date of a task that nobody edited started it

store == <<row, runs>>
starting == <<timer, boot, selected, restarts>>
vars == <<store, crons, activeRuns, runner, poller, starting, requests, past>>

(***************************************************************************)
(* Types and helpers                                                       *)
(***************************************************************************)

Cron == Expr \cup {NoCron}

TaskRow == [state : {"none", "live", "gone"}, cron : Cron,
            at : {"none", "future", "due"}, enabled : BOOLEAN]

RunRow == [task : Task \cup {NoTask}, status : {"unused", "running", "completed", "failed", "deleted"},
           interrupted : BOOLEAN]

IdleRunner == [pc |-> "idle", task |-> NoTask, run |-> NoRun, recurring |-> FALSE]
RunnerState ==
  {IdleRunner} \cup [pc : {"get", "create", "exec", "complete", "meta", "fail"},
                    task : Task, run : Run \cup {NoRun}, recurring : BOOLEAN]

IdlePoller == [pc |-> "idle", due |-> {}, task |-> NoTask, boot |-> FALSE]
PollerState ==
  {IdlePoller} \cup [pc : {"select", "loop"}, due : SUBSET Task,
                    task : Task \cup {NoTask}, boot : BOOLEAN]
               \cup [pc : {"run"}, due : SUBSET Task, task : Task, boot : BOOLEAN]

(* A request whose row has been written and that still has to tell the     *)
(* scheduler, or a delete that has told it and still has to erase the row. *)
Request == [step : {"apply"}, task : Task, cron : Cron, enabled : BOOLEAN]
           \cup [step : {"erase"}, task : Task]

Live(t) == row[t].state = "live"

(* (mutant) The poll does not ask whether the task is enabled.             *)
DueAnyway(t) == Live(t) /\ row[t].at = "due"

Due(t) == Live(t) /\ row[t].enabled /\ row[t].at = "due"

(* A run of the task is in progress, or a poll is about to start one.      *)
Taken(t) ==
  \/ \E r \in Runner : runner[r].pc # "idle" /\ runner[r].task = t
  \/ \E p \in Poller : t \in poller[p].due \/ (poller[p].pc = "run" /\ poller[p].task = t)

(* scheduleCronTask: the old Cron object is stopped in any case.           *)
Scheduled(t, cron, enabled) ==
  crons' = [crons EXCEPT ![t] = IF enabled THEN cron ELSE NoCron]

Init ==
  /\ row = [t \in Task |-> [state |-> "none", cron |-> NoCron, at |-> "none",
                            enabled |-> TRUE]]
  /\ runs = [i \in Run |-> [task |-> NoTask, status |-> "unused", interrupted |-> FALSE]]
  /\ crons = [t \in Task |-> NoCron]
  /\ activeRuns = {}
  /\ runner = [r \in Runner |-> IdleRunner]
  /\ poller = [p \in Poller |-> IdlePoller]
  /\ timer = FALSE /\ boot = "mark" /\ selected = {} /\ requests = {}
  /\ restarts = 0
  /\ past = [t \in Task |-> "waiting"]

(***************************************************************************)
(* runTask                                                                 *)
(***************************************************************************)

(* The synchronous head of runTask: skip a task that is running.           *)
BeginRun(t) ==
  IF t \in activeRuns THEN UNCHANGED <<activeRuns, runner>>
  ELSE /\ \E r \in Runner :
            /\ runner[r].pc = "idle"
            /\ runner' = [runner EXCEPT ![r] = [IdleRunner EXCEPT !.pc = "get", !.task = t]]
       /\ activeRuns' = activeRuns \cup {t}

(* (mutant) No finally: a run that finds no task stays in activeRuns.      *)
EndRunLeaks(r) ==
  /\ runner' = [runner EXCEPT ![r] = IdleRunner]
  /\ activeRuns' = IF runner[r].pc = "get" THEN activeRuns ELSE activeRuns \ {runner[r].task}

EndRun(r) ==
  /\ runner' = [runner EXCEPT ![r] = IdleRunner]
  /\ activeRuns' = activeRuns \ {runner[r].task}

GoOn(r, step) ==
  /\ runner' = [runner EXCEPT ![r].pc = step]
  /\ UNCHANGED activeRuns

SetRun(i, status) == runs' = [runs EXCEPT ![i].status = status]
HasRow(r) == runs[runner[r].run].status # "deleted"

RunGetTask(r) ==
  /\ runner[r].pc = "get"
  /\ IF Live(runner[r].task)
     THEN /\ runner' = [runner EXCEPT ![r].pc = "create",
                                      ![r].recurring = row[runner[r].task].cron # NoCron]
          /\ UNCHANGED activeRuns
     ELSE EndRun(r)
  /\ UNCHANGED <<store, crons, poller, starting, requests, past>>

(* The foreign key refuses a run of a task that is gone.                   *)
RunCreate(r) ==
  /\ runner[r].pc = "create"
  /\ IF Live(runner[r].task)
     THEN \E i \in Run :
            /\ runs[i].status = "unused"
            /\ runs' = [runs EXCEPT ![i].status = "running", ![i].task = runner[r].task]
            /\ runner' = [runner EXCEPT ![r].pc = "exec", ![r].run = i]
            /\ UNCHANGED activeRuns
     ELSE EndRun(r) /\ UNCHANGED runs
  /\ UNCHANGED <<row, crons, poller, starting, requests, past>>

RunExecute(r) ==
  /\ runner[r].pc = "exec"
  /\ GoOn(r, "complete") \/ GoOn(r, "fail")
  /\ UNCHANGED <<store, crons, poller, starting, requests, past>>

RunComplete(r) ==
  /\ runner[r].pc = "complete"
  /\ IF HasRow(r) THEN SetRun(runner[r].run, "completed") /\ GoOn(r, "meta")
                  ELSE UNCHANGED runs /\ GoOn(r, "fail")
  /\ UNCHANGED <<row, crons, poller, starting, requests, past>>

(* A task that was not recurring when the run began is now disabled.       *)
RunFinish(r) ==
  /\ runner[r].pc = "meta"
  /\ IF ~runner[r].recurring /\ Live(runner[r].task)
     THEN row' = [row EXCEPT ![runner[r].task].enabled = FALSE]
     ELSE UNCHANGED row
  /\ EndRun(r)
  /\ UNCHANGED <<runs, crons, poller, starting, requests, past>>

(* (mutant) The catch block only logs.                                     *)
RunFailLogged(r) ==
  /\ runner[r].pc = "fail"
  /\ EndRun(r)
  /\ UNCHANGED <<store, crons, poller, starting, requests, past>>

RunFail(r) ==
  /\ runner[r].pc = "fail"
  /\ IF HasRow(r) THEN SetRun(runner[r].run, "failed") ELSE UNCHANGED runs
  /\ EndRun(r)
  /\ UNCHANGED <<row, crons, poller, starting, requests, past>>

(* (mutant) An error after the completion reaches the outer catch block.   *)
RunDbFailsLate(r) ==
  /\ DbFaults
  /\ \/ runner[r].pc \in {"get", "create", "fail"} /\ EndRun(r)
     \/ runner[r].pc \in {"complete", "meta"} /\ GoOn(r, "fail")
  /\ UNCHANGED <<store, crons, poller, starting, requests, past>>

(* A call to the database throws: before the run has a row the run just    *)
(* ends, a failed completion is recorded as a failure, a failure that      *)
(* cannot be recorded leaves the row as it is.                             *)
RunDbFails(r) ==
  /\ DbFaults
  /\ \/ runner[r].pc \in {"get", "create", "meta", "fail"} /\ EndRun(r)
     \/ runner[r].pc = "complete" /\ GoOn(r, "fail")
  /\ UNCHANGED <<store, crons, poller, starting, requests, past>>

(***************************************************************************)
(* Cron objects and one-off polls                                          *)
(***************************************************************************)

CronFires(t) ==
  /\ crons[t] # NoCron
  /\ BeginRun(t)
  /\ UNCHANGED <<store, crons, poller, starting, requests, past>>

(* A date arrives.                                                         *)
Elapse(t) ==
  /\ Live(t) /\ row[t].at = "future"
  /\ row' = [row EXCEPT ![t].at = "due"]
  /\ UNCHANGED <<runs, crons, activeRuns, runner, poller, starting, requests, past>>

PollBegin(p) ==
  /\ timer /\ poller[p].pc = "idle"
  /\ poller' = [poller EXCEPT ![p] = [IdlePoller EXCEPT !.pc = "select"]]
  /\ UNCHANGED <<store, crons, activeRuns, runner, starting, requests, past>>

(* The poll is over.  The first one belongs to startScheduler, which sets  *)
(* the interval only if that poll did not throw.                           *)
EndPoll(p, threw) ==
  /\ poller' = [poller EXCEPT ![p] = IdlePoller]
  /\ IF poller[p].boot
     THEN timer' = ~threw /\ boot' = IF threw THEN "failed" ELSE "done"
     ELSE UNCHANGED <<timer, boot>>
  /\ UNCHANGED <<selected, restarts>>

PollSelect(p) ==
  /\ poller[p].pc = "select"
  /\ LET due == {t \in Task : Due(t)} IN
     IF due = {} THEN EndPoll(p, FALSE)
     ELSE poller' = [poller EXCEPT ![p].pc = "loop", ![p].due = due] /\ UNCHANGED starting
  /\ UNCHANGED <<store, crons, activeRuns, runner, requests, past>>

(* (mutant) The row stays enabled until the run is over.                   *)
PollDisableLater(p) ==
  /\ poller[p].pc = "loop"
  /\ \E t \in poller[p].due :
       poller' = [poller EXCEPT ![p].pc = "run", ![p].due = @ \ {t}, ![p].task = t]
  /\ UNCHANGED <<store, crons, activeRuns, runner, starting, requests, past>>

(* updateTask throws when the task is gone, and the poll with it.          *)
PollDisable(p) ==
  /\ poller[p].pc = "loop"
  /\ \E t \in poller[p].due :
       IF Live(t)
       THEN /\ row' = [row EXCEPT ![t].enabled = FALSE]
            /\ poller' = [poller EXCEPT ![p].pc = "run", ![p].due = @ \ {t}, ![p].task = t]
            /\ UNCHANGED starting
       ELSE EndPoll(p, TRUE) /\ UNCHANGED row
  /\ UNCHANGED <<runs, crons, activeRuns, runner, requests, past>>

Started(h) == CASE h = "waiting" -> "started" [] h = "started" -> "again" [] OTHER -> h

PollRun(p) ==
  LET t == poller[p].task IN
  /\ poller[p].pc = "run"
  /\ BeginRun(t)
  /\ past' = IF t \in activeRuns THEN past ELSE [past EXCEPT ![t] = Started(@)]
  /\ IF poller[p].due = {} THEN EndPoll(p, FALSE)
     ELSE poller' = [poller EXCEPT ![p].pc = "loop"] /\ UNCHANGED starting
  /\ UNCHANGED <<store, crons, requests>>

PollFails(p) ==
  /\ DbFaults /\ poller[p].pc \in {"select", "loop"}
  /\ EndPoll(p, TRUE)
  /\ UNCHANGED <<store, crons, activeRuns, runner, requests, past>>

(***************************************************************************)
(* Routes                                                                  *)
(***************************************************************************)

Serving == EarlyRequests \/ boot \in {"done", "failed", "stopped"}
NewRequest == Serving /\ Cardinality(requests) < MaxRequests

Apply(t, cron, enabled) == [step |-> "apply", task |-> t, cron |-> cron, enabled |-> enabled]

CreateTask(t, cron, at) ==
  /\ row[t].state = "none" /\ NewRequest
  /\ cron # NoCron \/ at # "none"
  /\ Mixed \/ cron = NoCron \/ at = "none"
  /\ row' = [row EXCEPT ![t] = [state |-> "live", cron |-> cron, at |-> at, enabled |-> TRUE]]
  /\ requests' = IF cron = NoCron THEN requests ELSE requests \cup {Apply(t, cron, TRUE)}
  /\ UNCHANGED <<runs, crons, activeRuns, runner, poller, starting, past>>

EditTask(t, cron, at, enabled) ==
  /\ Live(t) /\ NewRequest
  /\ EditTaken \/ ~Taken(t)
  /\ Mixed \/ cron = NoCron \/ at = "none"
  /\ row' = [row EXCEPT ![t].cron = cron, ![t].at = at, ![t].enabled = enabled]
  /\ requests' = requests \cup {Apply(t, cron, enabled)}
  /\ past' = [past EXCEPT ![t] = "edited"]
  /\ UNCHANGED <<runs, crons, activeRuns, runner, poller, starting>>

(* (mutant) An edit that leaves a task disabled keeps its Cron object.     *)
ApplyEnabledOnly(q) ==
  /\ q \in requests /\ q.step = "apply"
  /\ crons' = IF q.enabled THEN [crons EXCEPT ![q.task] = q.cron] ELSE crons
  /\ requests' = requests \ {q}
  /\ UNCHANGED <<store, activeRuns, runner, poller, starting, past>>

ApplyRequest(q) ==
  /\ q \in requests /\ q.step = "apply"
  /\ Scheduled(q.task, q.cron, q.enabled)
  /\ requests' = requests \ {q}
  /\ UNCHANGED <<store, activeRuns, runner, poller, starting, past>>

DeleteTask(t) ==
  /\ Live(t) /\ NewRequest
  /\ crons' = [crons EXCEPT ![t] = NoCron]
  /\ requests' = requests \cup {[step |-> "erase", task |-> t]}
  /\ UNCHANGED <<store, activeRuns, runner, poller, starting, past>>

(* The runs of the task go with it.                                        *)
EraseTask(q) ==
  /\ q \in requests /\ q.step = "erase"
  /\ row' = [row EXCEPT ![q.task].state = "gone"]
  /\ runs' = [i \in Run |-> IF runs[i].task = q.task /\ runs[i].status # "unused"
                            THEN [runs[i] EXCEPT !.status = "deleted"] ELSE runs[i]]
  /\ requests' = requests \ {q}
  /\ UNCHANGED <<crons, activeRuns, runner, poller, starting, past>>

RunNow(t) ==
  /\ Live(t) /\ Serving
  /\ BeginRun(t)
  /\ UNCHANGED <<store, crons, poller, starting, requests, past>>

DeleteRun(i) ==
  /\ runs[i].status \in {"running", "completed", "failed"} /\ Serving
  /\ SetRun(i, "deleted")
  /\ UNCHANGED <<row, crons, activeRuns, runner, poller, starting, requests, past>>

DeleteRuns(t) ==
  /\ Live(t) /\ Serving
  /\ runs' = [i \in Run |-> IF runs[i].task = t /\ runs[i].status # "unused"
                            THEN [runs[i] EXCEPT !.status = "deleted"] ELSE runs[i]]
  /\ UNCHANGED <<row, crons, activeRuns, runner, poller, starting, requests, past>>

(***************************************************************************)
(* The process starts and stops                                            *)
(***************************************************************************)

(* (mutant) Only rows still pending are closed.                            *)
BootMarkNone ==
  /\ boot = "mark" /\ boot' = "select"
  /\ UNCHANGED <<store, crons, activeRuns, runner, poller, timer, selected, restarts,
                 requests, past>>

(* markInterruptedTaskRuns                                                 *)
BootMark ==
  /\ boot = "mark" /\ boot' = "select"
  /\ runs' = [i \in Run |-> IF runs[i].status = "running"
                            THEN [runs[i] EXCEPT !.status = "failed", !.interrupted = TRUE]
                            ELSE runs[i]]
  /\ UNCHANGED <<row, crons, activeRuns, runner, poller, timer, selected, restarts,
                 requests, past>>

BootSelect ==
  /\ boot = "select" /\ boot' = "arm"
  /\ selected' = {r \in Task \X Expr :
                     Live(r[1]) /\ row[r[1]].enabled /\ row[r[1]].cron = r[2]}
  /\ UNCHANGED <<store, crons, activeRuns, runner, poller, timer, restarts, requests, past>>

(* One Cron object per selected row, then the first poll.                  *)
BootArm ==
  /\ boot = "arm" /\ boot' = "poll"
  /\ crons' = [t \in Task |-> IF \E e \in Expr : <<t, e>> \in selected
                             THEN CHOOSE e \in Expr : <<t, e>> \in selected ELSE crons[t]]
  /\ \E p \in Poller :
       /\ poller[p].pc = "idle"
       /\ poller' = [poller EXCEPT ![p] = [IdlePoller EXCEPT !.pc = "select", !.boot = TRUE]]
  /\ selected' = {}
  /\ UNCHANGED <<store, activeRuns, runner, timer, restarts, requests, past>>

BootFails ==
  /\ DbFaults /\ boot \in {"mark", "select"} /\ boot' = "failed"
  /\ UNCHANGED <<store, crons, activeRuns, runner, poller, timer, selected, restarts,
                 requests, past>>

(* stopScheduler, on a signal: what is in progress goes on until the exit. *)
Stop ==
  /\ boot \in {"done", "failed"} /\ boot' = "stopped"
  /\ crons' = [t \in Task |-> NoCron] /\ timer' = FALSE
  /\ UNCHANGED <<store, activeRuns, runner, poller, selected, restarts, requests, past>>

(* The process ends, at any point, and another one begins.                 *)
Restart ==
  /\ restarts < MaxRestarts /\ restarts' = restarts + 1
  /\ crons' = [t \in Task |-> NoCron] /\ activeRuns' = {}
  /\ runner' = [r \in Runner |-> IdleRunner]
  /\ poller' = [p \in Poller |-> IdlePoller]
  /\ timer' = FALSE /\ boot' = "mark" /\ selected' = {} /\ requests' = {}
  /\ UNCHANGED <<store, past>>

-----------------------------------------------------------------------------

RunTask(r) == \/ RunGetTask(r) \/ RunCreate(r) \/ RunExecute(r) \/ RunComplete(r)
              \/ RunFinish(r) \/ RunFail(r) \/ RunDbFails(r)

Poll(p) == PollSelect(p) \/ PollDisable(p) \/ PollRun(p) \/ PollFails(p)

Route(t) ==
  \/ \E cron \in Cron, at \in {"none", "future"} : CreateTask(t, cron, at)
  \/ \E cron \in Cron, at \in {"none", "future", row[t].at}, enabled \in BOOLEAN :
       EditTask(t, cron, at, enabled)
  \/ DeleteTask(t) \/ RunNow(t) \/ DeleteRuns(t)

Continue(q) == ApplyRequest(q) \/ EraseTask(q)

Boot == BootMark \/ BootSelect \/ BootArm \/ BootFails

Next == \/ \E r \in Runner : RunTask(r)
        \/ \E t \in Task : CronFires(t) \/ Elapse(t) \/ Route(t)
        \/ \E p \in Poller : PollBegin(p) \/ Poll(p)
        \/ \E q \in requests : Continue(q)
        \/ \E i \in Run : DeleteRun(i)
        \/ Boot \/ Stop \/ Restart

Spec == Init /\ [][Next]_vars

(* Awaited calls return, executors end, dates arrive, the interval fires.  *)
FairSpec ==
  /\ Spec
  /\ \A r \in Runner : WF_vars(RunTask(r))
  /\ \A p \in Poller : WF_vars(PollBegin(p)) /\ WF_vars(Poll(p))
  /\ \A t \in Task : WF_vars(Elapse(t))
  /\ WF_vars(\E q \in requests : Continue(q))
  /\ WF_vars(Boot)

(***************************************************************************)
(* Properties                                                              *)
(***************************************************************************)

TypeOK ==
  /\ row \in [Task -> TaskRow]
  /\ runs \in [Run -> RunRow]
  /\ crons \in [Task -> Cron]
  /\ activeRuns \in SUBSET Task
  /\ runner \in [Runner -> RunnerState]
  /\ poller \in [Poller -> PollerState]
  /\ timer \in BOOLEAN
  /\ boot \in {"mark", "select", "arm", "poll", "done", "failed", "stopped"}
  /\ selected \in SUBSET (Task \X Expr)
  /\ requests \in SUBSET Request
  /\ restarts \in 0 .. MaxRestarts
  /\ past \in [Task -> {"waiting", "started", "again", "edited"}]

InHand(r) == runner[r].pc \in {"exec", "complete", "fail"}

(* Once the startup has closed the runs of the process before, a run row   *)
(* says "running" only while a call of runTask works on it, and no task    *)
(* has two such rows, whoever starts it and whenever the process restarts. *)
RunningIsExecuted ==
  boot # "mark" =>
    /\ \A i \in Run : runs[i].status = "running" =>
         \E r \in Runner : InHand(r) /\ runner[r].run = i
    /\ \A i, j \in Run :
         runs[i].status = "running" /\ runs[j].status = "running" /\ runs[i].task = runs[j].task
           => i = j

(* No two calls of runTask work on one task, and activeRuns holds exactly  *)
(* the tasks in work.                                                      *)
OneExecution ==
  /\ \A r, s \in Runner :
       runner[r].pc # "idle" /\ runner[s].pc # "idle" /\ runner[r].task = runner[s].task => r = s
  /\ activeRuns = {runner[r].task : r \in {s \in Runner : runner[s].pc # "idle"}}

(* The outcome of a run is final: only deleting the row changes it.        *)
OutcomesKept ==
  \A i \in Run : runs[i].status \in {"completed", "failed"} =>
    runs'[i].status \in {runs[i].status, "deleted"}
FinalIsFinal == [][OutcomesKept]_vars

(* When startup and requests are through, the process has a Cron object    *)
(* for a task exactly when the row says so, with the row's expression,     *)
(* whatever edits, deletions, runs and restarts came before.               *)
CronMirrors ==
  boot = "done" /\ requests = {} =>
    \A t \in Task :
      crons[t] = IF Live(t) /\ row[t].enabled THEN row[t].cron ELSE NoCron

(* A run that was closed as interrupted is not being executed.             *)
(* (Violated when a task is run while the scheduler is still starting.)    *)
InterruptedIsOver ==
  \A i \in Run, r \in Runner : runs[i].interrupted => ~(InHand(r) /\ runner[r].run = i)

(* The date of a task that nobody edits starts it at most once.            *)
OneOffOnce == \A t \in Task : past[t] # "again"

(* Every run is closed in the end, whatever stops the process meanwhile.   *)
RunsEnd == \A i \in Run : runs[i].status = "running" ~> runs[i].status # "running"

(* While the interval of the polls is set, every task that is due is taken *)
(* up: its row is disabled, changed or gone.                               *)
DueIsTaken == \A t \in Task : <>[]timer => (Due(t) ~> ~Due(t))

(* And such a task is started.  (Violated: runTask skips it when a run is  *)
(* in progress, and the row is disabled already.)                          *)
OneOffRuns ==
  \A t \in Task :
    <>[]timer => (Due(t) /\ past[t] = "waiting" ~> past[t] # "waiting" \/ ~Live(t))

=============================================================================
