SPECIFICATION FairSpec
CONSTANTS
  Task = {t1}
  Expr = {e1, e2}
  NoTask = noTask
  NoCron = noCron
  Run = {u1, u2}
  NoRun = noRun
  Runner = {r1, r2}
  Poller = {p1}
  MaxRequests = 1
  MaxRestarts = 2
  Mixed = FALSE
  EarlyRequests = FALSE
  EditTaken = FALSE
  DbFaults = FALSE
INVARIANTS CronMirrors RunningIsExecuted OneOffOnce
PROPERTIES RunsEnd DueIsTaken
CHECK_DEADLOCK FALSE
