SPECIFICATION Spec
CONSTANTS
  Task = {t1}
  Expr = {e1}
  NoTask = noTask
  NoCron = noCron
  Run = {u1, u2}
  NoRun = noRun
  Runner = {r1, r2}
  Poller = {p1}
  MaxRequests = 1
  MaxRestarts = 1
  Mixed = TRUE
  EarlyRequests = FALSE
  EditTaken = TRUE
  DbFaults = TRUE
SYMMETRY Symmetry
INVARIANTS OneExecution
PROPERTY FinalIsFinal
CHECK_DEADLOCK FALSE
