SPECIFICATION Spec
CONSTANTS
  Client = {c1, c2}
  Request = {r1, r2}
  Role = {"user", "superuser"}
  None = None
  MaxIds = 1
  MaxKeys = 2
  MaxBatches = 2
  MaxFaults = 1
SYMMETRY Symmetry
INVARIANTS SecondFactorUsable  CodesUsedOnce
CHECK_DEADLOCK FALSE
