SPECIFICATION Spec
CONSTANTS
  Coll = {c1}
  Key = {k1, k2}
  Val = {v1}
  Absent = absent
  Fiber = {f1}
  None = none
  MaxId = 3
  MaxRequests = 1
  BatchSize = 2
  OrderedCommits = TRUE
  KeyReuse = FALSE
  ResyncOverlap = FALSE
  StatusWriteFails = TRUE
SYMMETRY Symmetry
INVARIANTS TypeOK NoStaleAfterFirstFill 
CHECK_DEADLOCK FALSE
