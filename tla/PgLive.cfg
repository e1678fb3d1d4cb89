SPECIFICATION FairSpec
CONSTANTS
  Coll = {c1}
  Key = {k1}
  Val = {v1, v2}
  Absent = absent
  Fiber = {f1}
  None = none
  MaxId = 3
  MaxRequests = 1
  BatchSize = 2
  OrderedCommits = TRUE
  KeyReuse = FALSE
  ResyncOverlap = FALSE
  StatusWriteFails = FALSE
  
PROPERTIES GcOnlyApplied 
CHECK_DEADLOCK FALSE
