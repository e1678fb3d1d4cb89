SPECIFICATION Spec
CONSTANTS
  Handler = {h1, h2}
  Type = {"postgres", "mongodb", "redis"}
  Collection = {c1, c2}
  t1 = t1
  Table = {t1}
  TableOf <- OneTable
  Vector = {v1, v2}
  None = None
  MaxSynced = 1
  MaxVectors = 1
  MaxRequests = 4
  MaxFaults = 1
SYMMETRY Symmetry
INVARIANTS RecordOpens KeyOpens 
CHECK_DEADLOCK FALSE
