SPECIFICATION FairSpec
CONSTANTS
  Key = {k1}
  Val = {v1}
  Absent = absent
  Flusher = {f1, f2}
  MaxEvents = 2
  MaxRequests = 1
  MaxFaults = 1
PROPERTIES Mirrors ChangesArrive
CHECK_DEADLOCK FALSE
