SPECIFICATION Spec
CONSTANTS
  Folder = {f1, f2}
  File = {x1}
  Top = top
  Name = {a, b}
  RootName = s
  Handler = {h1}
  Gone = gone
  Keep = keep
  Hdd = hdd
  Nowhere = nowhere
  Indexed = {x1}
  MaxDepth = 3
  MaxTasks = 2
  MaxFaults = 1
SYMMETRY Symmetry
INVARIANTS RowsMatchDisk 
CHECK_DEADLOCK FALSE
