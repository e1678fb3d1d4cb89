SPECIFICATION FairSpec
CONSTANTS
  Upload = {u1, u2}
  Path = {p1, p2}
  FileId = {h1}
  NoPath = noPath
  NoFile = noFile
  NoRow = noRow
  Nowhere = nowhere
  Size = 2
  MaxChunk = 1
  CopyTiers = {"hdd"}
  Patch = {c1}
  Deleter = {d1}
  MaxRestarts = 1
  SameTarget = FALSE
  Overlap = FALSE
  LateRequests = {u1}
  FolderRaces = FALSE
  ShortWrites = FALSE
  ExcessAborts = FALSE
  DbFaults = TRUE
INVARIANTS UploadsKept ResumePoint 
PROPERTY OffsetForward UploadsEnd
CHECK_DEADLOCK FALSE
