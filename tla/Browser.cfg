SPECIFICATION FairSpec
CONSTANTS
  f1 = f1
  f2 = f2
  a = a
  b = b
  u1 = u1
  u2 = u2
  Folder = {f1, f2}
  Item = {a, b, u1, u2}
  Upload = {u1, u2}
  Query = {q1, q2}
  None = None
  Asked = Asked
  Start <- OneFile
  Size <- Chunks
  MaxActs = 3
  MaxFaults = 1
INVARIANTS OwnChangesShown
PROPERTIES LoadingEnds
CHECK_DEADLOCK FALSE
