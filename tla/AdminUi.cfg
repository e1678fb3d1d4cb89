SPECIFICATION AdminSpec
CONSTANTS
  item1 = item1
  item2 = item2
  d1 = d1
  d2 = d2
  pub = pub
  tbl = tbl
  colx = colx
  coly = coly
  c1 = c1
  c2 = c2
  kid = kid
  run = run
  Item = {item1, item2}
  Home = item1
  Mongo = item1
  NoItem = NoItem
  MaxIndexes = 1
  Parts <- Lone
  Name = {d1, d2, pub, tbl, colx, coly}
  None = None
  Public = pub
  Catalog <- Paths
  Primary = {colx}
  Coll = {c1, c2}
  Engines = {"mongodb", "postgres"}
  Db = {d1, d2}
  Kid = {kid}
  Seed = kid
  Protected = d1
  Managed = kid
  Works = {"tree", "panel", "indexes"}
  Task = {item1, item2}
  Run = {run}
  Own = item1
  Polls = 1
  MaxAsked = 1
  Chores = {"tasks", "runs"}
  MaxCalls = 2
  MaxFaults = 1
INVARIANTS OwnChangesListed NewKeyShown IdColumnOfTable
   OwnTreeChanges DeletedRunsAway
PROPERTY RunsSettle
CHECK_DEADLOCK FALSE
