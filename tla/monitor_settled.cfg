SPECIFICATION Spec
CONSTANTS
  p1 = p1
  p2 = p2
  d1 = d1
  d2 = d2
  Path = {p1, p2}
  Inode = {d1, d2}
  Name = {a, b}
  NoInode = NoInode
  NoName = NoName
  InitNodes <- Distinct
  MaxWd = 2
  MaxQueued = 10
  FsOps = {"create", "move_in", "rmdir"}
  MaxOps = 2
  Watch <- Watch2
  NULL = NULL
  BufLen = 2
  Dirs <- TwoDirs
  Absent = Absent
  PipeCap = 1
  Failures = {"eintr", "read"}
  EarlyChanges = FALSE
  Stops = TRUE
INVARIANTS
  ListingMatchesDirectory
PROPERTIES
  StopTakesEffect
  CallReturns
CHECK_DEADLOCK FALSE
