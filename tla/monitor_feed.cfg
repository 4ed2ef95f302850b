SPECIFICATION Spec
CONSTANTS
  p1 = p1
  p2 = p2
  d1 = d1
  d2 = d2
  Path = {p1, p2}
  Inode = {d1, d2}
  Name = {a}
  NoInode = NoInode
  NoName = NoName
  InitNodes <- Anyhow
  MaxWd = 2
  MaxQueued = 2
  FsOps = {"create", "move_in", "retarget"}
  MaxOps = 3
  Watch <- Watch2
  NULL = NULL
  BufLen = 2
  Dirs <- TwoDirs
  Absent = Absent
  PipeCap = 1
  Failures = {"eintr", "read", "opendir"}
  EarlyChanges = TRUE
  Stops = FALSE
PROPERTIES
  ImplementsFeed
  FeedApplies
  EventsDrain
CHECK_DEADLOCK FALSE
