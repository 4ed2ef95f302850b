SPECIFICATION Spec
CONSTANTS
  p1 = p1
  p2 = p2
  d1 = d1
  d2 = d2
  Path = {p1}
  Inode = {d1}
  Name = {a, b}
  NoInode = NoInode
  NoName = NoName
  InitNodes <- Single
  MaxWd = 2
  MaxQueued = 10
  FsOps = {"create"}
  MaxOps = 1
  Watch <- Watch1
  NULL = NULL
  BufLen = 2
  Dirs <- OneDir
  Absent = Absent
  PipeCap = 2
  Failures = {}
  EarlyChanges = FALSE
  Stops = FALSE
INVARIANTS
  RunsInBackground
CHECK_DEADLOCK FALSE
