SPECIFICATION HSpec
CONSTANTS
  p1 = p1
  p2 = p2
  d1 = d1
  d2 = d2
  Path = {p1, p2}
  Inode = {d1, d2}
  Name = {a, b}
  NoInode = NoInode
  NoName = NoName
  InitNodes <- Anyhow
  MaxWd = 2
  MaxQueued = 2
  FsOps = {"create", "delete", "move_in", "move_out", "rename", "rmdir"}
  MaxOps = 2
  Watch <- Watch2
  NULL = NULL
  BufLen = 2
  Dirs <- TwoDirs
  Absent = Absent
  PipeCap = 2
  Failures = {"opendir", "init", "read", "eintr"}
  EarlyChanges = TRUE
  Stops = TRUE
INVARIANTS
  TypeOK
  WatchTablesAgree
  NoOrphanKernelWatch
  NoEventStranded
  CountIsExact
  OneReadAfterStop
  NamesWereThere
SYMMETRY Alike
CHECK_DEADLOCK FALSE
