SPECIFICATION ClientSpec
CONSTANTS
  p1 = p1
  p2 = p2
  d1 = d1
  d2 = d2
  Path = {p1, p2}
  Inode = {d1, d2}
  Name = {a}
  NoInode = NoInode
  NoName = NoName
  InitNodes <- Resolutions
  MaxWd = 2
  MaxQueued = 10
  FsOps = {"create"}
  MaxOps = 1
  Watch <- Watch2
  NULL = NULL
  BufLen = 2
  Lawful = TRUE
INVARIANTS
  NoWildPointer
CHECK_DEADLOCK FALSE
