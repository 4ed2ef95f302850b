SPECIFICATION Spec
CONSTANTS
  Dir = {"bin"}
  Wide = {"w"}
  Typed <- MCTyped
  MaxLen = 5
  Tree <- MCTree
  Unreadable <- MCUnreadable
  Regular <- MCRegular
  Env <- MCEnv
  Home <- MCHome
  Runnable <- MCRunnable
  XdgOpen <- MCXdgOpen
  Launchable <- MCLaunchable
  Listings <- MCListings
  Name <- MCName
  Presses = 2
  MaxNews = 1
INVARIANTS
  TypeOK
  RowsAreCurrent
  HistoryIsWhatRan
  AbortsOnlyOnBadText
PROPERTIES
  CompletionKeepsTyped
CHECK_DEADLOCK FALSE
