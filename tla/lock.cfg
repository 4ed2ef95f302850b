SPECIFICATION LockSpec
CONSTANTS
  Thread = {t1, t2}
  NoThread = NoThread
  Call = {"Add", "Close", "WaitForEvents", "Remove", "RemoveAll", "GetEvent", "SetNonBlock", "SetCloseOnExec", "PeekEvent", "FindWatch", "GetWatchCount", "GetEnabledCount", "GetEventCount", "SetMask", "SetEnabled"}
INVARIANTS
  NoLockLeft
CHECK_DEADLOCK FALSE
