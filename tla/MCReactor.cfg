CONSTANTS
  Jobs = {j1, j2}
  Timers = {t1, t2}
  Fds = {f1, f2}
  None = None
  WaitEvents = {"READ"}
  Delays = {1}
  MaxLag = 1
  MaxDepth = 3
  MaxOps = 3
SPECIFICATION FairSpec
CHECK_DEADLOCK FALSE
INVARIANTS
  LoopAgrees
PROPERTIES
  SyncRunsWhatItSetOff
  NoStaleEvent
  DueTimersRun
