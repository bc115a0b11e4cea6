CONSTANTS
  a = a
  b = b
  Procs = {a, b}
  Pids = {1, 2}
  ExitCodes = {3}
  PidReuse = FALSE
  Calls <- EachHerOwn
  PidFor <- OnePidEach
  Kinds <- FirstAsks
  MaxKept = 2
  OneTimedWait = TRUE
SPECIFICATION FairSpec
INVARIANT TypeOK NoLostExit LoneStatusTruthful DispositionRestored
PROPERTY DestroyReaps KeepsPromise OnExitCalled CallsReturn
CHECK_DEADLOCK FALSE
