SPECIFICATION FairSpec
CONSTANTS
  o1 = o1
  o2 = o2
  w1 = w1
  w2 = w2
  Procs = {o1, o2}
  Pids = {1, 2}
  ExitCodes = {7}
  PidReuse = FALSE
  Variant = "fd"
  Descriptor = "pidfd"
  Waits = {w1, w2}
  WaitOn <- BothOnFirst
  OneThread = FALSE
  Calls = {"running", "terminate", "destroy", "detach", "cancel"}
  MaxUndelivered = 1
INVARIANTS HandlerNeverBlocks ChildIsFound
PROPERTIES DestroyReaps CancelCompletes
CHECK_DEADLOCK FALSE
