SPECIFICATION FairSpec
CONSTANTS
  o1 = o1
  o2 = o2
  w1 = w1
  w2 = w2
  Procs = {o1, o2}
  Pids = {1}
  ExitCodes = {7}
  PidReuse = FALSE
  Variant = "signal"
  Descriptor = "none"
  Waits = {w1, w2}
  WaitOn <- BothOnFirst
  OneThread = FALSE
  Calls = {"terminate", "destroy"}
  MaxUndelivered = 1
PROPERTIES WaitCompletes
CHECK_DEADLOCK FALSE
