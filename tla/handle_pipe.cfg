SPECIFICATION FairSpec
CONSTANTS
  o1 = o1
  o2 = o2
  w1 = w1
  w2 = w2
  Procs = {o1, o2}
  Pids = {1}
  ExitCodes = {7}
  PidReuse = FALSE
  Variant = "fd"
  Descriptor = "pipe"
  Waits = {w1, w2}
  WaitOn <- OneEach
  OneThread = FALSE
  Calls = {"interrupt", "request_exit", "suspend", "resume", "terminate", "destroy", "detach", "cancel"}
  MaxUndelivered = 1
PROPERTIES KillingReturns
CHECK_DEADLOCK FALSE
