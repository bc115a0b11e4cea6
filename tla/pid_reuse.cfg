SPECIFICATION FairSpec
CONSTANTS
  o1 = o1
  o2 = o2
  w1 = w1
  w2 = w2
  Procs = {o1, o2}
  Pids = {1}
  ExitCodes = {7}
  PidReuse = TRUE
  Variant = "fd_or_signal"
  Descriptor = "none"
  Waits = {w1, w2}
  WaitOn <- OneEach
  OneThread = FALSE
  Calls = {"running", "wait", "detach", "cancel"}
  MaxUndelivered = 1
INVARIANTS OnlyOwnChild ExitStatusTruthful
CHECK_DEADLOCK FALSE
