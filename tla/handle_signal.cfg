SPECIFICATION FairSpec
CONSTANTS
  o1 = o1
  o2 = o2
  w1 = w1
  w2 = w2
  Procs = {o1, o2}
  Pids = {1, 2}
  ExitCodes = {7}
  PidReuse = FALSE
  Variant = "signal"
  Descriptor = "none"
  Waits = {w1, w2}
  WaitOn <- BothOnFirst
  OneThread = TRUE
  Calls = {"terminate", "detach", "cancel"}
  MaxUndelivered = 1
INVARIANTS TypeOK CompletionTruthful NoLostWakeup
PROPERTIES KeepsPromise WaitCompletes
CHECK_DEADLOCK FALSE
