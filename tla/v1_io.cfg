SPECIFICATION AllSpec
CONSTANTS
  Modes = {"throw", "code", "ignore"}
  Forks = {"fork", "vfork"}
  Plans <- SomePlans
  MaxFd = 8
  MaxPut = 7
  WriteSize = 2
  ReadSize = 5
  FirstGet = 2
  NextGet = 1
  Capacity = 2
  Interrupts = {"put", "flush"}
  Objects = {1, 2, 3, 4}
  Types <- TypeOf
  Systems = {"posix", "windows"}
  MaxOpen = 4
INVARIANTS SuccessTruthful NothingLeft OneOwner
PROPERTIES OthersKept InvokeReturns IsChannel EndArrives
CHECK_DEADLOCK FALSE
