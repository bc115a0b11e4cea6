SPECIFICATION AllSpec
CONSTANTS
  a1 = a1
  a2 = a2
  l1 = l1
  l2 = l2
  Launches = {a1, a2}
  Launchers = {l1, l2}
  Uses <- OneLauncherEach
  Kinds <- EachKind
  parent = parent
  MaxFd = 8
  StdFds = {0}
  UserFiles = {"tty", "log", "socket", "secret"}
  Opened <- ThreeOpen
  Flagged = {1}
  Bindings <- NoConflict
  Errnos = {"E"}
  WinLaunches = {a1, a2}
  WinKinds <- EachWinKind
  Attached = attached
  Waits = {w1, w2}
  Pids = {11, 12}
  MaxHandle = 6
  Files <- WinFiles
  WinBindings <- Streams
  Codes = {0, 259}
  MaxCalls = 4
  none = none
INVARIANTS LaunchesTruthful InheritsOnlyGiven NothingLeft WaitsTruthful
PROPERTIES UserFilesStay LaunchesReturn WaitsEnd
CHECK_DEADLOCK FALSE
