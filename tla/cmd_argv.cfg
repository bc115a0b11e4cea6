SPECIFICATION AllSpec
CONSTANTS
  Pids = {1, 2, 3}
  Images = {1, 2}
  MaxEvents = 3
  Spaced = {2}
  NameWords = {1}
  PidSize = 2
  Slack = 1
  Dirs <- SmallDirs
  ArgsOf <- SmallArgs
  EnvOf <- SmallEnv
  PathOf <- SmallPath
  ChunkLen = 3
INVARIANT ArgvTerminated
CHECK_DEADLOCK FALSE
