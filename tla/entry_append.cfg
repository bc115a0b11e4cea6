SPECIFICATION Spec
CONSTANTS
  unset = unset
  none = none
  null = null
  dangling = dangling
  NoEntry = NoEntry
  MaxBlocks = 4
  MaxCalls = 4
  Names = {x, y, z}
  Shells = {s, t}
PROPERTIES AppendKeeps
CHECK_DEADLOCK FALSE
