SPECIFICATION Spec
CONSTANTS
  unset = unset
  none = none
  null = null
  dangling = dangling
  NoEntry = NoEntry
  MaxBlocks = 4
  MaxCalls = 3
  Names = {x, y, z}
  Shells = {s, t}
INVARIANTS VisitsEachKey OrderCoherent TextsKept ArraysOwned
PROPERTIES IsMap
CHECK_DEADLOCK FALSE
