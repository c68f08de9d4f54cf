SPECIFICATION Spec
CONSTANTS
  Names = {x}
  Keys <- SpreadKeys
  Hash <- SpreadHash
  Kind <- Symbols
  Nans = {}
  Leafs <- SetLeafs
  Fanout = 2
  Levels = 2
  MaxSize = 4
  None = None
  Trap = Trap
INVARIANT PopNeverTraps
CHECK_DEADLOCK FALSE
