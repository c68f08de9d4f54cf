SPECIFICATION Spec
CONSTANTS
  Names = {x}
  Keys <- MixedKeys
  Vals <- MixedVals
  Hash <- MixedHash
  Nans = {}
  Leafs <- DictLeafs
  Kind <- Mixed
  Fanout = 2
  Levels = 2
  Missing = Missing
  Trap = Trap
INVARIANT NeverTraps
