SPECIFICATION Spec
CONSTANTS
  Names = {x, y}
  Keys <- DeepKeys
  Vals <- DeepVals
  Hash <- DeepHash
  Nans = {}
  Leafs <- DictLeafs
  Kind <- Symbols
  Fanout = 2
  Levels = 3
  Missing = Missing
  Trap = Trap
INVARIANTS WellFormed LookupsAgree DeleteIsPop EqualityIgnoresShape
PROPERTY ImplementsDict
