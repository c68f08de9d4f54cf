SPECIFICATION Spec
CONSTANTS
  Names = {x, y}
  Keys <- CollidingKeys
  Hash <- CollidingHash
  Kind <- Mixed
  Nans = {}
  Leafs <- SetLeafs
  Fanout = 2
  Levels = 2
  MaxSize = 5
  None = None
  Trap = Trap
INVARIANTS WellFormed RelationsAgree TrapsAreMixed
PROPERTY ImplementsSet
CHECK_DEADLOCK FALSE
