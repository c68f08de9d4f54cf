SPECIFICATION Spec
CONSTANTS
  Tasks = {a, b}
  Main = Main
  Promises = {}
  Ops <- JoinOps
  Noop = Noop
CHECK_DEADLOCK FALSE
INVARIANT WithTasksReturns
