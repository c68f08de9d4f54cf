SPECIFICATION Spec
CONSTANTS
  Tasks = {a, b}
  Main = Main
  Promises = {p}
  Ops <- AllOps
  Noop = Noop
CHECK_DEADLOCK FALSE
INVARIANTS TypeOK OneHome ReturnedOnce Handoff ParkedIsLive ExitsWhenIdle
PROPERTY ImplementsExecutor
