SPECIFICATION FairChanSpec
CONSTANTS
  Tasks = {a, b}
  Main = Main
  Promises = {}
  Ops <- ChanOps
  Noop = Noop
  Chans = {c, d}
  Msgs = {m1, m2}
INVARIANTS Fifo BlockedRecvNeverIdles ResultsMatch StuckIsCircular
PROPERTIES QueuedRuns MessageReceived
CHECK_DEADLOCK FALSE
