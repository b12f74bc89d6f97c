CONSTANTS
  d1 = d1
  d2 = d2
  w1 = w1
  w2 = w2
  Dev = {d1, d2}
  Poller = poller
  Closer = closer
  Worker = {w1, w2}
  Kinds <- SomeKinds
  LoopLocked = TRUE
SPECIFICATION FairSpec
INVARIANTS Safety
PROPERTIES IterationStable DataReceived CancelEnds ShutdownEnds
CHECK_DEADLOCK FALSE
