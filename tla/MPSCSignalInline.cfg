CONSTANTS
  Producer = {p1, p2}
  Stopper = {}
  Worker = {}
  Starter = main
  Permit = TRUE
  MaxRelease = 4
  MaxAwait = 4
SPECIFICATION FairSpec
INVARIANTS Safety
PROPERTIES EveryReleaseCounts ImplementsUnsafeSignal
CHECK_DEADLOCK FALSE
