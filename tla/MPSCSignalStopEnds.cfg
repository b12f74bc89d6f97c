CONSTANTS
  Producer = {p1}
  Stopper = {p1}
  Worker = {w1}
  Starter = main
  Permit = FALSE
  MaxRelease = 2
  MaxAwait = 3
SPECIFICATION FairSpec
PROPERTIES StopEndsConsumer
CHECK_DEADLOCK FALSE
