CONSTANTS
  NFrames = 5
  User = user
  Poller = poller
  Worker = {w1, w2}
  MaxSuspend = 2
SPECIFICATION FairSpec
INVARIANTS FramesSound ContextsSound NothingLeaks
CHECK_DEADLOCK FALSE
PROPERTIES CancelDrains
