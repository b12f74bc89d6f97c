CONSTANTS
  Mask = 3
  Worker = {w1,w2}
  Executors = {"noop", "pool"}
  Prod = p
  Starter = main
  MaxPush = 4
SPECIFICATION FairSpec
INVARIANTS Safety
PROPERTIES Delivered CloseEndsConsumer
CHECK_DEADLOCK FALSE
