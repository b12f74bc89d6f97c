CONSTANTS
  Worker = {w1, w2, w3}
  User = user
  Task = {a, b, c}
  Holding = {a, b}
SPECIFICATION FairSpec
INVARIANTS TaskConservation DestroyedUnused DrainedBeforeDestroy
PROPERTIES EveryTaskRuns PoolEnds
CHECK_DEADLOCK FALSE
