CONSTANTS
  Producer = {p1, p2}
  Stopper = {s1}
  Worker = {w1, w2}
  Starter = main
  Permit = FALSE
  MaxRelease = 5
  MaxAwait = 5
SPECIFICATION Spec
INVARIANTS SingleRunner FieldsRaceFree
CHECK_DEADLOCK FALSE
