CONSTANTS
  Cap = 2
  Arrivals = 1
  MaxChunks = 3
  Payloads <- SmallPayloads
  NAddr = 2
  Surprises = FALSE
SPECIFICATION Spec
INVARIANTS TransfersSound ResultsHonest
PROPERTIES ConnectedIsUsable OperationsEnd
CHECK_DEADLOCK FALSE
