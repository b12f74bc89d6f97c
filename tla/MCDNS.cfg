CONSTANTS
  DomainNames <- SomeNames
  Base = 12
  LabelMax = 2
  NameMax = 5
  PtrMax = 3
  MsgCap = 512
  MaxRecords = 3
  RdataSizes = {2, 250}
SPECIFICATION Spec
INVARIANTS NamesRoundTrip SizesAgree MessageReadsBack
CHECK_DEADLOCK FALSE
