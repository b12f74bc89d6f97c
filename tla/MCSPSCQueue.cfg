CONSTANTS
  Mask = 3
  MaxPush = 7
SPECIFICATION FairSpec
INVARIANTS SlotExclusion Fifo Lifetimes
PROPERTIES Delivered ImplementsFIFO
CHECK_DEADLOCK FALSE
