SPECIFICATION FairSpec
CONSTANTS
  Requests = {1, 2, 3}
  Callers = {c1}
  MaxActive = 2
  MaxShadows = 1
INVARIANTS
  ShadowSlotsAccounted CloseDrainsInOrder FlushSettlesPairs
PROPERTY CloseReturns
CHECK_DEADLOCK FALSE
