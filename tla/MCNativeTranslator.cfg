SPECIFICATION Spec
CONSTANT
  MaxRequests = 3
INVARIANTS
  NeverUsedAfterFree
  AbortedIffAsked
PROPERTY
  CloseReturns
CHECK_DEADLOCK FALSE
