SPECIFICATION Spec
CONSTANTS
  Reasons = {"user-cancelled"}
  MaxCards = 1
  MaxFaults = 1
INVARIANTS CardIsResolvedOrEscalated
CHECK_DEADLOCK FALSE
