SPECIFICATION RecordsSpec
CONSTANTS
  Ops = {o1, o2}
  NoOp = NoOp
  v1 = v1
  v2 = v2
  Versions = {v1, v2}
  NoPlan = NoPlan
  MaxPlan = 2
  Length <- MCLength
  Recoverable <- MCRecoverable
  MaxAttempts = 2
  MaxCrashes = 1
  Reasons = {"user-cancelled"}
  MaxCards = 2
  MaxFaults = 1
CHECK_DEADLOCK FALSE
INVARIANTS
  WorkIsAccountedFor
  CardIsAccountedFor
PROPERTIES
  RecordedStepsStay
  ReadyIsClean
  StartupSettles
