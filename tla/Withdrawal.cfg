SPECIFICATION LiveSpec
CONSTANTS
  Reasons = {"user-cancelled"}
  MaxCards = 1
  MaxFaults = 2
CHECK_DEADLOCK FALSE
INVARIANTS
  CardBeforeCash
  OutcomeIsHonest
PROPERTIES
  ExecuteSettles
