SPECIFICATION CashSpec
CONSTANTS
  Ops = {o1}
  NoOp = NoOp
  MaxFaults = 3
  FloorStep = 10
  Verdicts = {"retracted"}
  MaxBatches = 2
  NotTakenActions = {"retract", "presented"}
  MaxCimFaults = 2
  HostCompletes = TRUE
  MaxCrashes = 1
CHECK_DEADLOCK FALSE
INVARIANTS
  CleanEndIsComplete
  DepositIsSound
PROPERTIES
  NotesMoveInOrder
  EscrowIsImplemented
  CashSettles
