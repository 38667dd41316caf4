CONSTANTS
  Ops = {o1, o2}
  NoOp = NoOp
  MaxFaults = 1
  FloorStep = 10
  Verdicts = {"retracted"}
SPECIFICATION Spec
CHECK_DEADLOCK FALSE
INVARIANTS
  UnknownCustodyStaysUnresolved
