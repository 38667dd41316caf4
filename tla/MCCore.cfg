SPECIFICATION CoreSpec
CONSTANTS
  Ops = {o1, o2}
  NoOp = NoOp
  MaxFaults = 1
  FloorStep = 10
  Verdicts = {"retracted"}
  Values = {1, 2}
  FixedValues = {1, 2}
  MaxConfigCalls = 2
  Definitions <- TheDefinitions
  Elements <- TheElements
  FieldValues <- TheValues
  Ids = {f1, f2, f3}
  Stranger = Stranger
  MaxAfter = 2
SYMMETRY CoreSymmetry
CHECK_DEADLOCK FALSE
INVARIANTS
  EvidenceBeforeMovement
  RecordedOutcomeIsTrue
  CustodyIsOwned
  LeasesAgree
  ConfigurationIsHonest
  MessageSurvives
  PlanIsSound
