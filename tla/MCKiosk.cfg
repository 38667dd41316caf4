CONSTANTS
  Intents = {"i1", "i2"}
  NoIntent = "none"
  CardIntents = {"i1"}
  Reconciles = {"i1"}
  Calls = {1, 2}
  Kinds = {"pin"}
  Mandatory = {"pin"}
  Budget = 1
  MaxRefreshes = 1
  MaxKioskFaults = 1
  MaxCrashes = 1
  GateCount = 2
  MaxLeases = 2
  MaxSuspensions = 2
  MaxEvaluations = 3
  Order <- TheOrder
  Optional = {"p2"}
  ContributionIds = {"x", "y"}
  MaxDisposeFaults = 1
SPECIFICATION Spec
CHECK_DEADLOCK FALSE
INVARIANTS
  OperationIsSound
  RecordedCardIsKept
  SuspensionIsHonoured
  PluginsEndClean
PROPERTIES
  KioskSettles
