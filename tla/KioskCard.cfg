SPECIFICATION KioskSpec
CONSTANTS
  Intents = {"i1", "i2"}
  NoIntent = "none"
  CardIntents = {"i1"}
  Reconciles = {}
  Calls = {1}
  Kinds = {"pin"}
  Mandatory = {"pin"}
  Budget = 1
  MaxRefreshes = 0
  MaxKioskFaults = 1
  MaxCrashes = 0
CHECK_DEADLOCK FALSE
INVARIANT CardIsResolvedOrIntervention
