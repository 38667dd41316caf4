CONSTANTS
  Flows <- MCFlows
  Nodes <- MCNodes
  NoNode = "none"
  StartNode <- MCStart
  Kind <- MCKind
  NextOf <- MCNextOf
  Edges <- MCEdges
  ChildFlow <- MCChild
  AsyncNodes = {"p"}
  InterruptNode = "p"
  TopFlows = {"parent"}
  MaxInstances = 2
  MaxVisits = 2
  MaxThrows = 2
  MaxAttempts = 1
  Retention = 1
  Execs = {e1, e2}
  NoExec = none
  First = e1
  MinLength = 1
  MaxLength = 1
  MaxKeys = 1
  MaxConfirms = 1
  MaxFaults = 1
  Tombstones = 1
SPECIFICATION Spec
CHECK_DEADLOCK FALSE
INVARIANTS
  FlowsAreAccountedFor
  EntryIsOwn
PROPERTIES
  FlowSettles
