SPECIFICATION XfsSpec
CONSTANTS
  Groups <- TheGroups
  Operations = {o1, o2}
  NoOperation = none
  Projections = {p1, p2}
  MaxEpoch = 2
  MaxRuns = 2
  MaxPFaults = 1
  c1 = c1
  c2 = c2
  c3 = c3
  s1 = s1
  s2 = s2
  Commands = {c1, c2, c3}
  ServiceOf <- TheServices
  MaxLFaults = 2
  Devices <- TheDevices
  MaxConnects = 2
  MaxSFaults = 2
  Inputs = {i1, i2}
  NoInput = noInput
  MinLength = 1
  MaxLength = 2
  Secure = {i1}
  MaxKFaults = 2
CHECK_DEADLOCK FALSE
INVARIANTS
  ProtectionIsImported
  LeaseIsSerial
  SessionsAreOwned
  PinEntryIsOwn
PROPERTIES
  XfsSettles
