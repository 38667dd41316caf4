SPECIFICATION HostSpec
CONSTANTS
  o1 = o1
  o2 = o2
  r1 = r1
  r2 = r2
  Ids = {o1, o2}
  MaxCalls = 3
  Scopes <- TheScopes
  PolicyTerms <- ThePolicies
  MaxManual = 1
  FailureThreshold = 2
  Requests = {r1, r2}
  Uses <- TheUses
  Exchanges = {1, 2, 3}
  Unsendable = {2}
  MaxNFaults = 3
  FrameOptions <- TheOptions
  Payloads <- ThePayloads
  MaxFrames = 2
CHECK_DEADLOCK FALSE
INVARIANTS
  DeliveryIsSafe
  ChannelsAreHonest
  FramesAreRouted
PROPERTIES
  HostSettles
