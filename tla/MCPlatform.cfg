SPECIFICATION PlatformSpec
CONSTANTS
  Handlers = {h1, h2}
  FailPublish = {h2}
  Sources = {s1, s2}
  MaxPublish = 2
  Responders = {r1, r2, r3}
  MaxSessions = 3
  Priorities <- ThePriorities
  Migrations = 2
  Maximum = 1
  MaxCalls = 3
  Plain = {w1}
  MaxStorageFaults = 2
CHECK_DEADLOCK FALSE
INVARIANTS
  AnnouncementsAreHonest
  StorageIsSerial
PROPERTIES
  PlatformSettles
