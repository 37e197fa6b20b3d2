SPECIFICATION Spec
CONSTANTS
  c1 = c1
  c2 = c2
  d1 = d1
  d2 = d2
  a1 = a1
  a2 = a2
  m1 = m1
  Clients <- TwoClients
  Domains <- TwoDomains
  Addresses <- TwoAddresses
  Controllers <- OneController
  NoController = NoController
  NoAddress = NoAddress
  NoConfig = NoConfig
  NoDomain = NoDomain
  MaxEvents = 3
  MaxSessions = 1
SYMMETRY Symmetric
CHECK_DEADLOCK FALSE
INVARIANTS
  OnlyKnownOverwrites
  MemoryIsCurrent
  RunnerFollowsConfiguration
  RemovedDomainsLeavePolicy
  NobodyIsStuck
