CONSTANTS
  p1 = p1
  p2 = p2
  g1 = g1
  g2 = g2
  NoRoute = NoRoute
  InitialTable <- MCInitialTable
  Prefixes = {p1, p2}
  Gateways = {g1, g2}
  Faults = {"change", "undo", "query", "persist"}
  MaxPlans = 1
  MaxTxns = 2
  MaxFaults = 2
  MaxCrashes = 2
SPECIFICATION FairSpec
INVARIANTS TypeOK ChangesAreJournaled ResidueIsRemembered
PROPERTIES RecoveryRestores RestartReachesReady
CHECK_DEADLOCK FALSE
