CONSTANTS
  d1 = d1
  d2 = d2
  None = None
  Domains = {d1, d2}
  Configs <- LoopConfigs
  OldConfigs <- LoopConfigs
  MaxSeen = 2
  MaxRecords = 1
  MaxCalls = 1
  MaxFaults = 2
SPECIFICATION Spec
PROPERTY RestIsApplied
