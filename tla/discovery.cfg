CONSTANTS
  d1 = d1
  d2 = d2
  None = None
  Domains = {d1, d2}
  Configs <- MCConfigs
  OldConfigs <- MCOldConfigs
  MaxSeen = 1
  MaxRecords = 1
  MaxCalls = 2
  MaxFaults = 1
SPECIFICATION Spec
INVARIANTS ManualStays ClearedIsGone
PROPERTY StraysLeave
