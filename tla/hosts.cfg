CONSTANTS
  d1 = d1
  d2 = d2
  None = None
  Missing = Missing
  Theirs = Theirs
  Broken = Broken
  Domains = {d1, d2}
  Policies <- MCPolicies
  Platforms = {"windows", "other"}
  MaxApplies = 3
  MaxEdits = 1
  MaxFaults = 2
CHECK_DEADLOCK FALSE
SPECIFICATION Spec
INVARIANTS UserLinesKept FilesAreRestored CleanupsRestore
