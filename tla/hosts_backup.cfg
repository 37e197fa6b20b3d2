CONSTANTS
  d1 = d1
  d2 = d2
  None = None
  Missing = Missing
  Theirs = Theirs
  Broken = Broken
  Domains = {d1, d2}
  Policies <- MCPolicies
  Platforms = {"windows", "other"}
  MaxApplies = 2
  MaxEdits = 0
  MaxFaults = 2
CHECK_DEADLOCK FALSE
SPECIFICATION Spec
INVARIANT RestoresUnmodified
