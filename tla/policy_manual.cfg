CONSTANTS
  a1 = a1
  a2 = a2
  n1 = n1
  n2 = n2
  Adapters = {a1, a2}
  Nodes = {n1, n2}
  Targets <- MCTargets
  Kinds = {"manual"}
  Faults = {}
  MaxOps = 1
  MaxUninstalls = 0
  MaxFaults = 0
  MaxCrashes = 0
SPECIFICATION Spec
INVARIANT PendingIsUncommitted
CHECK_DEADLOCK FALSE
