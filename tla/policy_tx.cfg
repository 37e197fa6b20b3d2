CONSTANTS
  a1 = a1
  a2 = a2
  n1 = n1
  n2 = n2
  Adapters = {a1, a2}
  Nodes = {n1, n2}
  Targets <- MCTargets
  Kinds = {"run", "manual"}
  Faults = {"apply", "restore", "verify", "undo", "update", "detect"}
  MaxOps = 2
  MaxUninstalls = 1
  MaxFaults = 2
  MaxCrashes = 2
SPECIFICATION FairSpec
INVARIANTS ChangesAreCovered QuietIsCommitted
PROPERTIES ImplementsAtomicPolicy RecoveryRestores UninstallRestores RecoveryTerminates
CHECK_DEADLOCK FALSE
