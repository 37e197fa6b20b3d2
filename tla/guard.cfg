SPECIFICATION FairSpec
CONSTANTS
  MaxPolicies = 2
  MaxChanges = 2
  MaxFaults = 1
  MaxCrashes = 1
  Faults <- AllFaults
INVARIANTS
  TypeOK
  RepairsCurrentPolicy
PROPERTIES
  EditsSurvive
  DriftIsRestored
