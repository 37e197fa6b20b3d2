CONSTANTS
  old = old
  new = new
  Configs <- MCConfigs
  Interval = 90
  MaxChanges = 1
  MaxNetworks = 1
  MaxFailures = 2
SPECIFICATION Spec
INVARIANTS OperationsStartClean GuardFollowsConfiguration SchedulePromise
PROPERTIES RunsComeRound StopEnds
