CONSTANTS
  r1 = r1
  r2 = r2
  m1 = m1
  m2 = m2
  daemon = daemon
  Runs = {r1, r2}
  Maints = {m1, m2}
  Runners = {daemon}
  runnerOf <- MCRunnerOf
SPECIFICATION GateFairSpec
INVARIANTS TokenConserved GateExclusive
PROPERTIES MaintenanceYields WaitingRunProceeds ImplementsContract
