CONSTANTS
  n1 = n1
  n2 = n2
  d1 = d1
  d2 = d2
  w1 = w1
  l1 = l1
  l2 = l2
  c1 = c1
  c2 = c2
  None = None
  Physical = Physical
  Nodes = {n1, n2}
  Domains = {d1, d2}
  Networks = {w1, Physical}
  Lists = {l1, l2}
  Configs <- MCConfigs
  MaxPools = 2
  MaxChanges = 1
  MaxFaults = 1
SYMMETRY Symmetry
SPECIFICATION Spec
INVARIANTS EvidenceOfItsPool NoPlanTwice CooldownHolds
PROPERTY RunEnds
