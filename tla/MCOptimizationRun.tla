-------------------------- MODULE MCOptimizationRun --------------------------
(* Configurations that measure alike and differ in the rest, so that a pool   *)
(* outlives the change of one for the other.                                  *)
EXTENDS OptimizationRun, TLC

CONSTANTS n1, n2, d1, d2, w1, l1, l2, c1, c2

MCConfigs == {[bench |-> 1, rest |-> c] : c \in {c1, c2}}
Symmetry ==
  Permutations({n1, n2}) \cup Permutations({l1, l2}) \cup Permutations({c1, c2})
    \cup Permutations({d1, d2})
==============================================================================
