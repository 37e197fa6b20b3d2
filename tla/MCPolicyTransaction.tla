------------------------- MODULE MCPolicyTransaction -------------------------
(* Model values for the runs of PolicyTransaction. *)
EXTENDS PolicyTransaction
CONSTANTS a1, a2, n1, n2

MCTargets == {{n1}, {n2}}
=============================================================================
