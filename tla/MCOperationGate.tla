--------------------------- MODULE MCOperationGate ---------------------------
(* Two optimizations and two maintenance goroutines on the daemon's Runner. *)
EXTENDS OperationGate

CONSTANTS r1, r2, m1, m2, daemon

MCRunnerOf == [p \in Runs \cup Maints |-> daemon]
==============================================================================
