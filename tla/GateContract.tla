----------------------------- MODULE GateContract -----------------------------
(***************************************************************************)
(* What the operation gate promises to its callers, without saying how:    *)
(* one at a time works on a Runner; an optimization asks and may have to   *)
(* wait or give up, and works at most once per call; a maintenance         *)
(* operation works at once or not at all, and never while an optimization  *)
(* of its Runner is between its call and its return.                       *)
(*                                                                         *)
(* OperationGate implements this specification (ImplementsContract).       *)
(***************************************************************************)
CONSTANTS Runs, Maints, runnerOf

VARIABLE phase  \* of each caller: "out", "asking", "working" or "leaving"

Init == phase = [p \in Runs \cup Maints |-> "out"]

Nobody(p, ps, at) == \A q \in ps : runnerOf[q] = runnerOf[p] => phase[q] \notin at
NobodyWorks(p) == Nobody(p, Runs \cup Maints, {"working"})

Moves(p, from, to) == phase[p] = from /\ phase' = [phase EXCEPT ![p] = to]

Asks(r) == Moves(r, "out", "asking")
GivesUp(r) == Moves(r, "asking", "leaving")
Starts(r) == NobodyWorks(r) /\ Moves(r, "asking", "working")
Ends(r) == Moves(r, "working", "leaving")
Returns(r) == Moves(r, "leaving", "out")

Maintains(m) ==
  /\ NobodyWorks(m) /\ Nobody(m, Runs, {"asking", "leaving"})
  /\ Moves(m, "out", "working")
MaintenanceEnds(m) == Moves(m, "working", "out")

Next ==
  \/ \E r \in Runs : Asks(r) \/ GivesUp(r) \/ Starts(r) \/ Ends(r) \/ Returns(r)
  \/ \E m \in Maints : Maintains(m) \/ MaintenanceEnds(m)

Spec == Init /\ [][Next]_phase
===============================================================================
