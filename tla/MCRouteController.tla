------------------------- MODULE MCRouteController -------------------------
(* Model values for the runs of RouteController. *)
EXTENDS RouteController
CONSTANTS p1, p2, g1, g2

\* One prefix has a route, the other has none.
MCInitialTable == [p \in Prefixes |-> IF p = p1 THEN g1 ELSE NoRoute]
=============================================================================
