--------------------------- MODULE MCGuardSupervisor ---------------------------
(***************************************************************************)
(* The instance of GuardSupervisor for TLC.  The bounds are in guard.cfg.  *)
(***************************************************************************)
EXTENDS GuardSupervisor

AllFaults == FaultKinds

================================================================================
