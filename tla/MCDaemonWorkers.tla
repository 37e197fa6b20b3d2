--------------------------- MODULE MCDaemonWorkers ---------------------------
(* Two configurations: everything on, and everything off with another         *)
(* endpoint.  With an interval of 90 seconds the delays after failures are 60 *)
(* and 90.                                                                    *)
EXTENDS DaemonWorkers

CONSTANTS old, new

Switched(on, target) ==
  [schedule |-> on, discover |-> on, onChange |-> on, target |-> target]
MCConfigs == {Switched(TRUE, old), Switched(FALSE, new)}
==============================================================================
