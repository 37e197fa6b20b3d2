-------------------------- MODULE MCDomainDiscovery --------------------------
(* The first domain is listed or found, the second found or excluded; the      *)
(* last configuration lists the second.                                        *)
EXTENDS DomainDiscovery

CONSTANTS d1, d2

Config(mode, manual, excluded) == [mode |-> mode, manual |-> manual, excluded |-> excluded]
MCConfigs ==
  {Config("apply", {d1}, {}), Config("apply", {}, {d2}), Config("observe", {d2}, {})}
MCOldConfigs == {Config("observe", {d2}, {})}
LoopConfigs == {Config("apply", {}, {})}
==============================================================================
