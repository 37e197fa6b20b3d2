---------------------------- MODULE MCHostsAdapter ----------------------------
(* One policy maps a domain that the user may have a line for, one both.      *)
EXTENDS HostsAdapter

CONSTANTS d1, d2

MCPolicies == {{d1}, {d1, d2}}
===============================================================================
