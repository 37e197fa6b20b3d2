------------------------ MODULE MCConfigurationWriters ------------------------
(***************************************************************************)
(* Instances of ConfigurationWriters for TLC.                              *)
(***************************************************************************)
EXTENDS ConfigurationWriters, TLC

CONSTANTS c1, c2, d1, d2, a1, a2, m1

TwoClients == {c1, c2}
TwoDomains == {d1, d2}
TwoAddresses == {a1, a2}
OneController == {m1}

Symmetric ==
  Permutations(TwoClients) \cup Permutations(TwoDomains) \cup Permutations(TwoAddresses)

================================================================================
