---------------------------- MODULE MCFreeRegions ----------------------------
(***************************************************************************)
(* A volume of seven clusters: up to four regions at five addresses, read  *)
(* in portions of three clusters, the last portion being shorter.          *)
(***************************************************************************)
EXTENDS FreeRegions, TLC

CONSTANTS n1, n2, n3, n4, n5

MCAddresses == {n1, n2, n3, n4, n5}

\* Addresses are only compared for equality.
Symmetry == Permutations(MCAddresses)
=============================================================================
