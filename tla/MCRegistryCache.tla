--------------------------- MODULE MCRegistryCache ---------------------------
(* Small instances of RegistryCache for TLC.                                *)
EXTENDS RegistryCache

AllFaults == FaultKinds

Symmetry == Permutations(Proc)
=============================================================================
