-------------------------- MODULE MCInvocationDirs --------------------------
(* Small instances of InvocationDirs for TLC.                               *)
EXTENDS InvocationDirs

AllFaults == {"crash", "remove"}

Symmetry == Permutations(Proc)
=============================================================================
