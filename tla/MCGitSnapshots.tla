--------------------------- MODULE MCGitSnapshots ---------------------------
(* Small instances of GitSnapshots for TLC.                                 *)
EXTENDS GitSnapshots

AllFaults == {"crash", "step", "purge"}

Symmetry == Permutations(Proc)
=============================================================================
