---------------------------- MODULE MCAtomicFile ----------------------------
(* Small instances of AtomicFile for TLC.                                   *)
EXTENDS AtomicFile

AllFaults == {"io", "remove", "kill", "power"}
Symmetry == Permutations(Writer) \cup Permutations(Name) \cup Permutations(Content)
=============================================================================
