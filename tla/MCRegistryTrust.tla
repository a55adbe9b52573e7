--------------------------- MODULE MCRegistryTrust ---------------------------
(* Small instances of RegistryTrust for TLC.                                *)
EXTENDS RegistryTrust

AllCommands == {"import", "online", "offline"}
AllFaults == {"io", "fetch", "crash"}

\* Every timestamp names a new snapshot.
ShortHistory ==
  {[anchor |-> a, ts |-> v, snap |-> v] : a \in Anchor, v \in Version}

Symmetry == Permutations(Proc) \cup Permutations(Registry)
              \cup Permutations(Anchor)
=============================================================================
