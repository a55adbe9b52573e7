--------------------------- MODULE MCProjectState ---------------------------
(* Small instances of ProjectState for TLC.                                 *)
EXTENDS ProjectState

SyncCommands == {"sync", "locked"}
AddOnly == {"add"}
AllCommands == SyncCommands \cup {"add", "remove"}
NoEdits == {}
AllEdits == {"root", "member"}
NoFaults == {}
AllFaults == {"io", "resolve", "crash"}

VARIABLE
  syncsOnly  \* syncs, several at once, or any commands, one after another

Busy == {p \in Proc : phase[p] # "idle"}

\* Of one dependency, with hand edits of both manifests at any time.
SyncsAtOnce ==
  /\ \A p \in Proc : command'[p].name \in SyncCommands \cup {Absent}
  /\ manifest' # Absent => Cardinality(manifest'.deps) <= 1

\* Of two dependencies; nobody edits the root under a running command.
OneAfterAnother ==
  /\ Cardinality(Busy') <= 1
  /\ manifest' # manifest => Busy = {} \/ phase' # phase

ScenarioInit == Init /\ syncsOnly \in BOOLEAN

Scenario ==
  ScenarioInit /\ [][/\ Next
                     /\ IF syncsOnly THEN SyncsAtOnce ELSE OneAfterAnother
                     /\ UNCHANGED syncsOnly]_<<vars, syncsOnly>>

\* Any commands at once.
RaceInit == Init /\ syncsOnly = FALSE
Race == RaceInit /\ [][Next /\ UNCHANGED syncsOnly]_<<vars, syncsOnly>>

\* Processes, dependencies and contents are interchangeable.
Symmetry == Permutations(Proc) \cup Permutations(Dep)
              \cup Permutations(Targets) \cup Permutations(Member)
=============================================================================
