--------------------------- MODULE MCBuildCommand ---------------------------
(* Small instances of BuildCommand for TLC.                                 *)
EXTENDS BuildCommand

CONSTANTS p1, p2, x, y, plain, other, c1, c2

Procs == {p1, p2}
Packages == 1..4
Names == {x, y}
Configs == {plain, other}
Contents == {c1, c2}
Compilers == {[version |-> 1, fit |-> TRUE], [version |-> 2, fit |-> TRUE],
              [version |-> 2, fit |-> FALSE]}
AllOptions == {"dev"}

Lib == [kind |-> "lib", name |-> None]
Bin(n) == [kind |-> "bin", name |-> n]
Test(n) == [kind |-> "test", name |-> n]
M(deps, targets) == [deps |-> deps, targets |-> targets, config |-> plain]
Ask(intent, package, pick, dry) ==
  [intent |-> intent, package |-> package, pick |-> pick, options |-> "dev",
   dry |-> dry]

\* Every graph over four packages, cycles among them.
Orders ==
  {[roots |-> {2, 4}, top |-> 2, manifests |-> [q \in Packages |-> M(deps[q], {Lib})],
    touched |-> {}, edits |-> {}, requests |-> {Ask("build", None, {}, TRUE)}, procs |-> {p1},
    changes |-> {}] :
   deps \in {d \in [Packages -> SUBSET Packages] : \A q \in Packages : q \notin d[q]}}

\* Every request, every set of targets, one root or two, with the manifest of a
\* package or of nothing but members.
Entries ==
  {[roots |-> roots, top |-> top,
    manifests |-> [q \in Packages |->
       IF q = 1 THEN M({}, targets)
       ELSE [deps |-> {}, targets |-> {Lib}, config |-> config]],
    touched |-> {}, edits |-> {},
    requests |-> {Ask(intent, package, pick, TRUE) :
                    intent \in {"check", "build", "run", "test"},
                    package \in {None, 1, 2},
                    pick \in {{}, {Lib}, {Bin(x)}, {Test(x)}, {Lib, Bin(x)}}},
    procs |-> {p1}, changes |-> {}] :
   roots \in {{1}, {1, 2}}, top \in {None, 1},
   targets \in SUBSET {Lib, Bin(x), Bin(y), Test(x), Test(y)},
   config \in {plain, other}}

\* Two commands over a package and its dependency while everything changes.
Races ==
  {[roots |-> {1}, top |-> 1,
    manifests |-> [q \in Packages |-> IF q = 1 THEN M({2}, {Bin(x), Bin(y)}) ELSE M({}, {Lib})],
    touched |-> {1, 2}, edits |-> edits, requests |-> requests, procs |-> Procs, changes |-> changes] :
   requests \in {{Ask("build", None, {Bin(x)}, FALSE), Ask("run", None, {Bin(y)}, FALSE)}},
   edits \in {{M({}, {Lib}), Absent}},
   changes \in {{"manifest", "compiler"}, {"source"}, {"prune", "disk", "careless"}}}

AllScenarios == Orders \cup Entries \cup Races
Symmetry == Permutations(Procs)
=============================================================================
