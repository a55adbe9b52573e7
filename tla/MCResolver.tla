----------------------------- MODULE MCResolver -----------------------------
(* Small instances of Resolver for TLC: which manifests there may be.       *)
EXTENDS Resolver

CONSTANTS App, Lib, Util, GitTop, GitPart, d1, d2, d3

P(name, version) == [name |-> name, version |-> version]
M(package, deps) ==
  [package |-> package, deps |-> deps, members |-> {}, excluded |-> {}]
W(package, deps, members, excluded) ==
  [package |-> package, deps |-> deps, members |-> members, excluded |-> excluded]
D(alias, kind, to, package) ==
  [alias |-> alias, kind |-> kind, to |-> to, package |-> package, version |-> None]
R(alias, package, version) ==
  [alias |-> alias, kind |-> "registry", to |-> None, package |-> package,
   version |-> version]

\* The project, two packages beside it and a snapshot that is a workspace.
GraphTrees ==
  {[p \in {App, Lib, Util, GitTop, GitPart} |->
      CASE p = App -> W(P("app", 1), app, members, {})
        [] p = Lib -> M(P("lib", 1), lib)
        [] p = Util -> M(util, utilDeps)
        [] p = GitTop -> W(P("git", 1), {}, {GitPart}, excluded)
        [] p = GitPart -> M(P("part", 1), part)] :
   app \in SUBSET {D("l", "path", Lib, None), D("u", "path", Util, "util"),
                   D("u", "git", "repo", "part")},
   members \in {{}, {Lib}},
   lib \in SUBSET {D("a", "path", App, None), D("u", "path", Util, None),
                   D("g", "git", "repo", "part")},
   util \in {P("util", 1), P("part", 1), P("part", 2)},
   utilDeps \in SUBSET {D("l", "path", Lib, None), D("g", "git", "repo", None)},
   excluded \in {{}, {GitPart}},
   part \in {{}, {D("t", "path", GitTop, "git")}, {D("e", "path", Util, None)}}}

GraphPlaces == {App, Lib, Util, GitTop, GitPart}
GraphInside == [p \in GraphPlaces |-> IF p \in {GitTop, GitPart} THEN "repo" ELSE None]
GraphTop == [r \in {"repo"} |-> GitTop]
Names == {"app", "lib", "util", "git", "part"}
Aliases == {"l", "u", "a", "g", "t", "e"}
Repos == {"repo"}
NoRepos == {}

\* A project and two packages that are published to the registry it uses.
ReleaseTrees ==
  {[p \in GraphPlaces |->
      CASE p = App -> M(P("app", 1), app)
        [] p = Lib -> M(P("lib", version), lib)
        [] p = Util -> M(P("util", 1), {})
        [] OTHER -> None] :
   app \in {{R("l", "lib", 1)}, {R("l", "lib", 2)}, {R("l", "lib", 1), R("u", "util", 1)}},
   version \in 1..2, lib \in {{}, {R("u", "util", 1)}}}
Releases == {P("lib", 1), P("lib", 2), P("util", 1)}
Digests == {d1, d2, d3}

\* Manifests that change while they are read.
EditTrees ==
  {[p \in GraphPlaces |->
      CASE p = App -> W(P("app", 1), {D("l", "path", Lib, "lib"),
                                      D("u", "path", Util, None)}, app, {})
        [] p = Lib -> lib
        [] p = Util -> M(P(name, 1), {})
        [] OTHER -> None] :
   app \in {{}, {Lib}},
   lib \in {M(P("lib", 1), {D("u", "path", Util, None)}), M(P("util", 1), {}),
            W(P("lib", 1), {}, {Util}, {}), W(None, {}, {Util}, {})},
   name \in {"lib", "util"}}
AllTrees == GraphTrees \cup EditTrees \cup ReleaseTrees
EditableTrees == EditTrees \cup ReleaseTrees
AllChanges ==
  {"fetch", "edit", "editDuring", "publish", "republish", "clean", "move"}

\* One resolution, under which manifests may change.
OneWalk ==
  /\ tree' \notin ReleaseTrees
  /\ runs' <= 1
  /\ UNCHANGED <<archive, home, cached>>

\* Two resolutions, around which packages are published, in any order but with the
\* archives numbered as they appear.
TwoLocks ==
  /\ tree' \in ReleaseTrees
  /\ phase = "walking" => tree' = tree
  /\ outcome' # "fetch"
  /\ archive' # archive =>
       archive'[CHOOSE d \in Digest : archive[d] = None] # None

Scenario ==
  /\ Init
  /\ tree \notin ReleaseTrees => home = CHOOSE h \in Home : TRUE
  /\ [][Next /\ IF tree \in ReleaseTrees THEN TwoLocks ELSE OneWalk]_vars
  /\ WF_vars(Step)
=============================================================================
