------------------------------ MODULE Resolver ------------------------------
(***************************************************************************)
(* The dependency resolver (SingleVersionResolver in                       *)
(* PafioResolve/Resolver.cpp): a depth-first walk over the packages a      *)
(* project reaches by path, git and registry dependencies, with the        *)
(* lockfile it starts from and the one it leaves.                          *)
(*                                                                         *)
(* One project, resolved again and again, while its manifests are edited,  *)
(* packages are published, the registry cache is cleaned and the project   *)
(* is moved.  Members and aliases are taken in any order, the code takes   *)
(* them sorted: what is shown here holds for every order.                  *)
(***************************************************************************)
EXTENDS Integers, Sequences, FiniteSets, TLC

CONSTANTS
  Place,      \* directories that may hold a pafio.toml
  Root,       \* the project's own
  Repo,       \* git snapshots: a repository at a commit
  LocalRepo,  \* those whose repository is given by a relative path
  Top,        \* [Repo -> Place]: the root of a snapshot
  Inside,     \* [Place -> Repo \cup {None}]: the snapshot a place is part of
  Digest,     \* archives
  Trees,      \* the source trees: a set of [Place -> manifest or None]
  Editable,   \* those an edit leads from and to
  Name, Version, Alias,
  Release,    \* the names and versions a registry may have
  Home,       \* directories the project may lie in
  MaxRuns,    \* bound on the resolutions
  Changes,    \* what may happen: "edit", "editDuring", "publish",
              \* "republish", "clean", "move", "fetch"
  Unreadable, \* a lockfile that does not parse
  None        \* nothing

Packages == [name : Name, version : Version]
ReleaseOf(d) == [name |-> d.package, version |-> d.version]

Dependencies ==
  {d \in [alias : Alias, kind : {"path", "git", "registry"},
          to : Place \cup Repo \cup {None}, package : Name \cup {None},
          version : Version \cup {None}] :
     /\ d.kind = "path" => d.to \in Place
     /\ d.kind = "git" => d.to \in Repo
     /\ d.kind = "registry" => ReleaseOf(d) \in Release}

\* A manifest with members is a workspace's.
Manifests ==
  [package : Packages \cup {None}, deps : SUBSET Dependencies,
   members : SUBSET Place, excluded : SUBSET Place]

ASSUME ResolverAssumption ==
  /\ Root \in Place /\ LocalRepo \subseteq Repo
  /\ Top \in [Repo -> Place] /\ Inside \in [Place -> Repo \cup {None}]
  /\ Release \subseteq Packages
  /\ None # Unreadable /\ Digest \cap Place = {}
  /\ None \notin Place \cup Repo \cup Digest \cup Name \cup Packages \cup Manifests
        \cup Dependencies
  /\ \A t \in Trees :
       /\ t \in [Place -> Manifests \cup {None}]
       /\ t[Root] # None
  /\ Editable \subseteq Trees /\ None \notin Trees
  /\ MaxRuns \in Nat

VARIABLES
  tree,      \* the manifests on disk
  archive,   \* [Digest -> the manifest in an archive, or None]
  index,     \* [Release -> the digest the registry declares, or None]
  cached,    \* the digests in the registry cache
  home,      \* where the project lies
  lock,      \* pafio.lock: None, Unreadable or a set of entries
  from,      \* history: the tree the lock was written for
  runs,      \* history: resolutions so far
  phase,     \* "idle" or "walking"
  locked,    \* --locked
  outcome,   \* how the last resolution ended
  root,      \* root_manifest_: read once
  hints,     \* locked_registry_digests_
  chosen,    \* materialized_registry_: [Release -> Digest or None]
  tops,      \* top_level_workspace_dirs_
  steady,    \* history: no manifest has been edited since it began
  seeds,     \* root_seeds_ still to visit
  call,      \* the selection ResolveNode is called with, or None
  stack,     \* the calls of ResolveNode that visit dependencies
  nodes      \* nodes_, in the order they are found

world == <<tree, archive, index, home>>
given == <<locked, root, hints, tops, steady>>
walk == <<seeds, call, stack, nodes>>
ended == <<phase, outcome>>
kept == <<lock, from, runs>>
vars == <<world, cached, kept, ended, given, chosen, walk>>

Manifest(p) ==
  IF p = Root THEN root ELSE IF p \in Digest THEN archive[p] ELSE tree[p]
HasPackage(p) == Manifest(p) # None /\ Manifest(p).package # None

NoSource == [kind |-> "path", snap |-> None]

\* Pack leaves the directories of members out of an archive, so what an
\* archive's manifest names beside itself is not there.
IsPart(p, origin) ==
  CASE origin.kind = "registry" -> FALSE
    [] origin.kind = "git" -> Inside[p] = origin.snap
    [] OTHER -> TRUE

\* A directory the project's own manifest names is a workspace package
\* however it is reached.
Placed(p, origin) ==
  IF origin.snap = None
  THEN [origin EXCEPT !.kind = IF p \in tops THEN "workspace" ELSE "path"]
  ELSE origin

\* The package a source root stands for, none if it is missing or ambiguous.
Select(p, origin, name) ==
  LET members == IF name = None THEN {}
                 ELSE Manifest(p).members \ Manifest(p).excluded
      matches == {q \in {p} \cup members :
                    HasPackage(q) /\ name \in {None, Manifest(q).package.name}}
  IN  {[place |-> q, origin |-> Placed(q, origin)] : q \in
        {q \in matches : /\ matches = {q}
                         /\ \A s \in members : IsPart(s, origin) /\ HasPackage(s)}}

\* What a dependency of a node leads to: one selection or none.
Targets(n, d) ==
  CASE d.kind = "path" ->
         IF Manifest(d.to) # None /\ IsPart(d.to, n.origin)
         THEN Select(d.to, IF n.origin.snap = None THEN NoSource ELSE n.origin,
                     d.package)
         ELSE {}
    [] d.kind = "git" ->
         IF Manifest(Top[d.to]) # None
         THEN Select(Top[d.to], [kind |-> "git", snap |-> d.to], d.package)
         ELSE {}
    [] d.kind = "registry" ->
         Select(chosen[ReleaseOf(d)],
                [kind |-> "registry", snap |-> chosen[ReleaseOf(d)]], d.package)

NoLock == {None, Unreadable}

Init ==
  /\ tree \in Trees
  /\ archive = [d \in Digest |-> None] /\ index = [r \in Release |-> None]
  /\ cached = {} /\ home \in Home
  /\ lock \in NoLock /\ from = None /\ runs = 0
  /\ phase = "idle" /\ outcome = "none" /\ locked = FALSE
  /\ root = tree[Root] /\ tops = {} /\ steady = TRUE
  /\ hints = [r \in Release |-> None] /\ chosen = [r \in Release |-> None]
  /\ seeds = {} /\ call = None /\ stack = <<>> /\ nodes = <<>>

(***************************************************************************)
(* A resolution starts and ends.                                           *)
(***************************************************************************)

\* What a lockfile pins: the digest of a release, unless it has several.
Hints(entries) ==
  [r \in Release |->
     LET digests == {e.id.snap : e \in {x \in entries :
                       x.id.kind = "registry" /\ r = [name |-> x.id.name,
                                                      version |-> x.id.version]}}
     IN  IF \E d \in Digest : digests = {d}
         THEN CHOOSE d \in Digest : digests = {d} ELSE None]

\* The manifests BuildRootSeeds starts from.
Seeds(m) == (IF m.package # None THEN {Root} ELSE {}) \cup m.members
SeedsAreSound(m) ==
  \A p \in m.members :
    p \notin m.excluded /\ tree[p] # None /\ tree[p].package # None

Workspace == [kind |-> "workspace", snap |-> None]

Begin(l) ==
  /\ phase = "idle" /\ runs < MaxRuns
  /\ runs' = runs + 1 /\ locked' = l /\ steady' = TRUE
  /\ root' = tree[Root]
  /\ chosen' = [r \in Release |-> None]
  /\ hints' = Hints(IF lock \in NoLock THEN {} ELSE lock)
  /\ tops' = Seeds(tree[Root])
  /\ seeds' = {[place |-> p, origin |-> Workspace] : p \in Seeds(tree[Root])}
  /\ call' = None /\ stack' = <<>> /\ nodes' = <<>>
  /\ \/ /\ l /\ lock \in NoLock
        /\ phase' = "idle" /\ outcome' = "nolock"
     \/ /\ ~l \/ lock \notin NoLock
        /\ ~SeedsAreSound(tree[Root])
        /\ phase' = "idle" /\ outcome' = "seed"
     \/ /\ ~l \/ lock \notin NoLock
        /\ SeedsAreSound(tree[Root])
        /\ phase' = "walking" /\ outcome' = "none"
  /\ UNCHANGED <<world, cached, lock, from>>

End(how) == phase' = "idle" /\ outcome' = how
Stop(how) ==
  End(how) /\ UNCHANGED <<world, cached, kept, given, chosen, walk>>

(***************************************************************************)
(* The walk.  ResolveNode is called with a selection, for a seed or for a  *)
(* dependency of the package at the top of the stack.                      *)
(***************************************************************************)
Frame == stack[Len(stack)]
SetFrame(f) == stack' = [stack EXCEPT ![Len(stack)] = f]
Idle == phase = "walking" /\ call = None
Picked == Idle /\ stack # <<>> /\ Frame.dep # None

CallSeed(s) ==
  /\ Idle /\ stack = <<>> /\ s \in seeds
  /\ call' = s /\ seeds' = seeds \ {s}
  /\ UNCHANGED <<world, cached, kept, ended, given, chosen, stack, nodes>>

Pick(d) ==
  /\ Idle /\ stack # <<>> /\ Frame.dep = None /\ d \in Frame.todo
  /\ SetFrame([Frame EXCEPT !.dep = d])
  /\ UNCHANGED <<world, cached, kept, ended, given, chosen, seeds, call, nodes>>

\* git or the registry cannot be reached.
FetchFails ==
  /\ Picked /\ "fetch" \in Changes /\ Frame.dep.kind \in {"git", "registry"}
  /\ Stop("fetch")

\* Variant: a cached copy of the release is taken whatever the lock says.
Materialize_Unpinned ==
  /\ Picked /\ Frame.dep.kind = "registry" /\ chosen[ReleaseOf(Frame.dep)] = None
  /\ LET r == ReleaseOf(Frame.dep)
         found == index[r]
     IN  \/ locked /\ hints[r] = None /\ Stop("unpinned")
         \/ /\ ~locked \/ hints[r] # None
            /\ found = None /\ Stop("fetch")
         \/ /\ ~locked \/ hints[r] # None
            /\ found # None
            /\ chosen' = [chosen EXCEPT ![r] = found]
            /\ cached' = cached \cup {found}
            /\ UNCHANGED <<world, kept, ended, given, walk>>

\* A release is asked for once in a resolution: by the digest the lock gives,
\* or by name and version.
Materialize ==
  /\ Picked /\ Frame.dep.kind = "registry" /\ chosen[ReleaseOf(Frame.dep)] = None
  /\ LET r == ReleaseOf(Frame.dep)
         found == IF hints[r] \in cached THEN hints[r] ELSE index[r]
     IN  \/ locked /\ hints[r] = None /\ Stop("unpinned")
         \/ /\ ~locked \/ hints[r] # None
            /\ found = None /\ Stop("fetch")
         \/ /\ found # None /\ hints[r] \notin {None, found}
            /\ Stop("changed")
         \/ /\ found # None
            /\ hints[r] = found \/ (hints[r] = None /\ ~locked)
            /\ chosen' = [chosen EXCEPT ![r] = found]
            /\ cached' = cached \cup {found}
            /\ UNCHANGED <<world, kept, ended, given, walk>>

Ready ==
  Picked /\ (Frame.dep.kind = "registry" => chosen[ReleaseOf(Frame.dep)] # None)

CallDependency ==
  /\ Ready
  /\ LET found == Targets(nodes[Frame.node], Frame.dep)
     IN  \/ found = {} /\ Stop("target")
         \/ \E s \in found :
              /\ call' = s
              /\ UNCHANGED <<world, cached, kept, ended, given, chosen, seeds, stack, nodes>>

\* The nodes with the source fingerprint of a selection: place and origin.
At(s) ==
  {i \in DOMAIN nodes : nodes[i].place = s.place /\ nodes[i].origin = s.origin}
NamedLike(p) == {i \in DOMAIN nodes : nodes[i].name = Manifest(p).package.name}

\* ResolveNode returns node i: the caller's edge, when there is a caller.
Return(i, rest) ==
  IF rest = <<>>
  THEN stack' = rest /\ UNCHANGED ended
  ELSE LET f == rest[Len(rest)]
       IN  IF f.dep.package \in {None, nodes[i].name}
           THEN /\ stack' = [rest EXCEPT ![Len(rest)] =
                     [f EXCEPT !.dep = None, !.todo = @ \ {f.dep},
                               !.edges = @ \cup {[alias |-> f.dep.alias, to |-> i]}]]
                /\ UNCHANGED ended
           ELSE stack' = rest /\ End("name")

Calling == phase = "walking" /\ call # None

Cycle ==
  /\ Calling
  /\ \E i \in At(call) : ~nodes[i].done
  /\ Stop("cycle")

\* Variant: a package that is being visited is taken like one that was.
Reuse_Active ==
  /\ Calling
  /\ \E i \in At(call) :
       /\ Return(i, stack)
       /\ call' = None
       /\ UNCHANGED <<world, cached, kept, given, chosen, seeds, nodes>>

\* Variant: nothing is left to do for a package that was visited.
Reuse_Skips ==
  /\ Calling
  /\ \E i \in At(call) :
       /\ nodes[i].done
       /\ stack' = IF stack = <<>> THEN stack
                   ELSE [stack EXCEPT ![Len(stack)] =
                          [Frame EXCEPT !.dep = None, !.todo = @ \ {Frame.dep}]]
       /\ call' = None
       /\ UNCHANGED <<world, cached, kept, ended, given, chosen, seeds, nodes>>

\* Variant: the loop goes on with the same dependency.
Reuse_Again ==
  /\ Calling
  /\ \E i \in At(call) :
       /\ nodes[i].done
       /\ stack' = IF stack = <<>> THEN stack
                   ELSE [stack EXCEPT ![Len(stack)].dep = None]
       /\ call' = None
       /\ UNCHANGED <<world, cached, kept, ended, given, chosen, seeds, nodes>>

Reuse ==
  /\ Calling
  /\ \E i \in At(call) :
       /\ nodes[i].done
       /\ Return(i, stack)
       /\ call' = None
       /\ UNCHANGED <<world, cached, kept, given, chosen, seeds, nodes>>

NoPackage ==
  /\ Calling /\ At(call) = {} /\ ~HasPackage(call.place)
  /\ Stop("package")

Conflict ==
  /\ Calling /\ At(call) = {} /\ HasPackage(call.place)
  /\ \E i \in NamedLike(call.place) :
       Stop(IF nodes[i].version # Manifest(call.place).package.version
            THEN "version" ELSE "source")

\* Variant: the chain handed on is the caller's own.
Visit_CallersChain ==
  /\ Calling /\ At(call) = {} /\ HasPackage(call.place)
  /\ NamedLike(call.place) = {}
  /\ LET m == Manifest(call.place)
         i == Len(nodes) + 1
         above == IF stack = <<>> THEN <<>> ELSE nodes[Frame.node].chain
     IN  /\ nodes' = Append(nodes,
              [place |-> call.place, origin |-> call.origin,
               name |-> m.package.name, version |-> m.package.version,
               chain |-> IF above = <<>> THEN <<i>> ELSE Append(SubSeq(above, 1, Len(above) - 1), i), edges |-> {}, done |-> FALSE])
         /\ stack' = Append(stack, [node |-> i, todo |-> m.deps, dep |-> None,
                                    edges |-> {}])
  /\ call' = None
  /\ UNCHANGED <<world, cached, kept, ended, given, chosen, seeds>>

\* Variant: names are not compared.
Visit_Anyway ==
  /\ Calling /\ At(call) = {} /\ HasPackage(call.place)
  /\ LET m == Manifest(call.place)
         i == Len(nodes) + 1
         above == IF stack = <<>> THEN <<>> ELSE nodes[Frame.node].chain
     IN  /\ nodes' = Append(nodes,
              [place |-> call.place, origin |-> call.origin,
               name |-> m.package.name, version |-> m.package.version,
               chain |-> Append(above, i), edges |-> {}, done |-> FALSE])
         /\ stack' = Append(stack, [node |-> i, todo |-> m.deps, dep |-> None,
                                    edges |-> {}])
  /\ call' = None
  /\ UNCHANGED <<world, cached, kept, ended, given, chosen, seeds>>

\* A package nobody has asked for yet.
Visit ==
  /\ Calling /\ At(call) = {} /\ HasPackage(call.place)
  /\ NamedLike(call.place) = {}
  /\ LET m == Manifest(call.place)
         i == Len(nodes) + 1
         above == IF stack = <<>> THEN <<>> ELSE nodes[Frame.node].chain
     IN  /\ nodes' = Append(nodes,
              [place |-> call.place, origin |-> call.origin,
               name |-> m.package.name, version |-> m.package.version,
               chain |-> Append(above, i), edges |-> {}, done |-> FALSE])
         /\ stack' = Append(stack, [node |-> i, todo |-> m.deps, dep |-> None,
                                    edges |-> {}])
  /\ call' = None
  /\ UNCHANGED <<world, cached, kept, ended, given, chosen, seeds>>

\* Its dependencies are visited.
Leave ==
  /\ Idle /\ stack # <<>> /\ Frame.todo = {}
  /\ nodes' = [nodes EXCEPT ![Frame.node] =
                 [@ EXCEPT !.edges = Frame.edges, !.done = TRUE]]
  /\ Return(Frame.node, SubSeq(stack, 1, Len(stack) - 1))
  /\ UNCHANGED <<world, cached, kept, given, chosen, seeds, call>>

(***************************************************************************)
(* The lockfile of the graph that was found.                               *)
(***************************************************************************)
Id(n) == [kind |-> n.origin.kind, name |-> n.name, version |-> n.version,
          snap |-> n.origin.snap]

\* A relative path to a repository is made absolute.
Url(n) == IF n.origin.snap \in LocalRepo THEN home ELSE None

Rendered ==
  {[id |-> Id(nodes[i]), url |-> Url(nodes[i]),
    deps |-> {Id(nodes[e.to]) : e \in nodes[i].edges}] : i \in DOMAIN nodes}

\* One alias in both tables of dependencies.
DoubledAlias ==
  \E i \in DOMAIN nodes : \E d, e \in nodes[i].edges : d # e /\ d.alias = e.alias

Finish ==
  /\ Idle /\ stack = <<>> /\ seeds = {}
  /\ \/ DoubledAlias /\ Stop("alias")
     \/ ~DoubledAlias /\ locked /\ lock # Rendered /\ Stop("stale")
     \/ ~DoubledAlias /\ locked /\ lock = Rendered /\ Stop("ok")
     \/ /\ ~DoubledAlias /\ ~locked
        /\ lock' = Rendered /\ from' = IF steady THEN tree ELSE None
        /\ End("ok")
        /\ UNCHANGED <<world, cached, runs, given, chosen, walk>>

Step ==
  \/ \E s \in seeds : CallSeed(s)
  \/ stack # <<>> /\ \E d \in Frame.todo : Pick(d)
  \/ FetchFails \/ Materialize \/ CallDependency
  \/ Cycle \/ Reuse \/ NoPackage \/ Conflict \/ Visit \/ Leave \/ Finish

(***************************************************************************)
(* Between resolutions: edits, a move of the project, releases, a cleaned  *)
(* cache.                                                                  *)
(***************************************************************************)
Edit ==
  /\ "edit" \in Changes /\ runs > 0
  /\ IF phase = "idle" THEN runs < MaxRuns ELSE "editDuring" \in Changes
  /\ tree \in Editable
  /\ tree' \in Editable \ {tree}
  /\ steady' = FALSE
  /\ UNCHANGED <<archive, index, home, cached, kept, ended, chosen, walk>>
  /\ UNCHANGED <<locked, root, hints, tops>>

Move(h) ==
  /\ "move" \in Changes /\ phase = "idle" /\ home' = h
  /\ UNCHANGED <<tree, archive, index, cached, kept, ended, given, chosen, walk>>

\* pafio publish: only registry dependencies, and the manifest as it is.
Publish(p, d) ==
  /\ "publish" \in Changes
  /\ Inside[p] = None /\ tree[p] # None /\ tree[p].package \in Release
  /\ \A e \in tree[p].deps : e.kind = "registry"
  /\ index[tree[p].package] = None \/ "republish" \in Changes
  /\ archive[d] \in {None, tree[p]}
  /\ \A e \in Digest : archive[e] = tree[p] => e = d
  /\ archive' = [archive EXCEPT ![d] = tree[p]]
  /\ index' = [index EXCEPT ![tree[p].package] = d]
  /\ UNCHANGED <<tree, home, cached, kept, ended, given, chosen, walk>>

Clean ==
  /\ "clean" \in Changes /\ phase = "idle" /\ cached' = {}
  /\ UNCHANGED <<world, kept, ended, given, chosen, walk>>

Next ==
  \/ \E l \in BOOLEAN : Begin(l)
  \/ Step
  \/ Edit
  \/ \E h \in Home : Move(h)
  \/ \E p \in Place, d \in Digest : Publish(p, d)
  \/ Clean

Spec == Init /\ [][Next]_vars /\ WF_vars(Step)

(***************************************************************************)
(* Properties                                                              *)
(***************************************************************************)
Origins == [kind : {"workspace", "path", "git", "registry"},
            snap : Repo \cup Digest \cup {None}]
Selections == [place : Place \cup Digest, origin : Origins]
ASSUME SelectionAssumption == None \notin Selections

Edges == [alias : Alias, to : Nat]
Nodes == [place : Place \cup Digest, origin : Origins, name : Name,
          version : Version, chain : Seq(Nat), edges : SUBSET Edges,
          done : BOOLEAN]
Frames == [node : Nat, todo : SUBSET Dependencies,
           dep : Dependencies \cup {None}, edges : SUBSET Edges]

\* Every variable holds a value of its kind, a caller waits for one of its
\* dependencies, and what is declared, chosen or cached is an archive.
TypeOK ==
  /\ tree \in [Place -> Manifests \cup {None}] /\ tree[Root] # None
  /\ archive \in [Digest -> Manifests \cup {None}]
  /\ index \in [Release -> Digest \cup {None}] /\ cached \subseteq Digest
  /\ runs \in Nat /\ {locked, steady} \subseteq BOOLEAN
  /\ phase \in {"idle", "walking"}
  /\ root \in Manifests /\ tops \subseteq Place
  /\ hints \in [Release -> Digest \cup {None}]
  /\ chosen \in [Release -> Digest \cup {None}]
  /\ seeds \subseteq Selections /\ call \in Selections \cup {None}
  /\ stack \in Seq(Frames) /\ nodes \in Seq(Nodes)
  /\ \A k \in DOMAIN stack :
       /\ stack[k].node \in DOMAIN nodes
       /\ k < Len(stack) \/ call # None => stack[k].dep # None
  /\ \A d \in cached : archive[d] # None
  /\ \A r \in Release :
       /\ index[r] # None => archive[index[r]] # None
       /\ chosen[r] # None => archive[chosen[r]] # None

\* The walk is depth first: the calls that are open are those of the packages
\* not yet done, in the order they were found, and a package is done only when
\* everything its edges lead to is.
DepthFirst ==
  /\ \A k \in DOMAIN stack :
       /\ ~nodes[stack[k].node].done
       /\ \A m \in DOMAIN stack : stack[k].node = stack[m].node => k = m
       /\ \A e \in stack[k].edges : e.to \in DOMAIN nodes /\ nodes[e.to].done
  /\ \A i \in DOMAIN nodes :
       /\ nodes[i].done \/ \E k \in DOMAIN stack : stack[k].node = i
       /\ \A e \in nodes[i].edges :
            nodes[i].done /\ e.to \in DOMAIN nodes /\ nodes[e.to].done

\* A name stands for one version from one source, whatever is edited while
\* the graph is walked.
OneSourcePerName ==
  \A i, j \in DOMAIN nodes : nodes[i].name = nodes[j].name => i = j

\* The walk is over and nothing is written yet.
Walked == Idle /\ stack = <<>> /\ seeds = {}

Deps(i) == Manifest(nodes[i].place).deps
Leads(i, j) == \E d \in Deps(i) : \E s \in Targets(nodes[i], d) : j \in At(s)

\* The graph a resolution ends with is the one its manifests describe, when they
\* are not edited meanwhile: it has
\* the project's packages, an edge for each dependency of a package it has, to
\* the package that dependency selects, and nothing else.  The order of the
\* walk does not show.
GraphIsExact ==
  Walked /\ steady =>
    /\ \A p \in Seeds(root) : At([place |-> p, origin |-> Workspace]) # {}
    /\ \A i \in DOMAIN nodes :
         nodes[i].edges = UNION {{[alias |-> d.alias, to |-> j] :
            j \in UNION {At(s) : s \in Targets(nodes[i], d)}} : d \in Deps(i)}
    /\ \A i \in DOMAIN nodes, d \in UNION {Deps(i) : i \in DOMAIN nodes} :
         d \in Deps(i) => Targets(nodes[i], d) # {}
    /\ \A j \in DOMAIN nodes :
         \/ nodes[j].place \in Seeds(root)
         \/ \E i \in DOMAIN nodes : \E e \in nodes[i].edges : e.to = j

\* No graph with a cycle is accepted, however the cycle is reached: every set
\* of packages has one none of whose edges stays in the set.
GraphIsAcyclic ==
  Walked =>
    \A C \in (SUBSET DOMAIN nodes) \ {{}} :
      \E i \in C : \A e \in nodes[i].edges : e.to \notin C

\* What an error reports is there: the cycle, from the package that is called
\* again to the one that calls it, and the two chains of a conflict, each from
\* one of the project's packages.
IsPath(p) == \A k \in 1..(Len(p) - 1) : Leads(p[k], p[k + 1])
IsChain(p) == nodes[p[1]].place \in Seeds(root) /\ IsPath(p)
ReportsAreTrue ==
  (phase = "idle" /\ call # None /\ steady) =>
    /\ outcome = "cycle" =>
         \E k \in DOMAIN stack :
           LET cycle == SubSeq(stack, k, Len(stack))
           IN  /\ stack[k].node \in At(call)
               /\ IsPath([m \in DOMAIN cycle |-> cycle[m].node])
               /\ Leads(Frame.node, stack[k].node)
    /\ outcome \in {"version", "source"} =>
         /\ \A i \in NamedLike(call.place) : IsChain(nodes[i].chain)
         /\ stack # <<>> =>
              /\ IsChain([k \in DOMAIN stack |-> stack[k].node])
              /\ \E d \in Deps(Frame.node) : call \in Targets(nodes[Frame.node], d)

\* A resolution ends, cycles or not.
Terminates == (phase = "walking") ~> (phase = "idle")

\* A lockfile that was written for the manifests as they are is neither stale
\* nor incomplete for sync --locked, in whatever order the graph is walked.
OwnLockIsFresh ==
  [][(phase = "walking" /\ phase' = "idle" /\ locked /\ steady /\ from = tree)
       => outcome' \in {"ok", "fetch", "changed"}]_vars

\* Unless a version is edited, a locked digest stays: no release of the old
\* lockfile has another digest in the new one, whatever the registry does.
LockIsHonoured ==
  [][\A new \in (IF lock' = lock THEN {} ELSE lock') :
       \A old \in (IF lock \in NoLock THEN {} ELSE lock) :
         (/\ new.id.kind = "registry" /\ old.id.kind = "registry"
          /\ new.id.name = old.id.name /\ new.id.version = old.id.version)
         => new.id.snap = old.id.snap]_vars
=============================================================================
