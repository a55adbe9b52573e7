---------------------------- MODULE BuildCommand ----------------------------
(***************************************************************************)
(* check, build, run and test: one command, from its request to the        *)
(* compiler's receipt (HandlePlanCommand in PafioApp/WorkflowApp.cpp and   *)
(* WriteBuildCompilePlan in PafioPlan/CompilePlan.cpp).                    *)
(*                                                                         *)
(* A command looks at its surroundings again and again: sync reads the     *)
(* manifests, the probe runs the compiler, the plan reads every manifest   *)
(* and every source for the cache key, and only then the compiler reads    *)
(* them.  Nothing is locked after sync has returned, so all of these may   *)
(* change between any two of them.  Sync itself is ProjectState and        *)
(* Resolver, the allocation and pruning of directories InvocationDirs.     *)
(***************************************************************************)
EXTENDS Integers, FiniteSets, Sequences, Functions, TLC

CONSTANTS
  Proc,        \* commands, each runs once
  Package,     \* packages, numbered in the order of their ids
  Name,        \* names of [[bin]] and [[test]] targets
  Config,      \* edition and implicit-std of a package
  Content,     \* contents of a package's target files
  Compiler,    \* compilers: [version, fit]
  Options,     \* profile and emission requests, all part of the cache key
  Scenarios,   \* workspaces, requests and disturbances to look at
  Absent,      \* a file that does not exist
  None

Target ==
  [kind : {"lib"}, name : {None}] \cup [kind : {"bin", "test"}, name : Name]

\* What the plan takes from a manifest.  Its text is modelled by it.
Manifest == [deps : SUBSET Package, targets : SUBSET Target, config : Config]

Intent == {"check", "build", "run", "test"}

\* --package, and --lib, --bin and --test as the set of targets they name.
Request ==
  [intent : Intent, package : Package \cup {None},
   pick : SUBSET Target, options : Options, dry : BOOLEAN]

Change == {"manifest", "source", "compiler", "prune", "disk", "careless"}

ASSUME BuildAssumption ==
  /\ Package \subseteq Nat
  /\ Content # {}
  /\ None \notin Package \cup Name
  /\ Absent \notin Content \cup Manifest \cup Compiler
  /\ \A c \in Compiler : c.fit \in BOOLEAN
  /\ \A s \in Scenarios :
       /\ s.roots \in (SUBSET Package) \ {{}}
       /\ s.top \in s.roots \cup {None}
       /\ s.manifests \in [Package -> Manifest]
       /\ s.touched \subseteq Package
       /\ s.edits \subseteq Manifest \cup {Absent}
       /\ s.requests \subseteq Request
       /\ s.procs \subseteq Proc
       /\ s.changes \subseteq Change

VARIABLES
  scenario,
  manifests,  \* pafio.toml of each package
  sources,    \* its target files
  compiler,   \* what is installed where the command looks for Styio
  phase,      \* what a command does next, or how it ended
  request,
  graph,      \* the packages sync resolved, with the manifests it read
  checked,    \* the compiler that answered the probe
  entry,      \* the target to build
  stack,      \* BuildPackageOrder: packages being visited
  order,      \* package_order
  digest,     \* what source_hash is the hash of so far
  dir,        \* what is in the invocation's directory
  used,       \* history: what the compiler that ran was given
  moved,      \* history: what it had looked at changed while it ran
  spoiled     \* history: a part of its directory was lost, or not all of the
              \* plan was written

world == <<manifests, sources, compiler>>
history == <<moved, spoiled>>
vars == <<scenario, world, phase, request, graph, checked, entry, stack, order,
          digest, dir, used, history>>

Ended == {"failed", "planned", "succeeded"}
Phases == {"idle", "sync", "probe", "entry", "order", "hash", "describe",
           "write", "compile", "validate"} \cup Ended

FileState == [manifest : Manifest, source : Content]
Parts == {"root", "artifacts", "diag", "plan", "receipt"}
Entry == [package : Package, target : Target]
Inputs ==
  [version : {c.version : c \in Compiler}, intent : Intent, options : Options,
   entry : Entry, files : [Package -> FileState \cup {None}]]

ASSUME NoneAssumption ==
  None \notin Request \cup Compiler \cup Entry \cup FileState \cup Inputs
            \cup [Package -> Manifest \cup {Absent}]

TypeOK ==
  /\ scenario \in Scenarios
  /\ manifests \in [Package -> Manifest \cup {Absent}]
  /\ sources \in [Package -> Content \cup {Absent}]
  /\ compiler \in Compiler \cup {Absent}
  /\ phase \in [Proc -> Phases]
  /\ request \in [Proc -> Request \cup {None}]
  /\ graph \in [Proc -> [Package -> Manifest \cup {Absent}] \cup {None}]
  /\ checked \in [Proc -> Compiler \cup {None}]
  /\ entry \in [Proc -> Entry \cup {None}]
  /\ stack \in [Proc -> Seq(Package)]
  /\ order \in [Proc -> Seq(Package)]
  /\ digest \in [Proc -> [Package -> FileState \cup {None}]]
  /\ dir \in [Proc -> SUBSET Parts]
  /\ used \in [Proc -> Inputs \cup {None}]
  /\ moved \in [Proc -> BOOLEAN]
  /\ spoiled \in [Proc -> BOOLEAN]

Init ==
  /\ scenario \in Scenarios
  /\ manifests = scenario.manifests
  /\ sources \in [Package -> {CHOOSE c \in Content : TRUE}]
  /\ compiler \in {c \in Compiler : c.fit}
  /\ phase = [p \in Proc |-> "idle"]
  /\ request = [p \in Proc |-> None]
  /\ graph = [p \in Proc |-> None]
  /\ checked = [p \in Proc |-> None]
  /\ entry = [p \in Proc |-> None]
  /\ stack = [p \in Proc |-> <<>>]
  /\ order = [p \in Proc |-> <<>>]
  /\ digest = [p \in Proc |-> [q \in Package |-> None]]
  /\ dir = [p \in Proc |-> {}]
  /\ used = [p \in Proc |-> None]
  /\ moved = [p \in Proc |-> FALSE]
  /\ spoiled = [p \in Proc |-> FALSE]

Goto(p, next) == phase' = [phase EXCEPT ![p] = next]
Running(p) == phase[p] \notin {"idle"} \cup Ended

-----------------------------------------------------------------------------
(* From the request to the entry target.                                    *)

\* HandleCheck, HandleBuild, HandleRun, HandleTest: the selectors the parser
\* lets through.
Accepted(intent) ==
  CASE intent = "check" -> {"lib", "bin", "test"}
    [] intent = "build" -> {"lib", "bin"}
    [] intent = "run"   -> {"bin"}
    [] intent = "test"  -> {"test"}

Start(p) ==
  /\ phase[p] = "idle"
  /\ p \in scenario.procs
  /\ \E r \in scenario.requests :
       /\ \A t \in r.pick : t.kind \in Accepted(r.intent)
       /\ request' = [request EXCEPT ![p] = r]
  /\ Goto(p, "sync")
  /\ UNCHANGED <<scenario, world, graph, checked, entry, stack, order, digest,
                 dir, used, history>>

\* The packages the resolver reaches from the roots.
Reached ==
  {q \in Package :
     \A S \in SUBSET Package :
       /\ scenario.roots \subseteq S
       /\ \A r \in S : manifests[r] # Absent => manifests[r].deps \subseteq S
       => q \in S}

\* The resolver fails on a missing manifest and on a cycle.
Resolvable ==
  /\ \A q \in Reached : manifests[q] # Absent
  /\ \A S \in (SUBSET Reached) \ {{}} : \E q \in S : manifests[q].deps \cap S = {}

\* SyncProjectDependencies, whose graph the command keeps.
Sync(p) ==
  /\ phase[p] = "sync"
  /\ Resolvable
  /\ graph' = [graph EXCEPT ![p] =
       [q \in Package |-> IF q \in Reached THEN manifests[q] ELSE Absent]]
  /\ Goto(p, IF request[p].dry THEN "entry" ELSE "probe")
  /\ UNCHANGED <<scenario, world, request, checked, entry, stack, order, digest,
                 dir, used, history>>

SyncFails(p) ==
  /\ phase[p] = "sync"
  /\ ~Resolvable
  /\ Goto(p, "failed")
  /\ UNCHANGED <<scenario, world, request, graph, checked, entry, stack, order,
                 digest, dir, used, history>>

Fail(p) ==
  /\ Goto(p, "failed")
  /\ UNCHANGED <<scenario, world, request, graph, checked, entry, stack, order,
                 digest, dir, used, history>>

\* ProbeMachineInfo and FindMatchingEntry: it answers, and the compatibility
\* matrix has an entry for what it says.
Fits(c) == c # Absent /\ c.fit

\* ResolveStyioBinary and CheckCompilerCompatibility.
Probe(p) ==
  /\ phase[p] = "probe"
  /\ IF Fits(compiler)
       THEN /\ checked' = [checked EXCEPT ![p] = compiler]
            /\ Goto(p, "entry")
            /\ UNCHANGED <<scenario, world, request, graph, entry, stack, order,
                           digest, dir, used, history>>
       ELSE Fail(p)

Members(p) == {q \in Package : graph[p][q] # Absent}

\* ValidateUniformBuildConfig.
Uniform(p) == \A q, r \in Members(p) : graph[p][q].config = graph[p][r].config

\* ResolveEntryPackage: the one package, if there is one.
EntryPackage(p) ==
  IF request[p].package # None THEN {request[p].package} \cap scenario.roots
  ELSE IF scenario.top # None THEN {scenario.top}
  ELSE {q \in scenario.roots : scenario.roots = {q}}

OfKind(m, kind) == {t \in m.targets : t.kind = kind}
IfSingle(S) == {t \in S : S = {t}}

\* Variant: the first target of the kind, however many there are.
EntryTarget_First(r, m) ==
  CASE r.pick # {} -> IfSingle(r.pick) \cap m.targets
    [] r.pick = {} /\ r.intent = "test" -> OfKind(m, "test")
    [] r.pick = {} /\ r.intent = "run"  -> OfKind(m, "bin")
    [] OTHER -> OfKind(m, "lib") \cup OfKind(m, "bin")

\* ResolveEntryTarget: the one target, if there is one.
EntryTarget(r, m) ==
  LET lib == OfKind(m, "lib")
      bins == OfKind(m, "bin")
      tests == OfKind(m, "test")
  IN CASE r.pick # {} -> IfSingle(r.pick) \cap m.targets
       [] r.pick = {} /\ r.intent = "test" -> IfSingle(tests)
       [] r.pick = {} /\ r.intent = "run"  -> IfSingle(bins)
       [] OTHER ->
            IF bins = {} /\ lib # {} THEN lib
            ELSE IF lib = {} /\ bins # {} THEN IfSingle(bins)
            ELSE IF r.intent = "check" /\ lib \cup bins = {} THEN IfSingle(tests)
            ELSE {}

SelectEntry(p) ==
  /\ phase[p] = "entry"
  /\ LET found == {e \in Entry :
                     /\ e.package \in EntryPackage(p)
                     /\ e.target \in EntryTarget(request[p], graph[p][e.package])}
         present == /\ scenario.top # None => manifests[scenario.top] # Absent
                    /\ \A e \in found : sources[e.package] # Absent
     IN IF Uniform(p) /\ found # {} /\ present
          THEN /\ \E e \in found : entry' = [entry EXCEPT ![p] = e]
               /\ Goto(p, "order")
               /\ UNCHANGED <<scenario, world, request, graph, checked, stack,
                              order, digest, dir, used, history>>
          ELSE Fail(p)

-----------------------------------------------------------------------------
(* BuildPackageOrder.                                                       *)

First(S) == {q \in S : \A r \in S : q <= r}
Top(p) == stack[p][Len(stack[p])]
ButTop(p) == SubSeq(stack[p], 1, Len(stack[p]) - 1)

\* The package to visit next: of the top one's dependencies, or of all when
\* none is being visited.
Unvisited(p) ==
  (IF stack[p] = <<>> THEN Members(p) ELSE graph[p][Top(p)].deps)
    \ Range(order[p])

\* visit; the resolver has made sure that no package is met on the stack.
Visit(p) ==
  /\ phase[p] = "order"
  /\ \E q \in First(Unvisited(p)) :
       IF q \in Range(stack[p]) THEN Fail(p)
       ELSE /\ stack' = [stack EXCEPT ![p] = Append(@, q)]
            /\ UNCHANGED <<scenario, world, phase, request, graph, checked,
                           entry, order, digest, dir, used, history>>

\* Variant: a package is placed when it is reached, before its dependencies.
Place_Before(p) ==
  /\ phase[p] = "order"
  /\ stack[p] # <<>>
  /\ order' = [order EXCEPT ![p] = Append(@, Top(p))]
  /\ stack' = [stack EXCEPT ![p] = ButTop(p)]
  /\ UNCHANGED <<scenario, world, phase, request, graph, checked, entry, digest,
                 dir, used, history>>

\* Every dependency is placed, so is the package itself.
Place(p) ==
  /\ phase[p] = "order"
  /\ stack[p] # <<>>
  /\ Unvisited(p) = {}
  /\ order' = [order EXCEPT ![p] = Append(@, Top(p))]
  /\ stack' = [stack EXCEPT ![p] = ButTop(p)]
  /\ UNCHANGED <<scenario, world, phase, request, graph, checked, entry, digest,
                 dir, used, history>>

Ordered(p) ==
  /\ phase[p] = "order"
  /\ stack[p] = <<>>
  /\ Unvisited(p) = {}
  /\ Goto(p, "hash")
  /\ UNCHANGED <<scenario, world, request, graph, checked, entry, stack, order,
                 digest, dir, used, history>>

-----------------------------------------------------------------------------
(* The cache key and the directory.                                         *)

Unread(p) == {q \in Members(p) : digest[p][q] = None}

\* BuildSourceHash reads the files in the order of their paths, which may put
\* any package first.
Hash(p) ==
  /\ phase[p] = "hash"
  /\ \E q \in Unread(p) :
       IF manifests[q] # Absent /\ sources[q] # Absent
         THEN /\ digest' = [digest EXCEPT ![p][q] =
                   [manifest |-> manifests[q], source |-> sources[q]]]
              /\ UNCHANGED <<scenario, world, phase, request, graph, checked,
                             entry, stack, order, dir, used, history>>
         ELSE Fail(p)

\* Variant: the sources of the entry package alone.
Key_EntryOnly(p) ==
  [version |-> checked[p].version, intent |-> request[p].intent,
   options |-> request[p].options, entry |-> entry[p],
   source |-> digest[p][entry[p].package]]

\* cache_material; the hash of it is taken to be injective.
Key(p) ==
  [version |-> checked[p].version, intent |-> request[p].intent,
   options |-> request[p].options, entry |-> entry[p], source |-> digest[p]]

\* AllocateInvocationRoot: a directory of its own.
Allocate(p) ==
  /\ phase[p] = "hash"
  /\ Unread(p) = {}
  /\ dir' = [dir EXCEPT ![p] = {"root"}]
  /\ Goto(p, "describe")
  /\ UNCHANGED <<scenario, world, request, graph, checked, entry, stack, order,
                 digest, used, history>>

\* BuildPackageJson looks for every source once more; then the directories are
\* made, the invocation's own again should it be gone.
Describe(p) ==
  /\ phase[p] = "describe"
  /\ IF \A q \in Members(p) : sources[q] # Absent
       THEN /\ dir' = [dir EXCEPT ![p] = @ \cup {"root", "artifacts", "diag"}]
            /\ Goto(p, "write")
            /\ UNCHANGED <<scenario, world, request, graph, checked, entry,
                           stack, order, digest, used, history>>
       ELSE Fail(p)

\* An ofstream: what the last buffer held is written when the stream is
\* destroyed, and nobody asks whether it was.
WritePlan(p) ==
  /\ phase[p] = "write"
  /\ "root" \in dir[p]
  /\ dir' = [dir EXCEPT ![p] = @ \cup {"plan"}]
  /\ \/ UNCHANGED spoiled
     \/ "disk" \in scenario.changes /\ spoiled' = [spoiled EXCEPT ![p] = TRUE]
  /\ Goto(p, IF request[p].dry THEN "planned" ELSE "compile")
  /\ UNCHANGED <<scenario, world, request, graph, checked, entry, stack, order,
                 digest, used, moved>>

\* It cannot be opened, or the failure is noticed.
WritePlanFails(p) ==
  /\ phase[p] = "write"
  /\ "root" \notin dir[p] \/ "disk" \in scenario.changes
  /\ Fail(p)

-----------------------------------------------------------------------------
(* The compiler.                                                            *)

\* What the compiler is given by the plan and reads of the sources itself.
Given(p) ==
  [version |-> compiler.version, intent |-> request[p].intent,
   options |-> request[p].options, entry |-> entry[p],
   files |-> [q \in Package |->
      IF q \in Members(p)
        THEN [manifest |-> graph[p][q], source |-> sources[q]] ELSE None]]

\* RunProcess without a deadline.  A compiler that exits with 0 has read what the
\* plan names and left its receipt, unless it is careless or finds its directory
\* removed.
Compile(p) ==
  /\ phase[p] = "compile"
  /\ compiler # Absent /\ "plan" \in dir[p]
  /\ \A q \in Members(p) : sources[q] # Absent
  /\ used' = [used EXCEPT ![p] = Given(p)]
  /\ \/ dir' = [dir EXCEPT ![p] = @ \cup {"receipt"}]
     \/ "careless" \in scenario.changes /\ UNCHANGED dir
  /\ Goto(p, "validate")
  /\ UNCHANGED <<scenario, world, request, graph, checked, entry, stack, order,
                 digest, history>>

\* It cannot be started, or it exits with another code.
CompileFails(p) ==
  /\ phase[p] = "compile"
  /\ Fail(p)

\* Variant: the exit code is believed.
Validate_ExitCode(p) ==
  /\ phase[p] = "validate"
  /\ Goto(p, "succeeded")
  /\ UNCHANGED <<scenario, world, request, graph, checked, entry, stack, order,
                 digest, dir, used, history>>

\* ValidateCompilePlanMaterialization.
Validate(p) ==
  /\ phase[p] = "validate"
  /\ Goto(p, IF {"root", "artifacts", "diag", "receipt"} \subseteq dir[p]
               THEN "succeeded" ELSE "failed")
  /\ UNCHANGED <<scenario, world, request, graph, checked, entry, stack, order,
                 digest, dir, used, history>>

-----------------------------------------------------------------------------
(* What happens meanwhile.                                                  *)

EditManifest ==
  /\ "manifest" \in scenario.changes
  /\ \E q \in scenario.touched, m \in scenario.edits :
       m # manifests[q] /\ manifests' = [manifests EXCEPT ![q] = m]
  /\ moved' = [p \in Proc |-> moved[p] \/ (Running(p) /\ graph[p] # None)]
  /\ UNCHANGED <<scenario, sources, compiler, phase, request, graph, checked,
                 entry, stack, order, digest, dir, used, spoiled>>

EditSource ==
  /\ "source" \in scenario.changes
  /\ \E q \in scenario.touched, c \in Content \cup {Absent} :
       /\ c # sources[q]
       /\ sources' = [sources EXCEPT ![q] = c]
       /\ moved' = [p \in Proc |->
                      moved[p] \/ (Running(p) /\ digest[p][q] # None)]
  /\ UNCHANGED <<scenario, manifests, compiler, phase, request, graph, checked,
                 entry, stack, order, digest, dir, used, spoiled>>

Install ==
  /\ "compiler" \in scenario.changes
  /\ compiler' \in (Compiler \cup {Absent}) \ {compiler}
  /\ moved' = [p \in Proc |-> moved[p] \/ (Running(p) /\ checked[p] # None)]
  /\ UNCHANGED <<scenario, manifests, sources, phase, request, graph, checked,
                 entry, stack, order, digest, dir, used, spoiled>>

\* Another invocation of the same key prunes, or a user cleans up.
Prune ==
  /\ "prune" \in scenario.changes
  /\ \E p \in Proc :
       /\ Running(p) /\ dir[p] # {}
       /\ \E kept \in {dir[p] \ {part} : part \in dir[p] \ {"root"}} \cup {{}} :
            dir' = [dir EXCEPT ![p] = kept]
       /\ spoiled' = [spoiled EXCEPT ![p] = TRUE]
  /\ UNCHANGED <<scenario, world, phase, request, graph, checked, entry, stack,
                 order, digest, used, moved>>

Step(p) ==
  \/ Start(p)
  \/ Sync(p) \/ SyncFails(p)
  \/ Probe(p)
  \/ SelectEntry(p)
  \/ Visit(p) \/ Place(p) \/ Ordered(p)
  \/ Hash(p)
  \/ Allocate(p) \/ Describe(p)
  \/ WritePlan(p) \/ WritePlanFails(p)
  \/ Compile(p) \/ CompileFails(p)
  \/ Validate(p)

Next ==
  \/ \E p \in Proc : Step(p)
  \/ EditManifest
  \/ EditSource
  \/ Install
  \/ Prune

Spec == Init /\ [][Next]_vars

-----------------------------------------------------------------------------
(* Properties.                                                              *)

Before(p, q, r) ==
  \E i, j \in DOMAIN order[p] : i < j /\ order[p][i] = q /\ order[p][j] = r

\* BuildPackageOrder: no package comes twice, each comes after all it depends
\* on, and in the end all of the graph is there, whatever shape the graph has.
OrderIsTopological ==
  \A p \in Proc :
    /\ \A i, j \in DOMAIN order[p] : order[p][i] = order[p][j] => i = j
    /\ \A r \in Range(order[p]) : \A q \in graph[p][r].deps : Before(p, q, r)
    /\ phase[p] \in {"hash", "describe", "write", "compile", "validate"} =>
         Range(order[p]) = Members(p)

\* The targets a request may mean.
Candidates(p) ==
  LET r == request[p]
      packages == IF r.package # None THEN {r.package}
                  ELSE IF scenario.top # None THEN {scenario.top}
                  ELSE scenario.roots
      \* check falls back on tests where there is nothing else
      kinds(m) == IF r.intent = "check" /\ r.pick = {}
                  THEN IF \E t \in m.targets : t.kind # "test"
                         THEN {"lib", "bin"} ELSE {"test"}
                  ELSE Accepted(r.intent)
  IN {e \in Entry :
        /\ e.package \in packages \cap scenario.roots
        /\ e.target \in graph[p][e.package].targets
        /\ r.pick \subseteq {e.target}
        /\ e.target.kind \in kinds(graph[p][e.package])}

\* A command never guesses: the target it builds is the only one its request
\* can mean, and a request with one meaning is refused only for a file that is
\* missing, for mixed editions, or for want of --package.
EntryIsDetermined ==
  [][\A p \in Proc :
       phase[p] = "entry" /\ phase'[p] # "entry" =>
         \/ entry'[p] # None /\ Candidates(p) = {entry'[p]}
         \/ /\ phase'[p] = "failed"
            /\ \/ \A e \in Entry : Candidates(p) # {e}
               \/ ~Uniform(p)
               \/ \E q \in Package : Absent \in {sources[q], manifests[q]}
               \/ /\ request[p].package = None /\ scenario.top = None
                  /\ \A q \in Package : scenario.roots # {q}]_vars

\* "cache_key identifies equivalent compilation inputs": two compilations under
\* one key had the same compiler, request, manifests and sources, as long as
\* nothing changed after the command had looked at it.
KeyIdentifiesInputs ==
  \A p, q \in Proc :
    /\ used[p] # None /\ used[q] # None
    /\ ~moved[p] /\ ~moved[q]
    /\ Key(p) = Key(q)
    => used[p] = used[q]

\* Success means that the plan and the outputs are there, made by a compiler
\* that was found fit: neither an exit code alone nor anything earlier stands
\* in for them.
SuccessIsWhole ==
  \A p \in Proc :
    ~spoiled[p] =>
      /\ phase[p] = "planned" => "plan" \in dir[p] /\ used[p] = None
      /\ phase[p] = "succeeded" =>
           /\ dir[p] = Parts
           /\ ~moved[p] => used[p].version = checked[p].version
=============================================================================
