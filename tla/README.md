# Pafio: TLA+ models, model checking and proofs

Pafio is the package manager of the Styio language: a single C++ program (`src/src/`,
about 14,700 lines) without a daemon. Every command is a short-lived process. What one
process knows of the others, and of its own past, is in files: the project's, those of a
per-user home (`PAFIO_HOME`) that all projects share, and the registry's, over the
network. Most of what is hard here follows from that: commands of several processes
interleave between any two file operations, and a kill, a failing call or a loss of
power may come after any of them.

The modules here model the parts where state is kept, `MC*.tla` and the `.cfg` files
check them with TLC on small instances, and `*Proofs.tla` proves theorems about them
with TLAPS for all values of the constants. `PROJECT.json` says for each definition
which lines of the source it translates.

Contents: [inventory](#inventory), [modules](#modules-and-their-code),
[runs](#what-the-runs-check), [fairness](#fairness), [proofs](#what-is-proved),
[disagreements](#where-the-code-and-its-documents-disagree),
[limits](#what-is-not-modelled), [plan](#plan).

## Inventory

| Component | Source (`src/src/`) | State it keeps | Operations |
|---|---|---|---|
| Project state | `PafioWorkflow/Dependencies` | `pafio.toml`, `pafio.lock`, `.pafio/resolution-v1.json`, the project lock | sync, sync --locked, add, remove |
| Durable writes | `PafioCore/AtomicFile` | a target, a temporary file beside it | `AtomicWriteFile` |
| Lock files | `PafioCore/FileLock` | a `flock` per store, a thread-local list of held locks | acquire with a deadline, release |
| Resolver | `PafioResolve/Resolver` | none between runs; a graph, a stack and three memo tables within one | `ResolveDependencyGraph`, rendering of the lockfile |
| Git sources | `GitSourceCache` in `PafioResolve/Resolver`, `PafioVendor/Vendor` | mirrors and snapshots in `PAFIO_HOME`, `.pafio/vendor` in the project | mirror, archive, unpack, vendor |
| Registry cache | `PafioRegistryClient/Client` | archives by digest, unpacked checkouts, a lock per digest | inspect, fetch, unpack, remove |
| Registry trust | `PafioSecurity/RegistryTrust`, index cache in `Client` | `registry-trust.json`: an anchor and two version floors per registry; cached documents | import, read, raise |
| Metadata chain | `PafioSecurity/TufVerifier`, `CanonicalJson` | none between calls; within one, the position in the chain and the keys counted | verification of the chain of a package, of a whole registry |
| Signatures, digests | `PafioSecurity/Ed25519`, `PafioCore/Sha256`, `FnvHash` | none | pure functions of bytes |
| Archive inspection | `PafioSecurity/PrescanArchive`, `RegistrySecurity` | none | checks of an archive, of a URL |
| Manifests, lockfiles | `PafioManifest` | none | `LoadManifest`, `SerializeManifestCanonical`, the same for a lockfile |
| Compile plans | `PafioPlan/CompilePlan` | `.pafio/build/<key>/<invocation>/` | target selection, build order, allocation and pruning of directories |
| Build commands | `PafioApp/WorkflowApp`, `PafioCompat` | none of its own | check, build, run, test: sync, plan, compiler, receipt |
| External processes | `PafioCore/ProcessPosix`, `ProcessWindows` | children, pipes, a deadline | `RunProcess` |
| Packing, publishing | `PafioPack`, `PafioPublish`, `PafioApp/PackageApp` | an archive in `dist/` or where `--output` says, a temporary file beside it | pack, publish |
| Other commands | `PafioApp`, `PafioCLI`, `PafioTree` | none | arguments, printing, tree, doctor |
| Helpers | `PafioCore/Paths`, `ToolPaths`, `ContractLexicon` | none | joining of paths, lookup of programs, syntax of names |

**How they interact.** A build command runs sync; sync runs the resolver; the resolver
asks the git cache and the registry client for the manifests it reaches; the client
reads the trust store, the index cache and the digest cache, and raises the floors of
the trust store; sync then writes the lockfile and the resolution through
`AtomicWriteFile` under the project lock. The plan is written into an invocation
directory, and the compiler runs there through `RunProcess`. Everything is a call within
one process; between processes there are only the files.

**What is hard, and the property that makes each part correct.**

- *Project state.* Lockfile and resolution are two files; a resolution must never name a
  lockfile it does not belong to for good, and a command that reports success must have
  left what it says. Hazards: hand edits and other commands between the preparation and
  the commit, a kill between the two writes, a write that fails after its rename took
  effect, rollback of add and remove.
- *Durable writes.* The target is one call's whole content at every moment and after any
  loss of power, and a call that returned success stays.
- *Resolver.* The graph is exactly the one the manifests describe, has one source per
  name and no cycle, does not depend on the order of the walk, and a lockfile is fresh
  for the manifests it was made from. Hazards: manifests edited during a walk, cycles
  that pass through members, snapshots and dev-dependencies, digests the lock pins
  against what the registry says now.
- *Git sources.* What the resolver works with is a whole snapshot. Hazards: no lock at
  all, unpacking in place, vendoring that copies from what it has removed.
- *Registry cache.* A checkout that is handed out is complete, a digest is fetched once.
  Hazards: use after the lock is released, kills within a commit, removals that stop
  midway.
- *Registry trust.* No metadata older than what was accepted before; floors only rise,
  imports are not lost. Hazards: documents fetched one by one while the registry
  publishes, pins read without the lock and raised later.
- *Invocation directories.* No two invocations share one, the newest stay, the number is
  bounded. Hazards: equal clock readings, concurrent pruning, a reboot.
- *Build commands.* Plans are in the order of dependencies, the target is the one the
  request means, equal cache keys mean equal inputs, success means that the outputs are
  there. Hazards: manifests, sources, the compiler and directories that change between
  the many looks a command takes at them.
- *External processes.* A run comes back, keeps the output and leaves no process behind.
  Hazards: full pipes in both directions, children that close, hang, fork or write for
  ever, handles that are signalled together.
- *Metadata chain.* What is accepted is one state of the registry, signed by as many
  keys as the pinned root asks for, not expired and not older than the floors; and a
  registry that publishes as usual is never refused. Hazards: documents loaded one by
  one while the registry publishes, keys that sign twice, limits that are just met.
- *Packing and publishing.* An archive holds the files of the package and no credential;
  what is published is what the request declares; success means that the registry has
  it. Hazards: files and manifests that change between several looks at them, two
  commands with one archive, requests and answers that are late or lost.

The 40 hazards, each with its line and the properties that would notice it, are in
`PROJECT.json`.

## Modules and their code

A definition named `X_Y` is a variant of `X` with a plausible mistake. It is part of no
specification; it serves to see that a property notices the mistake. Variables that only
properties read are called history in the comments.

| Module | Models | State | Actions |
|---|---|---|---|
| `ProjectState` | `SyncProjectDependencies`, `AddDependencyAndRefreshLock`, `RemoveDependencyAndRefreshLock`, `CommitManifestEdit` | the three files, the manifests behind a path dependency, the holder of the project lock; per process its command, phase, and what it has read | one per read, decision, lock operation and write; hand edits; `Crash`; a failing write that did or did not take effect |
| `DurableRegister` | what the callers of `AtomicWriteFile` rely on | a value, the values a loss of power may reveal, calls | call, take effect, return, fail, lose power |
| `AtomicFile` | `AtomicWriteFile`, POSIX branch | target, temporary files, what of them is on disk | one per system call, each with its error path; kill, loss of power |
| `Resolver` | `SingleVersionResolver`, lock hints, the lockfile | source trees, registry index, archives; graph, stack, seeds, memo tables | `Begin`, one per frame operation, each error; edits, publishing, moves |
| `GitSnapshots` | `GitSourceCache`, `WriteVendorTree` for one revision | mirror, cached tree, vendored tree | find, clone, fetch, unpack file by file, marker, vendoring; kills, failing steps, cleaning |
| `RegistryCache` | `MaterializeRegistryPackage`, `InspectCache` for one digest | archive, checkouts, lock holder | inspect without and with the lock, fetch, two renames, removals that may stop; damage, kills, power |
| `RegistryTrust` | `ImportRegistryTrustDescriptor`, `RaiseRegistryTrustFloors`, loading and checking of a chain | pins, cached documents, trust lock | read pin, get document, check, lock, load, write; failures, kills |
| `TrustLedger` | what the users of the trust store rely on | a pin per registry, calls | import, look, accept, each change at one instant, leave |
| `InvocationDirs` | `AllocateInvocationRoot`, `PruneInvocationRoots` | directories, clock, own directory | draw, create, list, remove, use; kill, reboot |
| `ProcessPrograms` | what `RunProcess` starts, and what both platforms share: kill, deadline, keeping of output | pipes, descriptors, output kept, children | what children may do; expiry, kill, reap |
| `ProcessPosix` | `RunProcessChecked` of `ProcessPosix.cpp` | as above | poll, send, drain, deadline, wait |
| `ProcessWindows` | `RunProcessChecked` and `Pipe` of `ProcessWindows.cpp` | the operations under way, whether the child's end was seen | join the job, begin a round, pump each pipe, wait for a handle, complete, terminate |
| `ProcessRunner` | `RunProcess` on either platform | as above | both sets of actions, chosen by the scenario |
| `TufChain` | `VerifyTufChainForPackage`, `VerifyTufRegistryRoot` with `VerifyRoleEnvelope`, `VerifyMetaHash`, `EnforceExpires`, `EnforceVersionMonotonic`; how `MaterializeRegistryPackage` loads and calls them | publications of the registry, clock, pin and floors; the run's documents, its position, the keys seen | publish (open, release, renew, change keys), tick, import; start, load one document, open, count one signature, close, leaves of the log, finish |
| `Manifests` | `LoadManifest`, `SerializeManifestCanonical` | none: operators over tables | |
| `Publishing` | `SelectWorkspacePackage`, `WriteSourcePackage`, `PreparePublishCandidate`, `ReadRemotePublishArchive`, `RunRegistryV2ControlPlanePublish` | the tree, archives, the registry; per process its selections, walk, temporary archive, request and answer | choose, validate, select, walk, scan, create, write, close, rename, secure, measure, read, conclude; failures, delivery, stray answers, edits |
| `BuildCommand` | `HandlePlanCommand`, `WriteBuildCompilePlan` | manifests, sources, compiler; per command graph, entry, order, key, directory | request, sync, probe, entry, order, hash, allocate, describe, write, compile, validate; edits, installation, cleaning |

`AtomicFile` is shown to implement `DurableRegister`: `Register` in `AtomicFile` maps
the target and what may be on disk to the register, and each call's phase to the
register's view of it. `RegistryTrust` is shown to implement `TrustLedger` in the same
way (`Ledger`): the pins are the ledger, and a process's phase, pin and documents are
its call. What the ledger grants a raise is what the code does: it raises the pin there
is, whatever its anchor. The other modules use a write as one step that may fail before or
after it took effect, which is what the register allows.

The modules compose by assumption rather than by `INSTANCE`: `ProjectState` takes a
graph for a function of the manifests read, which is what `Resolver` shows
(`GraphIsExact`); `BuildCommand` takes sync for one step, and the invocation's directory
for its own, which is what `InvocationDirs` shows (`NothingIsShared`); `Resolver` takes
snapshots and archives for whole, which is what `GitSnapshots` and `RegistryCache` show;
`RegistryCache` takes a digest for trustworthy, which is the business of `TufChain`, one
run in detail, and of `RegistryTrust`, several runs on one store. `ProcessPosix` and
`ProcessWindows` extend `ProcessPrograms`, and `ProcessRunner` joins them; `Publishing`
extends `Manifests`: it selects and validates by what `LoadManifest` makes of a table
and packs what `SerializeManifestCanonical` writes.

**Assumptions of the models.**

- Digests are injective: a digest is modelled by what it is the digest of. This includes
  the 64-bit FNV hash of the cache key.
- `ProjectState`: `pafio.toml` is its dependencies and the rest; the manifests behind
  path dependencies are one content.
- `InvocationDirs`: listing a directory is one step; a directory is removed, at the
  earliest, one clock reading after it was drawn.
- `GitSnapshots`: one revision, one run of vendor.
- `RegistryTrust`: one registry in the run, so that the part of `ImportsAreNotLost`
  about another registry rests on the proof.
- `ProcessPrograms`: bytes are counted, those written up to `Limit + 1`, which is enough
  to tell more than `Limit` from not more.
- `TufChain`: a document holds the documents it names by digest; a signature is good or
  not under the root's key; the schema of a document is met or not; targets hold the
  releases of one package; a run verifies one package. At most one document of a
  behaviour is flawed.
- `Manifests`: strings are told apart by the checks they pass, and the names of targets
  are numbers as only their order matters. A document is the table toml++ makes: an
  array is a sequence (`Parsed`). What stands for no value, and for one of the wrong
  type, is none of the strings, numbers and Booleans.
- `Publishing`: the size of an archive is the number of its members; the walk, whose
  order no standard specifies, is in the order of the archive, in which `Files` lists
  the tree; one command per process, and one that is killed takes no more steps; the
  registry takes a version once. A stray answer is not one that says what the registry
  would have said.
- `Resolver`: members and aliases in any order, where the code sorts them; one registry;
  nobody else writes the lockfile during a run; a published archive holds the manifest
  of its root and no members.
- `BuildCommand`: a package's target files are one content and are read together with
  its manifest; the compiler is an external program that, when it exits with 0, has read
  what the plan names; a command runs once.

## What the runs check

| Run | Instance | Shows |
|---|---|---|
| `ps_commands` | two processes with sync and sync --locked, edits of both manifests, failing writes and resolutions, kills; or one process, all commands, two dependencies, failing writes | `PairWholeAtRest`, `ResolutionFollowsLock`, `SyncSuccessPublishes`, `RollbackRestores`, `EditPublishesItsLock` |
| `ps_edit_race` | two adds, nothing failing | a violation of `AddsAreNotLost`, see below |
| `af_faults` | two writers, two contents, three names, all faults | `TargetIsWhole`, `NoLitter`, `ImplementsRegister` |
| `id_dirs` | two processes, one directory retained, three clock readings, one reboot | `NothingIsShared`, `RetentionIsBounded`, `NewestAreKept` |
| `rt_trust` | two processes, two anchors, versions up to 2, all commands and faults | `NoRollback`, `FloorsNeverFall`, `ImportsAreNotLost` |
| `rc_cache` | three runs of one digest, three downloads, all faults | `SingleFetch`, `UsedStaysWhole`, `VerifiedStays`, `HandedIsWhole` |
| `pr_runs` | on either platform a child and a grandchild, pipes of one byte, a limit of one | `Returns`, `OutputIsKept`, `NothingIsLeft` |
| `gs_snapshots` | two processes, one vendor run, kills, failing steps, cleaning | `SnapshotIsWhole`, `VendoredIsEnough` |
| `rv_resolutions` | every workspace of a family of five places; manifests edited during the walk; two resolutions, two places for the project, three archives | `GraphIsExact`, `GraphIsAcyclic`, `OneSourcePerName`, `ReportsAreTrue`, `Terminates`, `OwnLockIsFresh`, `LockIsHonoured` |
| `bc_builds` | every graph over four packages; every request with every set of targets; two commands while manifests and compiler, sources, or directories change | `OrderIsTopological`, `EntryIsDetermined`, `KeyIdentifiesInputs`, `SuccessIsWhole` |
| `tc_chain` | two publications, three keys, two policies, thresholds of one and two; one flawed document, or a clock of four readings, or a registry of two namespaces | `AcceptedIsOneState`, `AcceptedIsAuthentic`, `CurrentIsAccepted` |
| `pb_publishing` | each manifest of a family of valid and invalid ones, each tree that differs from a plain one in a file; two commands on one workspace, with one edit, failures and a slow network | `ArchiveIsPackage`, `PublishedIsDeclared`, `SuccessIsPublished` |

Each property of a passing run has a mutant in `PROJECT.json`: a variant of one
definition under which TLC finds the property violated.

**Why the bounds are enough to be of interest.** Races here are between two processes
over one thing, and the interleavings of two are complete; `rc_cache` needs a third,
which destroys what a second uses while the first holds the lock. Two contents tell old
from new; three (`rv_resolutions`, `af_faults` names) are taken where a value may come
back. One directory is retained instead of eight, so that two processes reach the limit.
Pipes of one byte and a read of two make every transfer block somewhere. Two versions
are enough for a rollback, and four packages for a diamond below a second root and for
cycles of every length up to four. The disturbances of `bc_builds` come in three groups
rather than all at once: each group contains the pairs that interact (what sync reads
against what is probed; what is hashed against what is compiled; what is written against
what is removed). `ps_commands`, `tc_chain` and `pb_publishing` are in stories for the same reason: a variable of the `MC` module says which one a behaviour is
of. In `tc_chain` two publications give every mixture of an old and a new document; a
life and a skew of one and a clock up to three pass through every comparison on both
sides; two keys with a threshold of two, of which one signs twice, is unknown, or is bad
first, meet and miss a threshold by one. In `pb_publishing` one edit falls between any
two looks of either command, and the archives of two commands are in one place or in
two. `CHECK_DEADLOCK FALSE` is given where a run of the system ends by itself: commands
that run once, clocks, downloads or vendor runs that are used up. `SYMMETRY` permutes
processes, names or contents that nothing tells apart, in runs of safety properties
only.

Type invariants are not in the runs. Each module with a proof has its own as a theorem,
or as a part of the inductive invariant of one, for all instances.

## Fairness

- `Resolver`: `WF_vars(Step)`. A process goes on while nothing stops it; `Terminates`
  says that the walk ends by itself, edits and cycles included.
- `ProcessRunner`: `WF_vars(Parent)` and `WF_vars(Expire)`: the parent goes on, and time
  passes. `Spec` promises nothing of the programs. `RunningSpec`, which `pr_runs` uses,
  adds weak fairness of what the programs do; its instances are programs that run to
  their end, and with a deadline programs that hang, on POSIX with an output open. The
  Windows loop looks at the deadline before every round, so that there they may also
  close everything or write for ever.

The lock wait of `AcquireFileLock` needs none: it gives up at a deadline, and
`ProjectState` lets it do so at any time.

## What is proved

All theorems are for every value of the constants that satisfies the assumptions of
their module. Each module's proof goes by one inductive invariant that says what a
process knows in each of its phases.

- `ProjectStateProofs`. `TypeCorrect` and `CommitsExclude` need that locals are set in
  the phases that use them, and that the lock's holder is the one in a commit phase.
  `LockedSyncReadsOnly` follows with no more. `ResolutionIsLast`, `SuccessPublishes` and
  `PairIsWhole` assume `OnlySyncs`: nobody adds or removes. Their invariant says that
  past the recheck the lockfile is what the process found or wrote, which holds as
  nobody else writes it under the lock. `RollbackIsComplete` and `EditIsPublished`
  assume `Alone`: one process. The invariant `Editing` of the latter follows an add or a
  remove: from the write of the manifest on, the manifest is the edited one, and the
  graph that is resolved has it for its root.
- `FoundationProofs` has three parts, of components that know nothing of each other.
  - *File writes.* `TargetAlwaysWhole`: temporary names of live calls differ, and past
    its fsync a temporary file is the call's content and on disk.
    `AtomicFileImplementsRegister`: with that invariant every step maps to a step of
    `DurableRegister` or to a stutter. `LeavesNoLitter`: the same invariant has a call
    between create and rename own the file under its name.
  - *Processes.* `ProcessTypeCorrect` is about all of `ProcessInv`. `KeepsOutput` rests
    on its part `Counted`: there is a number of bytes, those that ever entered the pipe,
    of which `written` and `kept` are what a counter up to `Limit + 1` and one up to
    `Limit` show, the second for the bytes that have left the pipe, and `truncated`
    whether these were more than `Limit`; `ClosedAtEnd` and `Rounds` say that a run only
    returns in time when the pipes are empty. `LeavesNothing` rests on `Killed`: past
    the kill no program of the group or the job is alive.
  - *Snapshots.* `SnapshotsAreWhole` and `VendoredSuffices` assume `OneVendoring`, one
    run of vendor; with a second one they are false (see below). `WholeInv` says what a
    command knows that runs alone: a marker has the files beside it, whoever is about to
    clear or to fill the directory has seen no marker, and what tar or the copy has not
    yet written is in its list. `VendorInv` holds of commands that run at once, too:
    who touches a vendored tree is a run of vendor, and after one that succeeded there
    is none.
- `ResolverProofs`. `TypeCorrect`, `NamesAreUnique` (`OneSourcePerName` is inductive
  given the types), `WalkIsDepthFirst`, and `GraphHasNoCycle`: in a depth-first walk the
  done packages of any set have one done first; the invariant `NoCycle` carries it.
  `FindsTheGraph` needs two invariants of a walk that nobody edits (`WalkInv`): the
  edges a frame has collected are those of the dependencies it is through with, and a
  package that is in the graph is one of the project's, the target of an edge, or on the
  stack. `ErrorsAreTrue` needs that the chain of a package is a path, each step
  of it a dependency; no induction over the path is needed, since a chain is one step
  longer than one that was right. `LockKeepsReleases`: what was pinned stays pinned
  (`PinsInv`), a package of the registry has its archive from the pin, and two packages
  of one release the same one (`ChosenInv`). It is the reason for `SelectionAssumption`:
  `None` is not a selection. `OwnLockStaysFresh` compares two walks: that which wrote the
  lockfile is over when the one that reads it starts. What is left of the first is
  `WitnessInv`: the lockfile is that of a graph of some tree, archives and choice of
  releases, said with `Then`, the module instantiated for them. `FollowInv` is about the
  second, locked and in the same tree: each package it finds is the twin of one of that
  graph, under the same name and pinned, so that it asks for nothing else; at its end it
  has found all of them, since a dependency of a twin leads to a twin and the package
  of least index (`LeastNumber`) that was missed would have been led to by an earlier
  one. The hypothesis `Stays` leaves out a project that moves with a repository at a
  relative path, whose digest the lockfile has from the old place.
- `RegistryTrustProofs`. `FloorsOnlyRise`, `ImportsStay`, `AcceptedNeverRollsBack`: what
  a process has loaded under the lock is what is stored, and what it saw when it read
  its pin is at most what it checks against. `StoreImplementsLedger`: under the same
  invariant each step is one of `TrustLedger` or a stutter. The writes are where an
  import or a raise takes effect, and `ReadPin`, which has no lock, is one look.
  `ImplementsLedger` is not in a run: looking for the step of the ledger makes TLC some
  ten times slower, and the theorem is about every instance.
- `RegistryCacheProofs`. `HandsOutWhole`, `KeepsVerified`, `UsedIsWhole`, assuming
  `OnePackage`: a digest belongs to one package version. The invariant relates what is
  in place to the phase of the lock's holder. `FetchesOnce`: while nothing happened, a
  fetch was followed by its commit, or its process is still on the way there with the
  lock in its hand (`FetchInv`).
- `OutputProofs` has two parts, of what pafio leaves behind.
  - *Invocation directories.* `DirectoriesAreOwn`: what a process owns was there and its
    own when it was created, and nobody else owns it after. `NewestStay`: whatever a
    process still has to remove of its listing, at least `Retained` newer directories
    are there (`KeptInv`), as those that another process may remove have newer ones in
    turn. `OutputIsBounded`: of the processes that have not removed everything yet, the
    last to list accounts for all others (`BoundInv`); it needs that the processes are
    finitely many.
  - *Archives and publications.* `ArchivesAreWhole`: `PackOK` says what a process knows
    at each position of its walk, its scan and its writing about the files that nobody
    edited: those that belong to the package and that it has passed are collected, what
    it has passed in the scan is no credential, what it has passed in the writing is in
    the archive as it was when the command began. An edit only makes less known, and a
    rename puts in place what was whole when it was closed. `PublishedAreDeclared`:
    `ManifestIsReadAgain` says that a manifest that is accepted is accepted when it is
    written canonically and read again, with the same name, version and dependencies
    and with its targets in order; it needs that the sorted list is a list of the same
    targets (`SortedList`). The invariant `DeclaredInv` follows the package from the
    first selection, through the second, into the archive and the request: as long as
    nothing was edited or replaced the second selection is the first. The theorem has
    one hypothesis, `JunkIsNoTable`: what stands for no value is not a table. It is about
    how tables are modelled, not about the code, and no finite instance can state it.
    `SuccessHasPublished`: a request in the network is its sender's only one, and an answer that passes
    `Conclude` came of its delivery (`SentInv`).
- `BuildCommandProofs`. `OrderCorrect`: the graph is closed under dependencies (from the
  definition of what sync reaches), stack and order are within it, no package is twice
  on them, and what is placed has its dependencies before it. It needs no assumption
  that the graph is acyclic: a cycle ends the command. `KeyCorrect`: while nothing
  moved, graph, compiler and digest agree with the world; past the hash the digest is
  complete; so what the compiler was given is what went into the key.
  `SuccessCorrect`: a directory that nobody has touched has what the command put there
  (`WInv`). `EntryCorrect`: the graph is the one of the root the command began at
  (`RInv`).
- `TufChainProofs`. The invariant says of each document in the plan before the position
  that it is `Verified` (digest, floors, threshold, expiry), and of the current one that
  as many keys among those seen have a good signature as were counted, so that the count
  is one of distinct keys. `AuthenticTheorem` reads it off at the end of the plan; as
  the clock only goes on, what had not expired when it was closed had not when the
  verification began. `OneStateTheorem`: the timestamp is of some publication, because
  all files are, and each further document is the one its parent holds.
  `FineIsAccepted` is the converse: the counting is `Thorough` (a key whose first
  signature is good and that has been passed is among those counted), so that a document
  that has enough of them meets its threshold, and each refusal has a reason
  (`FairInv`).

What stays with TLC: the liveness properties `Returns` and `Terminates` and everything
about `ENABLED`, which are out of the prover's reach. `AddsAreNotLost` is false. Every
other property of a run is a theorem.

## Where the code and its documents disagree

`ps_edit_race` shows one, recorded as a finding:

- **An add is lost** (`AddsAreNotLost`). `Dependencies.cpp:265` reads, edits and writes
  the manifest without the project lock, so of two concurrent adds that both succeed one
  is overwritten. ADR-0003:28-30: "Dependency changes commit atomically or leave the
  previous manifest, lock, and resolution state intact."

The others came up while modelling. The property says in its conditions where it stops,
or the instance is left out of the passing runs; each can be seen by dropping the
condition or adding what is named here.

- *A kill between the manifest and the lock of an add* (`Dependencies.cpp:112`) leaves
  half an edit: `RollbackRestores` is about failures, not kills. Same ADR line.
- *add and remove leave the old resolution* (`Dependencies.cpp:114`) beside the new
  lock; ADR-0003:12-14 has the three "form one transaction". The properties of the pair
  are for syncs only.
- *The resolution may bind a manifest the graph was not made from*
  (`Dependencies.cpp:381` reads it again); Manifest-and-Lock-Conventions:45-46.
- *Floors may be raised under another anchor* (`RegistryTrust.cpp:423`): a raise applies
  to the pin it finds, though it was imported after the chain was verified;
  `RegistryTrust.hpp:23-24` speaks of authenticated versions.
- *A running invocation may be pruned* (`CompilePlan.cpp:868`), when nine newer ones
  begin meanwhile; Pafio-CLI-Contract:58-61 has "the current invocation's outputs are
  never removed". `BuildCommand` has it as `Prune`, and `SuccessIsWhole` leaves it out.
- *After a reboot the newest are not kept* (`CompilePlan.cpp:785`): the steady clock
  starts again. `NewestAreKept` is until the first reboot.
- *Two packages of one digest* (`Client.cpp:408`) throw each other's archive away and
  fetch again: `SingleFetch` is run with one package; Architecture:46, Requirements:47.
- *Removals that fail, or a loss of power between the renames* (`Client.cpp:746`,
  `:850`) let a checkout with holes pass the inspection: `Calm` in `HandedIsWhole`;
  Requirements:44-46.
- *A child that closes its outputs and hangs, or writes without end*
  (`ProcessPosix.cpp:344`, `:300`) is waited for past the deadline: scenario traits
  `{"close", "hang"}` or `{"busy"}` with a deadline violate `Returns`;
  CORE-WORKFLOW-RUNBOOK:39-44.
- *Two processes unpack one revision in one directory* (`Resolver.cpp:322`): `~shared`
  in `SnapshotIsWhole`; Architecture:47. *A vendored copy cut short* (`Vendor.cpp:45`)
  is taken for whole: `vendored` there; Local-Offline-Package-Contract:11-12.
- *A second run of vendor* (`Vendor.cpp:116`) removes what it is about to copy from; the
  same contract:20-21, 25. `Vendors = 1`.
- *A published workspace root* (`Pack.cpp:241`, `Resolver.cpp:686`) cannot be resolved
  by another project: its members are not in the archive.
- *A path in the lockfile is absolute* where a git repository is given by a relative one
  (`Resolver.cpp:86`), so that a project that was moved finds its own lock stale:
  `LocalRepo` is empty in `rv_resolutions`; Manifest-and-Lock-Conventions:41-43,
  ADR-0003:21-23.
- *A cache key may stand for other inputs* when something changes between the hash and
  the compiler (`CompilePlan.cpp:936`): `~moved` in `KeyIdentifiesInputs`. Files a
  source includes, other than the declared target files, are not in the key at all.
  Pafio-CLI-Contract:51: "`cache_key` identifies equivalent compilation inputs".
- *A plan may be cut short and reported* (`CompilePlan.cpp:1015`): what the stream still
  holds is written when it is destroyed, after the only check. `spoiled` in
  `SuccessIsWhole`.
- *A file may be edited between the scan and the write* (`Pack.cpp:446` reads it again):
  what is then in the archive was never scanned. `a.edited` in `ArchiveIsPackage`;
  ADR-0006:28 has "Credentials [...] must not be encoded into [...] package archives".
- *publish sends what lies at the archive's path* (`Publish.cpp:229`), by then perhaps
  another process's, under the name, version and dependencies of the package it
  validated; and it packs a second selection (line 196), which an edit may have made
  another. `disturbed` in `PublishedIsDeclared`; Pafio-Registry-Client-Contract:28:
  "validates the candidate".
- *A directory with a `pafio.toml` that the workspace does not list* is packed with its
  manifest, and publish takes it; a consumer refuses an archive with two
  (`PrescanArchive.cpp:85`, Pafio-Registry-Client-Contract:18).
- *A publish whose answer is lost* reports a failure though the version is taken; a
  second try is refused. `SuccessIsPublished` is about success only.
- *One process, several packages*: metadata is loaded once per process
  (`Client.cpp:439`), pins for each package, so that when another process raises the
  floors in between a sound registry is refused. `CurrentIsAccepted` is about runs for
  one package.

## What is not modelled

- The Windows branches of lock and file code.
- Ed25519, SHA-256 and canonical JSON: functions of bytes with published vectors.
- The JSON schema of metadata beyond met or not, the calendar of an expiry, and the
  index record and the artifact entry that are read after the chain.
- The checks of a lockfile's text; inspection of archives; rules for URLs that are read.
- The JSON of plans, resolutions and metadata; `vendor.json`; the creation of new
  projects.
- Arguments and output of the commands; doctor; the dependency tree.

`PROJECT.json` has a note for each component.

## Plan

1. The three stores' locks together: the order that `FileLock.hpp:25` asks for, checked
   over all callers.
2. The inspection of an archive with what `Publishing` packs, so that what is published
   is what a consumer accepts, and the checks of `Lockfile.cpp` beside `Manifests`.
3. `TufChain` with several packages of one process and other processes that raise
   floors.
4. An abstract transaction that `ProjectState` implements for syncs, and an abstract
   cache that `RegistryCache` implements.
