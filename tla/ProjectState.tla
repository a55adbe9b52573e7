---------------------------- MODULE ProjectState ----------------------------
(***************************************************************************)
(* The dependency state of one project: pafio.toml, pafio.lock and         *)
(* .pafio/resolution-v1.json, and the commands that several pafio          *)
(* processes run against it at once (PafioWorkflow/Dependencies.cpp):      *)
(*                                                                         *)
(*   sync, sync --locked   SyncProjectDependencies                         *)
(*   add, remove           AddDependencyAndRefreshLock,                    *)
(*                         RemoveDependencyAndRefreshLock                  *)
(*                                                                         *)
(* A step is one file operation: the reads and the writes of one command   *)
(* interleave with those of the others, with edits the user makes by hand  *)
(* and with crashes.  A digest in resolution-v1.json is modelled by the    *)
(* content it is the digest of.                                            *)
(*                                                                         *)
(* A definition named X_Y is a variant of X with a plausible mistake; it   *)
(* is in no specification and serves to see that a property notices it.    *)
(***************************************************************************)
EXTENDS Integers, FiniteSets, TLC

CONSTANTS
  Proc,        \* pafio processes, each runs one command after another
  Dep,         \* dependencies the root manifest may declare
  Targets,     \* the rest of the root manifest: it is in the manifest's
               \* digest, but the lockfile does not record it
  Member,      \* contents of the manifests the root reaches by a path
  Commands,    \* commands in use, a subset of {"sync","locked","add","remove"}
  Edits,       \* manifests edited by hand, a subset of {"root", "member"}
  Faults,      \* what may go wrong, a subset of {"io", "resolve", "crash"}
  NoOne,       \* no process
  Absent       \* a file that does not exist (or that nobody can parse)

CommandName == {"sync", "locked", "add", "remove"}

ASSUME ConstantsAssumption ==
  /\ Commands \subseteq CommandName
  /\ Edits \subseteq {"root", "member"}
  /\ Faults \subseteq {"io", "resolve", "crash"}
  /\ NoOne \notin Proc
  /\ Absent \notin Dep \cup Targets \cup Member

Manifest == [deps : SUBSET Dep, targets : Targets]

\* What the resolver computes: the root manifest it parsed and the contents of
\* the manifests it reached from there.
Graph == [root : Manifest, member : Member \cup {Absent}]

\* SerializeLockfileCanonical: packages and versions, not the root's targets.
Lockfile == [deps : SUBSET Dep, member : Member \cup {Absent}]
Render(g) == [deps |-> g.root.deps, member |-> g.member]

\* SerializeResolutionCanonical: two digests and the package map.
Resolution == [manifest : Manifest, lock : Lockfile, graph : Graph]

ASSUME AbsentAssumption == Absent \notin Manifest \cup Lockfile \cup Resolution

VARIABLES
  manifest,     \* pafio.toml of the root
  member,       \* the path dependency's pafio.toml
  lock,         \* pafio.lock
  resolution,   \* .pafio/resolution-v1.json
  projectLock,  \* holder of the flock on .pafio-project.lock
  phase,        \* the operation a process performs next
  command,      \* its command and that command's dependency
  graph,        \* its resolver's result so far
  target,       \* sync: the manifest whose digest it binds
                \* add, remove: the manifest it writes
  backup,       \* add, remove: the bytes it read before the edit
  outcome,      \* how its last command ended
  torn          \* history: a commit was cut short at one of its two writes, or
                \* an add or a remove went for the lockfile, and no sync has
                \* completed since

files == <<manifest, member, lock, resolution>>
locals == <<command, graph, target, backup>>
vars == <<files, projectLock, phase, locals, outcome, torn>>

SyncPhases == {"members", "bind", "acquire", "recheck", "compareLock",
               "writeSyncLock", "writeResolution"}
EditPhases == {"readLock", "edit", "writeManifest", "resolveEdit",
               "membersEdit", "writeEditLock", "restoreManifest",
               "restoreLock"}
Phases == SyncPhases \cup EditPhases \cup {"idle", "resolve"}

\* The project lock is held in these phases: SyncProjectDependencies creates
\* its guard before the recheck and the guard lives until it returns.
CommitPhases == {"recheck", "compareLock", "writeSyncLock", "writeResolution"}

\* add and remove have written, or may have written, the manifest.
DirtyPhases == {"writeManifest", "resolveEdit", "membersEdit", "writeEditLock",
                "restoreManifest", "restoreLock"}

IsSync(p) == command[p].name \in {"sync", "locked"}

NoCommand == [name |-> Absent, dep |-> Absent]
NoGraph == [root |-> Absent, member |-> Absent]
NoBackup == [manifest |-> Absent, lock |-> Absent]

TypeOK ==
  /\ manifest \in Manifest \cup {Absent}
  /\ member \in Member
  /\ lock \in Lockfile \cup {Absent}
  /\ resolution \in Resolution \cup {Absent}
  /\ projectLock \in Proc \cup {NoOne}
  /\ phase \in [Proc -> Phases]
  /\ command \in [Proc -> [name : CommandName \cup {Absent},
                           dep : Dep \cup {Absent}]]
  /\ graph \in [Proc -> [root : Manifest \cup {Absent},
                         member : Member \cup {Absent}]]
  /\ target \in [Proc -> Manifest \cup {Absent}]
  /\ backup \in [Proc -> [manifest : Manifest \cup {Absent},
                          lock : Lockfile \cup {Absent}]]
  /\ outcome \in [Proc -> {"none", "ok", "failed", "unrestored", "crashed"}]
  /\ torn \in BOOLEAN

\* What a command in a given phase is and has.
LocalsOK ==
  \A p \in Proc :
    /\ phase[p] # "idle" => outcome[p] = "none"
    /\ phase[p] \in SyncPhases \cup {"resolve"} => IsSync(p)
    /\ phase[p] \in EditPhases => ~IsSync(p) /\ command[p].dep \in Dep
    /\ phase[p] = "writeSyncLock" => command[p].name = "sync"
    /\ phase[p] \in SyncPhases \cup {"membersEdit", "writeEditLock"} =>
         graph[p].root \in Manifest
    /\ phase[p] \in {"acquire"} \cup CommitPhases \cup
                   {"writeManifest", "resolveEdit"} => target[p] \in Manifest
    /\ phase[p] \in EditPhases => backup[p].manifest \in Manifest

Init ==
  /\ manifest \in [deps : {{}}, targets : Targets]
  /\ member \in Member
  /\ lock = Absent
  /\ resolution = Absent
  /\ projectLock = NoOne
  /\ phase = [p \in Proc |-> "idle"]
  /\ command = [p \in Proc |-> NoCommand]
  /\ graph = [p \in Proc |-> NoGraph]
  /\ target = [p \in Proc |-> Absent]
  /\ backup = [p \in Proc |-> NoBackup]
  /\ outcome = [p \in Proc |-> "none"]
  /\ torn = FALSE

-----------------------------------------------------------------------------
(* Steps shared by the commands.                                           *)

\* The command goes on.
Goto(p, next) ==
  /\ phase' = [phase EXCEPT ![p] = next]
  /\ torn' = IF phase[p] = "writeEditLock" THEN TRUE ELSE torn

\* It is over.
Leave(p, how) ==
  /\ phase' = [phase EXCEPT ![p] = "idle"]
  /\ outcome' = [outcome EXCEPT ![p] = how]
  /\ torn' = IF phase[p] \in {"writeSyncLock", "writeResolution", "writeEditLock"}
               THEN how # "ok" \/ phase[p] = "writeEditLock" ELSE torn

\* A command returns or throws: its locals are gone and the lock guard, if it
\* has one, is destroyed.
End(p, how) ==
  /\ Leave(p, how)
  /\ command' = [command EXCEPT ![p] = NoCommand]
  /\ graph' = [graph EXCEPT ![p] = NoGraph]
  /\ target' = [target EXCEPT ![p] = Absent]
  /\ backup' = [backup EXCEPT ![p] = NoBackup]
  /\ projectLock' = IF projectLock = p THEN NoOne ELSE projectLock

\* AtomicWriteFile as its callers see it: it returns with the file replaced,
\* it throws with the file untouched, or it throws although the rename took
\* effect (the synchronization of the parent directory failed).
WriteOutcomes ==
  {"written"} \cup IF "io" \in Faults THEN {"failed", "unsynced"} ELSE {}
Landed(how, old, new) == IF how = "failed" THEN old ELSE new

-----------------------------------------------------------------------------
(* sync and sync --locked.                                                 *)

\* The checks before resolution: the manifest exists and, for --locked, the
\* lockfile exists.
StartSync(p, name) ==
  /\ phase[p] = "idle"
  /\ name \in Commands \cap {"sync", "locked"}
  /\ manifest # Absent
  /\ name = "locked" => lock # Absent
  /\ Goto(p, "resolve")
  /\ command' = [command EXCEPT ![p] = [name |-> name, dep |-> Absent]]
  /\ outcome' = [outcome EXCEPT ![p] = "none"]
  /\ UNCHANGED <<files, projectLock, graph, target, backup>>

\* SingleVersionResolver's constructor parses the root manifest, once.
ResolveRoot(p, here, next) ==
  /\ phase[p] = here
  /\ manifest # Absent
  /\ graph' = [graph EXCEPT ![p] = [root |-> manifest, member |-> Absent]]
  /\ Goto(p, next)
  /\ UNCHANGED <<files, projectLock, command, target, backup, outcome>>

\* ResolveNode loads the other manifests later, as it reaches them.
ResolveMembers(p, here, next) ==
  /\ phase[p] = here
  /\ graph' = [graph EXCEPT ![p] = [root |-> @.root, member |-> member]]
  /\ Goto(p, next)
  /\ UNCHANGED <<files, projectLock, command, target, backup, outcome>>

\* Sync loads the manifest a second time to compute manifest_sha256.
Bind(p) ==
  /\ phase[p] = "bind"
  /\ manifest # Absent
  /\ target' = [target EXCEPT ![p] = manifest]
  /\ Goto(p, "acquire")
  /\ UNCHANGED <<files, projectLock, command, graph, backup, outcome>>

\* Variant: the lock file is opened but not locked.
AcquireProjectLock_NoExclusion(p) ==
  /\ phase[p] = "acquire"
  /\ projectLock' = p
  /\ Goto(p, "recheck")
  /\ UNCHANGED <<files, locals, outcome>>

AcquireProjectLock(p) ==
  /\ phase[p] = "acquire"
  /\ projectLock = NoOne
  /\ projectLock' = p
  /\ Goto(p, "recheck")
  /\ UNCHANGED <<files, locals, outcome>>

\* AcquireFileLock polls until its deadline, then throws LockHeldError.
LockTimeout(p) ==
  /\ phase[p] = "acquire"
  /\ projectLock # NoOne
  /\ End(p, "failed")
  /\ UNCHANGED files

\* The manifest is loaded a third time: another content is a ValidationError.
Recheck(p) ==
  /\ phase[p] = "recheck"
  /\ manifest = target[p]
  /\ Goto(p, "compareLock")
  /\ UNCHANGED <<files, projectLock, locals, outcome>>

ManifestChanged(p) ==
  /\ phase[p] = "recheck"
  /\ manifest # target[p]
  /\ End(p, "failed")
  /\ UNCHANGED files

\* Variant: any existing lockfile will do.
CompareLock_Presence(p) ==
  /\ phase[p] = "compareLock"
  /\ \/ lock # Absent /\ Goto(p, "writeResolution")
     \/ lock = Absent /\ command[p].name = "sync" /\ Goto(p, "writeSyncLock")
  /\ UNCHANGED <<files, projectLock, locals, outcome>>

CompareLock(p) ==
  /\ phase[p] = "compareLock"
  /\ \/ /\ lock = Render(graph[p])
        /\ Goto(p, "writeResolution")
     \/ /\ lock # Render(graph[p])
        /\ command[p].name = "sync"
        /\ Goto(p, "writeSyncLock")
  /\ UNCHANGED <<files, projectLock, locals, outcome>>

\* --locked refuses a missing or a stale lockfile.
LockStale(p) ==
  /\ phase[p] = "compareLock"
  /\ command[p].name = "locked"
  /\ lock # Render(graph[p])
  /\ End(p, "failed")
  /\ UNCHANGED files

WriteSyncLock(p) ==
  /\ phase[p] = "writeSyncLock"
  /\ \E how \in WriteOutcomes :
       /\ lock' = Landed(how, lock, Render(graph[p]))
       /\ IF how = "written"
            THEN /\ Goto(p, "writeResolution")
                 /\ UNCHANGED <<projectLock, locals, outcome>>
            ELSE End(p, "failed")
  /\ UNCHANGED <<manifest, member, resolution>>

NewResolution(p) ==
  [manifest |-> target[p], lock |-> Render(graph[p]), graph |-> graph[p]]

\* Variant: an existing resolution is never replaced.
WriteResolution_OnlyIfMissing(p) ==
  /\ phase[p] = "writeResolution"
  /\ resolution' = IF resolution = Absent THEN NewResolution(p) ELSE resolution
  /\ End(p, "ok")
  /\ UNCHANGED <<manifest, member, lock>>

\* The write is skipped when the bytes are already there.
WriteResolution(p) ==
  /\ phase[p] = "writeResolution"
  /\ \E how \in WriteOutcomes :
       /\ resolution = NewResolution(p) => how = "written"
       /\ resolution' = Landed(how, resolution, NewResolution(p))
       /\ End(p, IF how = "written" THEN "ok" ELSE "failed")
  /\ UNCHANGED <<manifest, member, lock>>

SyncStep(p) ==
  \/ ResolveRoot(p, "resolve", "members")
  \/ ResolveMembers(p, "members", "bind")
  \/ Bind(p)
  \/ AcquireProjectLock(p) \/ LockTimeout(p)
  \/ Recheck(p) \/ ManifestChanged(p)
  \/ CompareLock(p) \/ LockStale(p)
  \/ WriteSyncLock(p)
  \/ WriteResolution(p)

-----------------------------------------------------------------------------
(* add and remove: no lock, and resolution-v1.json is left alone.          *)

\* The manifest exists; its bytes are kept for the rollback.
StartEdit(p, name, d) ==
  /\ phase[p] = "idle"
  /\ name \in Commands \cap {"add", "remove"}
  /\ manifest # Absent
  /\ Goto(p, "readLock")
  /\ command' = [command EXCEPT ![p] = [name |-> name, dep |-> d]]
  /\ backup' = [backup EXCEPT ![p] = [manifest |-> manifest, lock |-> Absent]]
  /\ outcome' = [outcome EXCEPT ![p] = "none"]
  /\ UNCHANGED <<files, projectLock, graph, target>>

ReadLock(p) ==
  /\ phase[p] = "readLock"
  /\ backup' = [backup EXCEPT ![p] = [manifest |-> @.manifest, lock |-> lock]]
  /\ Goto(p, "edit")
  /\ UNCHANGED <<files, projectLock, command, graph, target, outcome>>

\* LoadManifest is a second read of the manifest.  add wants the dependency
\* absent, remove wants it present.
Editable(p) ==
  /\ manifest # Absent
  /\ command[p].name = "add" <=> command[p].dep \notin manifest.deps

Edited(p) ==
  [deps    |-> IF command[p].name = "add"
                 THEN manifest.deps \cup {command[p].dep}
                 ELSE manifest.deps \ {command[p].dep},
   targets |-> manifest.targets]

EditManifest(p) ==
  /\ phase[p] = "edit"
  /\ Editable(p)
  /\ target' = [target EXCEPT ![p] = Edited(p)]
  /\ Goto(p, "writeManifest")
  /\ UNCHANGED <<files, projectLock, command, graph, backup, outcome>>

RefuseEdit(p) ==
  /\ phase[p] = "edit"
  /\ ~Editable(p)
  /\ End(p, "failed")
  /\ UNCHANGED files

WriteManifest(p) ==
  /\ phase[p] = "writeManifest"
  /\ \E how \in WriteOutcomes :
       /\ manifest' = Landed(how, manifest, target[p])
       /\ Goto(p, IF how = "written" THEN "resolveEdit" ELSE "restoreManifest")
  /\ UNCHANGED <<member, lock, resolution, projectLock, locals, outcome>>

\* Variant: an existing lockfile is kept.
WriteEditLock_OnlyIfMissing(p) ==
  /\ phase[p] = "writeEditLock"
  /\ lock' = IF lock = Absent THEN Render(graph[p]) ELSE lock
  /\ End(p, "ok")
  /\ UNCHANGED <<manifest, member, resolution>>

WriteEditLock(p) ==
  /\ phase[p] = "writeEditLock"
  /\ \E how \in WriteOutcomes :
       /\ lock' = Landed(how, lock, Render(graph[p]))
       /\ IF how = "written"
            THEN End(p, "ok")
            ELSE /\ Goto(p, "restoreManifest")
                 /\ UNCHANGED <<projectLock, locals, outcome>>
  /\ UNCHANGED <<manifest, member, resolution>>

\* Variant: the rollback forgets the lockfile.
RestoreManifest_Only(p) ==
  /\ phase[p] = "restoreManifest"
  /\ \E how \in WriteOutcomes :
       /\ manifest' = Landed(how, manifest, backup[p].manifest)
       /\ End(p, IF how = "written" THEN "failed" ELSE "unrestored")
  /\ UNCHANGED <<member, lock, resolution>>

\* The catch block of CommitManifestEdit.  When this write throws, the lock is
\* not restored.
RestoreManifest(p) ==
  /\ phase[p] = "restoreManifest"
  /\ \E how \in WriteOutcomes :
       /\ manifest' = Landed(how, manifest, backup[p].manifest)
       /\ IF how = "written"
            THEN /\ Goto(p, "restoreLock")
                 /\ UNCHANGED <<projectLock, locals, outcome>>
            ELSE End(p, "unrestored")
  /\ UNCHANGED <<member, lock, resolution>>

\* RestoreLockfile: an earlier lockfile is written back, otherwise the new one
\* is removed and an error of that removal is ignored.
RestoreLockfile(p) ==
  /\ phase[p] = "restoreLock"
  /\ \E how \in WriteOutcomes :
       /\ backup[p].lock = Absent => how # "unsynced"
       /\ lock' = Landed(how, lock, backup[p].lock)
       /\ End(p, IF how = "written" THEN "failed" ELSE "unrestored")
  /\ UNCHANGED <<manifest, member, resolution>>

EditStep(p) ==
  \/ ReadLock(p)
  \/ EditManifest(p) \/ RefuseEdit(p)
  \/ WriteManifest(p)
  \/ ResolveRoot(p, "resolveEdit", "membersEdit")
  \/ ResolveMembers(p, "membersEdit", "writeEditLock")
  \/ WriteEditLock(p)
  \/ RestoreManifest(p)
  \/ RestoreLockfile(p)

-----------------------------------------------------------------------------
(* What fails, and what happens around the commands.                       *)

\* A read, a parse, a fetch or a conflict makes the step throw.  Once the
\* manifest is written CommitManifestEdit's catch block takes over.
StepFails(p) ==
  /\ \/ /\ "resolve" \in Faults
        /\ phase[p] \in {"resolve", "members", "resolveEdit", "membersEdit"}
     \/ /\ "io" \in Faults
        /\ phase[p] \in {"readLock", "acquire", "compareLock"}
     \/ /\ manifest = Absent
        /\ phase[p] \in {"resolve", "bind", "resolveEdit"}
  /\ IF phase[p] \in DirtyPhases
       THEN /\ Goto(p, "restoreManifest")
            /\ UNCHANGED <<projectLock, locals, outcome>>
       ELSE End(p, "failed")
  /\ UNCHANGED files

\* The process is killed: the kernel drops its lock, the files stay.
Crash(p) ==
  /\ "crash" \in Faults
  /\ phase[p] # "idle"
  /\ End(p, "crashed")
  /\ UNCHANGED files

\* The user edits a manifest by hand.
EditRoot ==
  /\ "root" \in Edits
  /\ manifest' \in (Manifest \cup {Absent}) \ {manifest}
  /\ UNCHANGED <<member, lock, resolution, projectLock, phase, locals, outcome,
                 torn>>

EditMember ==
  /\ "member" \in Edits
  /\ member' \in Member \ {member}
  /\ UNCHANGED <<manifest, lock, resolution, projectLock, phase, locals, outcome,
                 torn>>

Start(p) ==
  \/ \E name \in {"sync", "locked"} : StartSync(p, name)
  \/ \E name \in {"add", "remove"}, d \in Dep : StartEdit(p, name, d)

Step(p) == SyncStep(p) \/ EditStep(p) \/ StepFails(p)

Next ==
  \/ \E p \in Proc : Start(p) \/ Step(p) \/ Crash(p)
  \/ EditRoot
  \/ EditMember

Spec == Init /\ [][Next]_vars

-----------------------------------------------------------------------------
(* Properties.  Some hold for every combination of commands, others say     *)
(* under which commands and faults they are meant to hold.                  *)

\* The flock of AcquireFileLock is held by a command exactly while it commits:
\* two syncs are never past the recheck together, and no path out of
\* SyncProjectDependencies (return, exception, kill) leaves the lock behind.
LockHeldInCommit ==
  \A p \in Proc : projectLock = p <=> phase[p] \in CommitPhases

\* sync --locked never changes pafio.lock, whatever else runs.
LockedSyncKeepsLock ==
  [][\A p \in Proc :
       command[p].name = "locked" /\ phase'[p] # phase[p] => lock' = lock]_vars

\* Syncs at once, or any commands one after another: resolution-v1.json is the last thing a commit writes, and the
\* lockfile it names by digest is the one on disk when it appears, although
\* another sync, of other contents, may have started or died in between.
ResolutionFollowsLock ==
  [][resolution' # resolution => resolution'.lock = lock]_vars

\* Syncs at once, or any commands one after another: a sync that reports success leaves exactly the pair it
\* computed, repairing what a crash or a failed write left before.
SyncSuccessPublishes ==
  [][\A p \in Proc :
       phase[p] \in SyncPhases /\ outcome'[p] = "ok" =>
         /\ lock' = Render(graph[p])
         /\ resolution' = NewResolution(p)]_vars

\* Syncs at once, or any commands one after another: whenever nobody is
\* committing, lockfile and resolution are a pair, whichever syncs were refused,
\* timed out, failed or raced.  A commit that is cut short, or an add or a remove,
\* may part them, and the next sync that succeeds mends that.
PairWholeAtRest ==
  projectLock = NoOne /\ ~torn =>
    IF lock = Absent THEN resolution = Absent
    ELSE resolution # Absent /\ resolution.lock = lock

\* One command at a time: an add or a remove that fails after it began leaves manifest,
\* lock and resolution as it found them, also when the failure is a write that
\* took effect before it threw (unless a write of the rollback fails as well).
RollbackRestores ==
  [][\A p \in Proc :
       phase[p] \in DirtyPhases \cup {"edit"} /\ outcome'[p] = "failed" =>
         /\ manifest' = backup[p].manifest
         /\ lock' = backup[p].lock
         /\ resolution' = resolution]_vars

\* One command at a time: an add or a remove that succeeds leaves the edited manifest and
\* a lockfile of exactly its dependencies.
EditPublishesItsLock ==
  [][\A p \in Proc :
       phase[p] \in EditPhases /\ outcome'[p] = "ok" =>
         /\ manifest' = target[p]
         /\ lock'.deps = manifest'.deps
         /\ command[p].name = "add" <=> command[p].dep \in lock'.deps]_vars

-----------------------------------------------------------------------------
(* What the documentation says and the code does not do.                    *)

\* ADR-0003: "Dependency changes commit atomically or leave the previous
\* manifest, lock, and resolution state intact."  For two adds at once: a
\* dependency leaves the manifest only by a command about that dependency.
AddsAreNotLost ==
  [][\A d \in Dep :
       d \in manifest.deps /\ d \notin manifest'.deps =>
         \E p \in Proc : phase[p] # "idle" /\ command[p].dep = d]_vars
=============================================================================
