------------------------- MODULE ProjectStateProofs -------------------------
(* What TLAPS proves of ProjectState, for all sets of processes,            *)
(* dependencies and contents.                                               *)
EXTENDS ProjectState, TLAPS

IInv == TypeOK /\ LocalsOK /\ LockHeldInCommit

LEMMA RenderType ==
  ASSUME NEW g, g.root \in Manifest, g.member \in Member \cup {Absent}
  PROVE  Render(g) \in Lockfile
BY DEF Render, Manifest, Lockfile

LEMMA InitIInv == ASSUME Init PROVE IInv
<1>1. TypeOK
  BY ConstantsAssumption
     DEF Init, TypeOK, Manifest, Phases, NoCommand, NoGraph, NoBackup
<1>2. LocalsOK
  BY DEF Init, LocalsOK, SyncPhases, EditPhases, CommitPhases
<1>3. LockHeldInCommit
  BY ConstantsAssumption DEF Init, LockHeldInCommit, CommitPhases
<1> QED BY <1>1, <1>2, <1>3 DEF IInv

LEMMA EndIInv ==
  ASSUME IInv, NEW p \in Proc, phase[p] # "idle",
         NEW how \in {"none", "ok", "failed", "unrestored", "crashed"},
         End(p, how),
         manifest' \in Manifest \cup {Absent}, member' \in Member,
         lock' \in Lockfile \cup {Absent},
         resolution' \in Resolution \cup {Absent}
  PROVE  IInv'
<1>1. TypeOK'
  BY DEF IInv, TypeOK, End, Leave, Goto, Phases, NoCommand, NoGraph, NoBackup
<1>2. LocalsOK'
  BY DEF IInv, TypeOK, LocalsOK, End, Leave, Goto, SyncPhases, EditPhases,
         CommitPhases, IsSync
<1>3. LockHeldInCommit'
  BY ConstantsAssumption
     DEF IInv, TypeOK, LockHeldInCommit, End, Leave, Goto, CommitPhases
<1> QED BY <1>1, <1>2, <1>3 DEF IInv

(* A step that leaves the files alone and only moves on.                    *)
LEMMA StartIInv == ASSUME IInv, NEW p \in Proc, Start(p) PROVE IInv'
<1>1. ASSUME NEW name \in {"sync", "locked"}, StartSync(p, name) PROVE IInv'
  <2>1. TypeOK'
    BY <1>1 DEF IInv, TypeOK, StartSync, Goto, files, Phases, CommandName
  <2>2. LocalsOK'
    BY <1>1 DEF IInv, TypeOK, LocalsOK, StartSync, Goto, files, SyncPhases,
                EditPhases, CommitPhases, IsSync
  <2>3. LockHeldInCommit'
    BY <1>1 DEF IInv, TypeOK, LockHeldInCommit, StartSync, Goto, files,
                CommitPhases
  <2> QED BY <2>1, <2>2, <2>3 DEF IInv
<1>2. ASSUME NEW name \in {"add", "remove"}, NEW d \in Dep,
             StartEdit(p, name, d)
      PROVE  IInv'
  <2>1. TypeOK'
    BY <1>2 DEF IInv, TypeOK, StartEdit, Goto, files, Phases, EditPhases,
                CommandName
  <2>2. LocalsOK'
    BY <1>2 DEF IInv, TypeOK, LocalsOK, StartEdit, Goto, files, SyncPhases,
                EditPhases, CommitPhases, IsSync
  <2>3. LockHeldInCommit'
    BY <1>2 DEF IInv, TypeOK, LockHeldInCommit, StartEdit, Goto, files,
                CommitPhases
  <2> QED BY <2>1, <2>2, <2>3 DEF IInv
<1> QED BY <1>1, <1>2 DEF Start

LEMMA ResolveRootIInv ==
  ASSUME IInv, NEW p \in Proc,
         \/ ResolveRoot(p, "resolve", "members")
         \/ ResolveRoot(p, "resolveEdit", "membersEdit")
  PROVE  IInv'
<1>1. graph' \in [Proc -> [root : Manifest \cup {Absent},
                          member : Member \cup {Absent}]]
  <2>1. [root |-> manifest, member |-> Absent]
          \in [root : Manifest \cup {Absent}, member : Member \cup {Absent}]
    BY DEF IInv, TypeOK
  <2> QED BY <2>1 DEF IInv, TypeOK, ResolveRoot
<1>2. TypeOK'
  BY <1>1 DEF IInv, TypeOK, ResolveRoot, Goto, files, Phases, SyncPhases,
              EditPhases
<1>3. LocalsOK'
  <2>1. CASE ResolveRoot(p, "resolve", "members")
    BY <2>1 DEF IInv, TypeOK, LocalsOK, ResolveRoot, Goto, files, SyncPhases,
                EditPhases, CommitPhases, IsSync
  <2>2. CASE ResolveRoot(p, "resolveEdit", "membersEdit")
    BY <2>2 DEF IInv, TypeOK, LocalsOK, ResolveRoot, Goto, files, SyncPhases,
                EditPhases, CommitPhases, IsSync
  <2> QED BY <2>1, <2>2
<1>4. LockHeldInCommit'
  BY DEF IInv, TypeOK, LockHeldInCommit, ResolveRoot, Goto, files, CommitPhases
<1> QED BY <1>2, <1>3, <1>4 DEF IInv

LEMMA ResolveMembersIInv ==
  ASSUME IInv, NEW p \in Proc,
         \/ ResolveMembers(p, "members", "bind")
         \/ ResolveMembers(p, "membersEdit", "writeEditLock")
  PROVE  IInv'
<1>1. graph' \in [Proc -> [root : Manifest \cup {Absent},
                          member : Member \cup {Absent}]]
  <2>1. [root |-> graph[p].root, member |-> member]
          \in [root : Manifest \cup {Absent}, member : Member \cup {Absent}]
    BY DEF IInv, TypeOK
  <2> QED BY <2>1 DEF IInv, TypeOK, ResolveMembers
<1>2. TypeOK'
  BY <1>1 DEF IInv, TypeOK, ResolveMembers, Goto, files, Phases, SyncPhases,
              EditPhases
<1>3. LocalsOK'
  <2>1. CASE ResolveMembers(p, "members", "bind")
    BY <2>1 DEF IInv, TypeOK, LocalsOK, ResolveMembers, Goto, files, SyncPhases,
                EditPhases, CommitPhases, IsSync
  <2>2. CASE ResolveMembers(p, "membersEdit", "writeEditLock")
    BY <2>2 DEF IInv, TypeOK, LocalsOK, ResolveMembers, Goto, files, SyncPhases,
                EditPhases, CommitPhases, IsSync
  <2> QED BY <2>1, <2>2
<1>4. LockHeldInCommit'
  BY DEF IInv, TypeOK, LockHeldInCommit, ResolveMembers, Goto, files,
         CommitPhases
<1> QED BY <1>2, <1>3, <1>4 DEF IInv

LEMMA SyncStepIInv == ASSUME IInv, NEW p \in Proc, SyncStep(p) PROVE IInv'
<1>1. CASE ResolveRoot(p, "resolve", "members") BY <1>1, ResolveRootIInv
<1>2. CASE ResolveMembers(p, "members", "bind") BY <1>2, ResolveMembersIInv
<1>3. CASE Bind(p)
  <2>1. TypeOK'
    BY <1>3 DEF IInv, TypeOK, Bind, Goto, files, locals, Phases, SyncPhases
  <2>2. LocalsOK'
    BY <1>3 DEF IInv, TypeOK, LocalsOK, Bind, Goto, files, locals,
                SyncPhases, EditPhases, CommitPhases, IsSync
  <2>3. LockHeldInCommit'
    BY <1>3, ConstantsAssumption
       DEF IInv, TypeOK, LockHeldInCommit, Bind, Goto, files, locals,
           CommitPhases
  <2> QED BY <2>1, <2>2, <2>3 DEF IInv
<1>4. CASE AcquireProjectLock(p)
  <2>1. TypeOK'
    BY <1>4 DEF IInv, TypeOK, AcquireProjectLock, Goto, files, locals, Phases, SyncPhases
  <2>2. LocalsOK'
    BY <1>4 DEF IInv, TypeOK, LocalsOK, AcquireProjectLock, Goto, files, locals,
                SyncPhases, EditPhases, CommitPhases, IsSync
  <2>3. LockHeldInCommit'
    BY <1>4, ConstantsAssumption
       DEF IInv, TypeOK, LockHeldInCommit, AcquireProjectLock, Goto, files, locals,
           CommitPhases
  <2> QED BY <2>1, <2>2, <2>3 DEF IInv
<1>5. CASE Recheck(p)
  <2>1. TypeOK'
    BY <1>5 DEF IInv, TypeOK, Recheck, Goto, files, locals, Phases, SyncPhases
  <2>2. LocalsOK'
    BY <1>5 DEF IInv, TypeOK, LocalsOK, Recheck, Goto, files, locals,
                SyncPhases, EditPhases, CommitPhases, IsSync
  <2>3. LockHeldInCommit'
    BY <1>5, ConstantsAssumption
       DEF IInv, TypeOK, LockHeldInCommit, Recheck, Goto, files, locals,
           CommitPhases
  <2> QED BY <2>1, <2>2, <2>3 DEF IInv
<1>6. CASE CompareLock(p)
  <2>1. TypeOK'
    BY <1>6 DEF IInv, TypeOK, CompareLock, Goto, files, locals, Phases, SyncPhases
  <2>2. LocalsOK'
    BY <1>6 DEF IInv, TypeOK, LocalsOK, CompareLock, Goto, files, locals,
                SyncPhases, EditPhases, CommitPhases, IsSync
  <2>3. LockHeldInCommit'
    BY <1>6, ConstantsAssumption
       DEF IInv, TypeOK, LockHeldInCommit, CompareLock, Goto, files, locals,
           CommitPhases
  <2> QED BY <2>1, <2>2, <2>3 DEF IInv
<1>7. CASE LockTimeout(p)
  BY <1>7, EndIInv DEF IInv, TypeOK, LockTimeout, files
<1>8. CASE ManifestChanged(p)
  BY <1>8, EndIInv DEF IInv, TypeOK, ManifestChanged, files
<1>9. CASE LockStale(p)
  BY <1>9, EndIInv DEF IInv, TypeOK, LockStale, files
<1>10. CASE WriteSyncLock(p)
  <2>1. Render(graph[p]) \in Lockfile
    BY <1>10, RenderType DEF IInv, TypeOK, LocalsOK, WriteSyncLock, SyncPhases
  <2>2. PICK how \in WriteOutcomes :
          /\ lock' = Landed(how, lock, Render(graph[p]))
          /\ IF how = "written"
               THEN /\ Goto(p, "writeResolution")
                    /\ UNCHANGED <<projectLock, locals, outcome>>
               ELSE End(p, "failed")
    BY <1>10 DEF WriteSyncLock
  <2>3. lock' \in Lockfile \cup {Absent}
    BY <2>1, <2>2 DEF IInv, TypeOK, Landed
  <2>4. CASE how = "written"
    <3>1. TypeOK'
      BY <1>10, <2>2, <2>3, <2>4
         DEF IInv, TypeOK, WriteSyncLock, Goto, locals, Phases, SyncPhases
    <3>2. LocalsOK'
      BY <1>10, <2>2, <2>4
         DEF IInv, TypeOK, LocalsOK, WriteSyncLock, Goto, locals, SyncPhases,
             EditPhases, CommitPhases, IsSync
    <3>3. LockHeldInCommit'
      BY <1>10, <2>2, <2>4
         DEF IInv, TypeOK, LockHeldInCommit, WriteSyncLock, Goto, locals,
             CommitPhases
    <3> QED BY <3>1, <3>2, <3>3 DEF IInv
  <2>5. CASE how # "written"
    BY <1>10, <2>2, <2>3, <2>5, EndIInv DEF IInv, TypeOK, WriteSyncLock
  <2> QED BY <2>4, <2>5
<1>11. CASE WriteResolution(p)
  <2>1. NewResolution(p) \in Resolution
    BY <1>11, RenderType
       DEF IInv, TypeOK, LocalsOK, WriteResolution, NewResolution, Resolution,
           Graph, SyncPhases, CommitPhases
  <2>2. resolution' \in Resolution \cup {Absent}
    BY <1>11, <2>1 DEF IInv, TypeOK, WriteResolution, Landed
  <2> QED BY <1>11, <2>2, EndIInv DEF IInv, TypeOK, WriteResolution
<1> QED BY <1>1, <1>2, <1>3, <1>4, <1>5, <1>6, <1>7, <1>8, <1>9, <1>10, <1>11 DEF SyncStep

LEMMA EditStepIInv == ASSUME IInv, NEW p \in Proc, EditStep(p) PROVE IInv'
<1>1. CASE ReadLock(p)
  <2>1. TypeOK'
    BY <1>1 DEF IInv, TypeOK, ReadLock, Goto, files, locals, Phases, EditPhases
  <2>2. LocalsOK'
    BY <1>1 DEF IInv, TypeOK, LocalsOK, ReadLock, Goto, files, locals,
                SyncPhases, EditPhases, CommitPhases, IsSync
  <2>3. LockHeldInCommit'
    BY <1>1 DEF IInv, TypeOK, LockHeldInCommit, ReadLock, Goto, files, locals,
                CommitPhases
  <2> QED BY <2>1, <2>2, <2>3 DEF IInv
<1>2. CASE EditManifest(p)
  <2>1. Edited(p) \in Manifest
    BY <1>2 DEF IInv, TypeOK, LocalsOK, EditManifest, Editable, Edited,
                Manifest, EditPhases
  <2>2. TypeOK'
    BY <1>2, <2>1 DEF IInv, TypeOK, EditManifest, Goto, files, Phases,
                      EditPhases
  <2>3. LocalsOK'
    BY <1>2, <2>1 DEF IInv, TypeOK, LocalsOK, EditManifest, Goto, files,
                      SyncPhases, EditPhases, CommitPhases, IsSync
  <2>4. LockHeldInCommit'
    BY <1>2 DEF IInv, TypeOK, LockHeldInCommit, EditManifest, Goto, files,
                CommitPhases
  <2> QED BY <2>2, <2>3, <2>4 DEF IInv
<1>3. CASE RefuseEdit(p)
  BY <1>3, EndIInv DEF IInv, TypeOK, RefuseEdit, files
<1>4. CASE WriteManifest(p)
  <2>1. manifest' \in Manifest \cup {Absent}
    BY <1>4 DEF IInv, TypeOK, WriteManifest, Landed
  <2>2. TypeOK'
    BY <1>4, <2>1 DEF IInv, TypeOK, WriteManifest, Goto, locals, Phases,
                      EditPhases
  <2>3. LocalsOK'
    BY <1>4 DEF IInv, TypeOK, LocalsOK, WriteManifest, Goto, locals,
                SyncPhases, EditPhases, CommitPhases, IsSync
  <2>4. LockHeldInCommit'
    BY <1>4 DEF IInv, TypeOK, LockHeldInCommit, WriteManifest, Goto, locals,
                CommitPhases
  <2> QED BY <2>2, <2>3, <2>4 DEF IInv
<1>5. CASE ResolveRoot(p, "resolveEdit", "membersEdit")
  BY <1>5, ResolveRootIInv
<1>6. CASE ResolveMembers(p, "membersEdit", "writeEditLock")
  BY <1>6, ResolveMembersIInv
<1>7. CASE WriteEditLock(p)
  <2>1. Render(graph[p]) \in Lockfile
    BY <1>7, RenderType DEF IInv, TypeOK, LocalsOK, WriteEditLock, SyncPhases
  <2>2. lock' \in Lockfile \cup {Absent}
    BY <1>7, <2>1 DEF IInv, TypeOK, WriteEditLock, Landed
  <2>3. CASE End(p, "ok")
    BY <1>7, <2>2, <2>3, EndIInv DEF IInv, TypeOK, WriteEditLock
  <2>4. CASE /\ Goto(p, "restoreManifest")
             /\ UNCHANGED <<projectLock, locals, outcome>>
    <3>1. TypeOK'
      BY <1>7, <2>2, <2>4 DEF IInv, TypeOK, WriteEditLock, Goto, locals,
                              Phases, EditPhases
    <3>2. LocalsOK'
      BY <1>7, <2>4 DEF IInv, TypeOK, LocalsOK, WriteEditLock, Goto, locals,
                        SyncPhases, EditPhases, CommitPhases, IsSync
    <3>3. LockHeldInCommit'
      BY <1>7, <2>4 DEF IInv, TypeOK, LockHeldInCommit, WriteEditLock, Goto,
                        locals, CommitPhases
    <3> QED BY <3>1, <3>2, <3>3 DEF IInv
  <2> QED BY <1>7, <2>3, <2>4 DEF WriteEditLock
<1>8. CASE RestoreManifest(p)
  <2>1. manifest' \in Manifest \cup {Absent}
    BY <1>8 DEF IInv, TypeOK, RestoreManifest, Landed
  <2>2. CASE End(p, "unrestored")
    BY <1>8, <2>1, <2>2, EndIInv DEF IInv, TypeOK, RestoreManifest
  <2>3. CASE /\ Goto(p, "restoreLock")
             /\ UNCHANGED <<projectLock, locals, outcome>>
    <3>1. TypeOK'
      BY <1>8, <2>1, <2>3 DEF IInv, TypeOK, RestoreManifest, Goto, locals,
                              Phases, EditPhases
    <3>2. LocalsOK'
      BY <1>8, <2>3 DEF IInv, TypeOK, LocalsOK, RestoreManifest, Goto, locals,
                        SyncPhases, EditPhases, CommitPhases, IsSync
    <3>3. LockHeldInCommit'
      BY <1>8, <2>3 DEF IInv, TypeOK, LockHeldInCommit, RestoreManifest, Goto,
                        locals, CommitPhases
    <3> QED BY <3>1, <3>2, <3>3 DEF IInv
  <2> QED BY <1>8, <2>2, <2>3 DEF RestoreManifest
<1>9. CASE RestoreLockfile(p)
  <2>1. lock' \in Lockfile \cup {Absent}
    BY <1>9 DEF IInv, TypeOK, RestoreLockfile, Landed
  <2> QED BY <1>9, <2>1, EndIInv DEF IInv, TypeOK, RestoreLockfile
<1> QED BY <1>1, <1>2, <1>3, <1>4, <1>5, <1>6, <1>7, <1>8, <1>9 DEF EditStep

LEMMA StepFailsIInv == ASSUME IInv, NEW p \in Proc, StepFails(p) PROVE IInv'
<1>0. phase[p] # "idle"
  BY DEF StepFails
<1>1. CASE End(p, "failed")
  BY <1>0, <1>1, EndIInv DEF IInv, TypeOK, StepFails, files
<1>2. CASE /\ phase[p] \in DirtyPhases
           /\ Goto(p, "restoreManifest")
           /\ UNCHANGED <<projectLock, locals, outcome>>
  <2>1. TypeOK'
    BY <1>2 DEF IInv, TypeOK, StepFails, Goto, files, locals, Phases, EditPhases
  <2>2. LocalsOK'
    BY <1>2 DEF IInv, TypeOK, LocalsOK, StepFails, Goto, files, locals,
                SyncPhases, EditPhases, CommitPhases, DirtyPhases, IsSync
  <2>3. LockHeldInCommit'
    BY <1>2 DEF IInv, TypeOK, LockHeldInCommit, StepFails, Goto, files, locals,
                CommitPhases, DirtyPhases
  <2> QED BY <2>1, <2>2, <2>3 DEF IInv
<1> QED BY <1>1, <1>2 DEF StepFails

(* The surroundings touch no local state of a command.                      *)
LEMMA UserIInv == ASSUME IInv, EditRoot \/ EditMember PROVE IInv'
<1>1. TypeOK'
  BY DEF IInv, TypeOK, EditRoot, EditMember, locals
<1>2. LocalsOK'
  BY DEF IInv, LocalsOK, EditRoot, EditMember, locals, IsSync
<1>3. LockHeldInCommit'
  BY DEF IInv, LockHeldInCommit, EditRoot, EditMember, locals
<1> QED BY <1>1, <1>2, <1>3 DEF IInv

LEMMA NextIInv == ASSUME IInv, [Next]_vars PROVE IInv'
<1>1. CASE UNCHANGED vars
  BY <1>1 DEF IInv, TypeOK, LocalsOK, LockHeldInCommit, IsSync, vars, files,
              locals
<1>2. ASSUME NEW p \in Proc, Start(p) \/ Step(p) \/ Crash(p) PROVE IInv'
  <2>1. CASE Crash(p)
    BY <2>1, EndIInv DEF IInv, TypeOK, Crash, files
  <2> QED BY <1>2, <2>1, StartIInv, SyncStepIInv, EditStepIInv, StepFailsIInv
          DEF Step
<1> QED BY <1>1, <1>2, UserIInv DEF Next

\* Every state of every behavior is well typed, and what a command carries
\* from one file operation to the next fits the operation it is at.
THEOREM TypeCorrect == Spec => [](TypeOK /\ LocalsOK)
BY InitIInv, NextIInv, PTL DEF Spec, IInv

\* Two commits never overlap, and no way out of sync leaks the lock.
THEOREM CommitsExclude == Spec => []LockHeldInCommit
BY InitIInv, NextIInv, PTL DEF Spec, IInv

-----------------------------------------------------------------------------
(* sync --locked and the lockfile.                                          *)

LEMMA LockedStep ==
  ASSUME IInv, [Next]_vars, NEW p \in Proc,
         command[p].name = "locked", phase'[p] # phase[p]
  PROVE  lock' = lock
<1>1. PICK q \in Proc : Start(q) \/ Step(q) \/ Crash(q)
  BY DEF Next, vars, EditRoot, EditMember
<1>2. q = p
  <2>1. \A next \in Phases :
          phase' = [phase EXCEPT ![q] = next] => phase'[p] = phase[p] \/ q = p
    BY DEF IInv, TypeOK
  <2>2. \E next \in Phases : phase' = [phase EXCEPT ![q] = next]
    BY <1>1 DEF Start, StartSync, StartEdit, Step, SyncStep, EditStep,
         ResolveRoot, ResolveMembers, Bind, AcquireProjectLock, LockTimeout,
         Recheck, ManifestChanged, CompareLock, LockStale, WriteSyncLock,
         WriteResolution, ReadLock, EditManifest, RefuseEdit, WriteManifest,
         WriteEditLock, RestoreManifest, RestoreLockfile, StepFails, Crash,
         End, Leave, Goto, Phases, SyncPhases, EditPhases
  <2> QED BY <2>1, <2>2
<1>3. phase[p] # "writeSyncLock" /\ phase[p] \notin EditPhases
  BY DEF IInv, LocalsOK, IsSync
<1> QED
  BY <1>1, <1>2, <1>3
     DEF Start, StartSync, StartEdit, Step, SyncStep, EditStep,
         ResolveRoot, ResolveMembers, Bind, AcquireProjectLock, LockTimeout,
         Recheck, ManifestChanged, CompareLock, LockStale, WriteSyncLock,
         WriteResolution, ReadLock, EditManifest, RefuseEdit, WriteManifest,
         WriteEditLock, RestoreManifest, RestoreLockfile, StepFails, Crash,
         files, EditPhases

\* A locked sync leaves pafio.lock alone, whatever the other processes, the
\* user and the failures do at the same time.
THEOREM LockedSyncReadsOnly == Spec => LockedSyncKeepsLock
<1>1. IInv /\ [Next]_vars =>
        \A p \in Proc :
          command[p].name = "locked" /\ phase'[p] # phase[p] => lock' = lock
  BY LockedStep
<1> QED BY <1>1, InitIInv, NextIInv, PTL DEF Spec, LockedSyncKeepsLock

-----------------------------------------------------------------------------
(* Projects where only syncs run.  The project lock makes what a commit has *)
(* compared or written still true when it publishes its resolution.         *)

OnlySyncs == Commands \subseteq {"sync", "locked"}

SyncsRun == \A p \in Proc : phase[p] \notin EditPhases

LockIsMine ==
  \A p \in Proc : phase[p] = "writeResolution" => lock = Render(graph[p])

SyncIInv == IInv /\ SyncsRun /\ LockIsMine

LEMMA InitSyncIInv == ASSUME Init PROVE SyncIInv
BY InitIInv DEF Init, SyncIInv, SyncsRun, LockIsMine, EditPhases

\* The steps a sync may take, and what each does to the phase and the lock.
LEMMA SyncsTakeSyncSteps ==
  ASSUME OnlySyncs, SyncIInv, NEW p \in Proc,
         Start(p) \/ Step(p) \/ Crash(p)
  PROVE  \/ \E name \in {"sync", "locked"} : StartSync(p, name)
         \/ SyncStep(p)
         \/ StepFails(p) /\ End(p, "failed")
         \/ Crash(p)
BY DEF OnlySyncs, SyncIInv, SyncsRun, Start, StartEdit, Step, EditStep,
       ReadLock, EditManifest, RefuseEdit, WriteManifest, ResolveRoot,
       ResolveMembers, WriteEditLock, RestoreManifest, RestoreLockfile,
       StepFails, EditPhases, DirtyPhases

LEMMA NextSyncIInv ==
  ASSUME OnlySyncs, SyncIInv, [Next]_vars
  PROVE  SyncIInv'
<1>1. IInv'
  BY NextIInv DEF SyncIInv
<1>2. CASE UNCHANGED vars
  BY <1>1, <1>2 DEF SyncIInv, SyncsRun, LockIsMine, vars, files, locals
<1>3. CASE EditRoot \/ EditMember
  BY <1>1, <1>3 DEF SyncIInv, SyncsRun, LockIsMine, EditRoot, EditMember,
                    locals
<1>4. ASSUME NEW p \in Proc, Start(p) \/ Step(p) \/ Crash(p)
      PROVE  SyncsRun' /\ LockIsMine'
  <2>1. CASE \E name \in {"sync", "locked"} : StartSync(p, name)
    BY <2>1 DEF SyncIInv, IInv, TypeOK, SyncsRun, LockIsMine, StartSync, Goto,
                files, EditPhases
  <2>2. CASE \E how \in {"failed", "crashed"} : End(p, how) /\ UNCHANGED files
    BY <2>2 DEF SyncIInv, IInv, TypeOK, SyncsRun, LockIsMine, End, Leave, Goto,
                files, EditPhases
  <2>3. CASE ResolveRoot(p, "resolve", "members")
    BY <2>3 DEF SyncIInv, IInv, TypeOK, SyncsRun, LockIsMine, ResolveRoot,
                Goto, files, EditPhases
  <2>4. CASE ResolveMembers(p, "members", "bind")
    BY <2>4 DEF SyncIInv, IInv, TypeOK, SyncsRun, LockIsMine, ResolveMembers,
                Goto, files, EditPhases
  <2>5. CASE Bind(p) \/ AcquireProjectLock(p) \/ Recheck(p) \/ CompareLock(p)
    BY <2>5 DEF SyncIInv, IInv, TypeOK, SyncsRun, LockIsMine, Bind,
                AcquireProjectLock, Recheck, CompareLock, Goto, files, locals,
                EditPhases
  <2>6. CASE WriteSyncLock(p)
    <3>1. \A q \in Proc : q # p => phase[q] \notin CommitPhases
      BY <2>6 DEF SyncIInv, IInv, LockHeldInCommit, WriteSyncLock, CommitPhases
    <3>2. PICK how \in WriteOutcomes :
            /\ lock' = Landed(how, lock, Render(graph[p]))
            /\ IF how = "written"
                 THEN /\ Goto(p, "writeResolution")
                      /\ UNCHANGED <<projectLock, locals, outcome>>
                 ELSE End(p, "failed")
      BY <2>6 DEF WriteSyncLock
    <3>3. \A q \in Proc : q # p => phase'[q] = phase[q]
      BY <3>2 DEF SyncIInv, IInv, TypeOK, Goto, End, Leave
    <3>4. SyncsRun'
      BY <3>2, <3>3 DEF SyncIInv, IInv, TypeOK, SyncsRun, Goto, End, Leave, EditPhases
    <3>5. CASE how = "written"
      BY <3>1, <3>2, <3>3, <3>4, <3>5
         DEF LockIsMine, Goto, Landed, locals, CommitPhases
    <3>6. CASE how # "written"
      BY <3>1, <3>2, <3>3, <3>4, <3>6
         DEF SyncIInv, IInv, TypeOK, LockIsMine, Goto, End, Leave, CommitPhases
    <3> QED BY <3>5, <3>6
  <2>7. CASE WriteResolution(p)
    BY <2>7 DEF SyncIInv, IInv, TypeOK, SyncsRun, LockIsMine, WriteResolution,
                End, Leave, Goto, EditPhases
  <2> QED
    BY <1>4, <2>1, <2>2, <2>3, <2>4, <2>5, <2>6, <2>7, SyncsTakeSyncSteps
       DEF SyncStep, LockTimeout, ManifestChanged, LockStale, StepFails, Crash
<1> QED BY <1>1, <1>2, <1>3, <1>4 DEF SyncIInv, Next

\* Among syncs, a resolution never appears beside another lockfile than the
\* one whose digest it holds.
THEOREM ResolutionIsLast == ASSUME OnlySyncs PROVE Spec => ResolutionFollowsLock
<1>1. SyncIInv /\ [Next]_vars =>
        (resolution' # resolution => resolution'.lock = lock)
  <2> SUFFICES ASSUME SyncIInv, Next, resolution' # resolution
               PROVE  resolution'.lock = lock
    BY DEF vars, files
  <2>1. PICK p \in Proc : Start(p) \/ Step(p) \/ Crash(p)
    BY DEF Next, EditRoot, EditMember
  <2>2. WriteResolution(p)
    BY <2>1, SyncsTakeSyncSteps
       DEF StartSync, SyncStep, ResolveRoot, ResolveMembers, Bind,
           AcquireProjectLock, LockTimeout, Recheck, ManifestChanged,
           CompareLock, LockStale, WriteSyncLock, StepFails, Crash, files
  <2>3. resolution' = NewResolution(p)
    BY <2>2 DEF WriteResolution, Landed
  <2>4. lock = Render(graph[p])
    BY <2>2 DEF SyncIInv, LockIsMine, WriteResolution
  <2> QED BY <2>3, <2>4 DEF NewResolution
<1>2. SyncIInv /\ [Next]_vars => SyncIInv'
  BY NextSyncIInv
<1>3. Init => SyncIInv
  BY InitSyncIInv
<1> QED BY <1>1, <1>2, <1>3, PTL DEF Spec, ResolutionFollowsLock

\* A sync that reports success leaves the lockfile of its graph and the
\* resolution that names it, whatever was on disk before.
THEOREM SuccessPublishes == ASSUME OnlySyncs PROVE Spec => SyncSuccessPublishes
<1>1. SyncIInv /\ [Next]_vars =>
        \A p \in Proc :
          phase[p] \in SyncPhases /\ outcome'[p] = "ok" =>
            /\ lock' = Render(graph[p])
            /\ resolution' = NewResolution(p)
  <2> SUFFICES ASSUME SyncIInv, [Next]_vars, NEW p \in Proc,
                      phase[p] \in SyncPhases, outcome'[p] = "ok"
               PROVE  /\ lock' = Render(graph[p])
                      /\ resolution' = NewResolution(p)
    OBVIOUS
  <2>1. outcome[p] = "none"
    BY DEF SyncIInv, IInv, LocalsOK, SyncPhases
  <2>2. PICK q \in Proc : Start(q) \/ Step(q) \/ Crash(q)
    BY <2>1 DEF Next, EditRoot, EditMember, vars
  <2>3. \A how \in {"failed", "crashed"} : ~End(q, how)
    BY <2>1 DEF SyncIInv, IInv, TypeOK, End, Leave
  <2>4. outcome' # outcome
    BY <2>1
  <2>5. ~\E name \in {"sync", "locked"} : StartSync(q, name)
    BY <2>1 DEF SyncIInv, IInv, TypeOK, StartSync
  <2>6. WriteSyncLock(q) \/ WriteResolution(q)
    BY <2>2, <2>3, <2>4, <2>5, SyncsTakeSyncSteps
       DEF SyncStep, ResolveRoot, ResolveMembers, Bind, AcquireProjectLock,
           LockTimeout, Recheck, ManifestChanged, CompareLock, LockStale, Crash,
           locals
  <2>7. WriteResolution(q)
    BY <2>3, <2>4, <2>6 DEF WriteSyncLock
  <2>8. q = p /\ resolution' = NewResolution(p)
    BY <2>1, <2>3, <2>7
       DEF SyncIInv, IInv, TypeOK, WriteResolution, End, Leave, Landed
  <2> QED BY <2>7, <2>8 DEF SyncIInv, LockIsMine, WriteResolution
<1>2. SyncIInv /\ [Next]_vars => SyncIInv'
  BY NextSyncIInv
<1>3. Init => SyncIInv
  BY InitSyncIInv
<1> QED BY <1>1, <1>2, <1>3, PTL DEF Spec, SyncSuccessPublishes

-----------------------------------------------------------------------------
(* The pair between commits.                                               *)

Whole ==
  IF lock = Absent THEN resolution = Absent
  ELSE resolution # Absent /\ resolution.lock = lock

\* Only the holder of the project lock, between its two writes, may leave the
\* pair torn.
PairIInv ==
  /\ SyncIInv
  /\ Whole \/ torn \/ \E p \in Proc : phase[p] = "writeResolution"

LEMMA NextPairIInv ==
  ASSUME OnlySyncs, PairIInv, [Next]_vars
  PROVE  PairIInv'
<1>1. SyncIInv'
  BY NextSyncIInv DEF PairIInv
<1>2. CASE UNCHANGED <<lock, resolution, phase, torn>>
  BY <1>1, <1>2 DEF PairIInv, Whole
<1>3. ASSUME NEW p \in Proc, Start(p) \/ Step(p) \/ Crash(p)
      PROVE  Whole' \/ torn' \/ \E q \in Proc : phase'[q] = "writeResolution"
  <2>1. CASE WriteResolution(p)
    <3>1. PICK how \in WriteOutcomes :
            /\ resolution' = Landed(how, resolution, NewResolution(p))
            /\ End(p, IF how = "written" THEN "ok" ELSE "failed")
      BY <2>1 DEF WriteResolution
    <3>2. CASE how # "written"
      BY <2>1, <3>1, <3>2 DEF WriteResolution, End, Leave
    <3>3. CASE how = "written"
      <4>1. resolution' = NewResolution(p) /\ lock' = lock
        BY <2>1, <3>1, <3>3 DEF WriteResolution, Landed
      <4>2. lock = Render(graph[p]) /\ lock \in Lockfile
        BY <2>1, RenderType
           DEF PairIInv, SyncIInv, IInv, TypeOK, LocalsOK, LockIsMine,
               WriteResolution, SyncPhases
      <4>3. NewResolution(p) \in Resolution
        BY <2>1, <4>2
           DEF PairIInv, SyncIInv, IInv, TypeOK, LocalsOK, WriteResolution,
               NewResolution, Resolution, Graph, SyncPhases, CommitPhases
      <4>4. NewResolution(p).lock = lock
        BY <4>2 DEF NewResolution
      <4> QED BY <4>1, <4>2, <4>3, <4>4, AbsentAssumption DEF Whole
    <3> QED BY <3>2, <3>3
  <2>2. CASE WriteSyncLock(p)
    BY <2>2 DEF PairIInv, SyncIInv, IInv, TypeOK, WriteSyncLock, Goto, End,
                Leave
  <2>3. CASE phase[p] = "writeResolution" /\ \E how \in {"failed", "crashed"} : End(p, how)
    BY <2>3 DEF End, Leave
  <2>4. CASE /\ phase[p] # "writeResolution"
             /\ UNCHANGED <<lock, resolution>>
             /\ \E next : Goto(p, next)
    BY <2>4 DEF PairIInv, SyncIInv, IInv, TypeOK, Whole, Goto
  <2>5. CASE /\ phase[p] # "writeResolution"
             /\ UNCHANGED <<lock, resolution>>
             /\ \E how \in {"failed", "crashed"} : End(p, how)
    BY <2>5 DEF PairIInv, SyncIInv, IInv, TypeOK, Whole, End, Leave
  <2> QED
    BY <1>3, <2>1, <2>2, <2>3, <2>4, <2>5, SyncsTakeSyncSteps
       DEF PairIInv, StartSync, SyncStep, ResolveRoot, ResolveMembers, Bind,
           AcquireProjectLock, LockTimeout, Recheck, ManifestChanged,
           CompareLock, LockStale, StepFails, Crash, files
<1> QED BY <1>1, <1>2, <1>3 DEF PairIInv, Next, EditRoot, EditMember, vars, files

\* Lockfile and resolution match whenever no sync is committing and none was cut
\* short since the last success: refusals, timeouts and races never tear the
\* pair, and a success mends a torn one.
THEOREM PairIsWhole == ASSUME OnlySyncs PROVE Spec => []PairWholeAtRest
<1>1. Init => PairIInv
  BY InitSyncIInv DEF Init, PairIInv, Whole
<1>2. PairIInv /\ [Next]_vars => PairIInv'
  BY NextPairIInv
<1>3. PairIInv => PairWholeAtRest
  BY ConstantsAssumption
     DEF PairIInv, SyncIInv, IInv, LockHeldInCommit, PairWholeAtRest, Whole,
         CommitPhases
<1> QED BY <1>1, <1>2, <1>3, PTL DEF Spec

-----------------------------------------------------------------------------
(* Rollback of add and remove, when nobody else writes the project.         *)

Alone ==
  /\ \A p, q \in Proc : p = q
  /\ Edits \subseteq {"member"}

\* Until a write may have changed it, and after the rollback wrote it, a file
\* is what the command saved.
Saved ==
  \A p \in Proc :
    /\ phase[p] \in {"readLock", "edit", "writeManifest", "restoreLock"} =>
         manifest = backup[p].manifest
    /\ phase[p] \in {"edit", "writeManifest", "resolveEdit", "membersEdit",
                     "writeEditLock"} => lock = backup[p].lock

RollbackIInv == IInv /\ Saved

LEMMA NextRollbackIInv ==
  ASSUME Alone, RollbackIInv, [Next]_vars
  PROVE  RollbackIInv'
<1>1. IInv'
  BY NextIInv DEF RollbackIInv
<1>2. CASE UNCHANGED vars
  BY <1>1, <1>2 DEF RollbackIInv, Saved, vars, files, locals
<1>3. CASE EditMember
  BY <1>1, <1>3 DEF RollbackIInv, Saved, EditMember, locals
<1>4. ~EditRoot
  BY DEF Alone, EditRoot
<1>5. ASSUME NEW p \in Proc, Start(p) \/ Step(p) \/ Crash(p) PROVE Saved'
  <2>1. \A q \in Proc : q = p
    BY DEF Alone
  <2>2. CASE \E how : End(p, how)
    BY <2>1, <2>2 DEF RollbackIInv, IInv, TypeOK, Saved, End, Leave, Goto
  <2>3. CASE \/ \E name \in {"sync", "locked"} : StartSync(p, name)
             \/ SyncStep(p) /\ ~\E how : End(p, how)
    BY <2>1, <2>3
       DEF RollbackIInv, IInv, TypeOK, Saved, StartSync, SyncStep, ResolveRoot,
           ResolveMembers, Bind, AcquireProjectLock, LockTimeout, Recheck,
           ManifestChanged, CompareLock, LockStale, WriteSyncLock,
           WriteResolution, Goto
  <2>4. CASE \E name \in {"add", "remove"}, d \in Dep : StartEdit(p, name, d)
    BY <2>1, <2>4
       DEF RollbackIInv, IInv, TypeOK, Saved, StartEdit, Goto, files
  <2>5. CASE ReadLock(p)
    BY <2>1, <2>5 DEF RollbackIInv, IInv, TypeOK, Saved, ReadLock, Goto, files
  <2>6. CASE EditManifest(p)
    BY <2>1, <2>6 DEF RollbackIInv, IInv, TypeOK, Saved, EditManifest, Goto,
                      files
  <2>7. CASE WriteManifest(p)
    BY <2>1, <2>7 DEF RollbackIInv, IInv, TypeOK, Saved, WriteManifest, Goto,
                      locals
  <2>8. CASE \/ ResolveRoot(p, "resolveEdit", "membersEdit")
             \/ ResolveMembers(p, "membersEdit", "writeEditLock")
    BY <2>1, <2>8 DEF RollbackIInv, IInv, TypeOK, Saved, ResolveRoot,
                      ResolveMembers, Goto, files
  <2>9. CASE WriteEditLock(p) /\ Goto(p, "restoreManifest")
    BY <2>1, <2>9 DEF RollbackIInv, IInv, TypeOK, Saved, WriteEditLock, Goto
  <2>10. CASE RestoreManifest(p) /\ ~\E how : End(p, how)
    <3>1. /\ manifest' = backup[p].manifest
          /\ Goto(p, "restoreLock")
          /\ UNCHANGED locals
      BY <2>10 DEF RestoreManifest, Landed
    <3> QED BY <2>1, <3>1 DEF RollbackIInv, IInv, TypeOK, Saved, Goto, locals
  <2>11. CASE StepFails(p) /\ Goto(p, "restoreManifest")
    BY <2>1, <2>11 DEF RollbackIInv, IInv, TypeOK, Saved, StepFails, Goto
  <2> QED
    BY <1>5, <2>2, <2>3, <2>4, <2>5, <2>6, <2>7, <2>8, <2>9, <2>10, <2>11
       DEF Start, Step, EditStep, RefuseEdit, WriteEditLock, RestoreManifest,
           RestoreLockfile, StepFails, Crash
<1> QED BY <1>1, <1>2, <1>3, <1>4, <1>5 DEF RollbackIInv, Next

\* With nobody else writing the project, an add or a remove that fails after
\* it read the files leaves all three as they were, also when the write that
\* failed had taken effect.
THEOREM RollbackIsComplete == ASSUME Alone PROVE Spec => RollbackRestores
<1>1. RollbackIInv /\ [Next]_vars =>
        \A p \in Proc :
          phase[p] \in DirtyPhases \cup {"edit"} /\ outcome'[p] = "failed" =>
            /\ manifest' = backup[p].manifest
            /\ lock' = backup[p].lock
            /\ resolution' = resolution
  <2> SUFFICES ASSUME RollbackIInv, [Next]_vars, NEW p \in Proc,
                      phase[p] \in DirtyPhases \cup {"edit"},
                      outcome'[p] = "failed"
               PROVE  /\ manifest' = backup[p].manifest
                      /\ lock' = backup[p].lock
                      /\ resolution' = resolution
    OBVIOUS
  <2>1. outcome[p] = "none"
    BY DEF RollbackIInv, IInv, LocalsOK, DirtyPhases
  <2>2. Start(p) \/ Step(p) \/ Crash(p)
    BY <2>1 DEF Alone, Next, EditRoot, EditMember, vars
  <2>3. \A how : End(p, how) => how = "failed"
    BY DEF RollbackIInv, IInv, TypeOK, End, Leave
  <2>4. outcome' # outcome
    BY <2>1
  <2>5. RefuseEdit(p) \/ RestoreLockfile(p)
    BY <2>2, <2>3, <2>4
       DEF Start, StartSync, StartEdit, Step, SyncStep, EditStep, ResolveRoot,
           ResolveMembers, Bind, AcquireProjectLock, LockTimeout, Recheck,
           ManifestChanged, CompareLock, LockStale, WriteSyncLock,
           WriteResolution, ReadLock, EditManifest, WriteManifest,
           WriteEditLock, RestoreManifest, StepFails, Crash, DirtyPhases, locals
  <2>6. CASE RefuseEdit(p)
    BY <2>6 DEF RollbackIInv, Saved, RefuseEdit, files
  <2>7. CASE RestoreLockfile(p)
    BY <2>3, <2>7 DEF RollbackIInv, Saved, RestoreLockfile, Landed
  <2> QED BY <2>5, <2>6, <2>7
<1>2. RollbackIInv /\ [Next]_vars => RollbackIInv'
  BY NextRollbackIInv
<1>3. Init => RollbackIInv
  BY InitIInv DEF Init, RollbackIInv, Saved
<1> QED BY <1>1, <1>2, <1>3, PTL DEF Spec, RollbackRestores
-----------------------------------------------------------------------------
(* What an add or a remove publishes, when nobody else writes the project.  *)

\* The manifest is the edited one from its write to the end of the command, and
\* it is the one that is resolved.
Editing ==
  \A p \in Proc :
    /\ phase[p] \in {"writeManifest", "resolveEdit", "membersEdit", "writeEditLock"} =>
         (command[p].name = "add" <=> command[p].dep \in target[p].deps)
    /\ phase[p] \in {"resolveEdit", "membersEdit", "writeEditLock"} =>
         manifest = target[p]
    /\ phase[p] \in {"membersEdit", "writeEditLock"} => graph[p].root = target[p]

EditIInv == IInv /\ Editing

LEMMA NextEditIInv ==
  ASSUME Alone, EditIInv, [Next]_vars
  PROVE  EditIInv'
<1>1. IInv'
  BY NextIInv DEF EditIInv
<1>2. CASE UNCHANGED vars
  BY <1>1, <1>2 DEF EditIInv, Editing, vars, files, locals
<1>3. CASE EditMember
  BY <1>1, <1>3 DEF EditIInv, Editing, EditMember, locals
<1>4. ~EditRoot
  BY DEF Alone, EditRoot
<1>5. ASSUME NEW p \in Proc, Start(p) \/ Step(p) \/ Crash(p) PROVE Editing'
  <2>1. \A q \in Proc : q = p
    BY DEF Alone
  <2>2. CASE \/ \E how : End(p, how)
             \/ \E next \in Phases \ {"writeManifest", "resolveEdit", "membersEdit",
                                       "writeEditLock"} : Goto(p, next)
    BY <2>1, <2>2 DEF EditIInv, IInv, TypeOK, Editing, End, Leave, Goto
  <2>3. CASE EditManifest(p)
    <3>1. /\ target'[p] = Edited(p) /\ phase'[p] = "writeManifest"
          /\ command' = command
      BY <2>3 DEF EditIInv, IInv, TypeOK, EditManifest, Goto
    <3>2. command[p].name = "add" <=> command[p].dep \in Edited(p).deps
      BY DEF Edited
    <3> QED BY <2>1, <3>1, <3>2 DEF Editing
  <2>4. CASE WriteManifest(p)
    <3>1. PICK how \in WriteOutcomes :
            /\ manifest' = Landed(how, manifest, target[p])
            /\ Goto(p, IF how = "written" THEN "resolveEdit" ELSE "restoreManifest")
      BY <2>4 DEF WriteManifest
    <3>2. phase[p] = "writeManifest" /\ UNCHANGED <<command, graph, target>>
      BY <2>4 DEF WriteManifest, locals
    <3>3. CASE how = "written"
      <4>1. manifest' = target[p] /\ phase'[p] = "resolveEdit"
        BY <3>1, <3>3 DEF Landed, Goto, EditIInv, IInv, TypeOK
      <4> QED BY <2>1, <3>2, <4>1 DEF EditIInv, Editing
    <3>4. CASE how # "written"
      <4>1. phase'[p] = "restoreManifest"
        BY <3>1, <3>4 DEF Goto, EditIInv, IInv, TypeOK
      <4> QED BY <2>1, <4>1 DEF Editing
    <3> QED BY <3>3, <3>4
  <2>5. CASE ResolveRoot(p, "resolveEdit", "membersEdit")
    BY <2>1, <2>5 DEF EditIInv, IInv, TypeOK, Editing, ResolveRoot, Goto, files
  <2>6. CASE ResolveMembers(p, "membersEdit", "writeEditLock")
    BY <2>1, <2>6 DEF EditIInv, IInv, TypeOK, Editing, ResolveMembers, Goto, files
  <2>7. CASE \/ \E name \in {"sync", "locked"} : StartSync(p, name)
             \/ \E name \in {"add", "remove"}, d \in Dep : StartEdit(p, name, d)
    BY <2>2, <2>7 DEF StartSync, StartEdit, Phases, SyncPhases, EditPhases
  <2>8. CASE SyncStep(p)
    BY <2>2, <2>8
       DEF SyncStep, ResolveRoot, ResolveMembers, Bind, AcquireProjectLock,
           LockTimeout, Recheck, ManifestChanged, CompareLock, LockStale,
           WriteSyncLock, WriteResolution, Phases, SyncPhases, EditPhases
  <2>9. CASE \/ ReadLock(p) \/ RefuseEdit(p) \/ WriteEditLock(p) \/ RestoreManifest(p)
             \/ RestoreLockfile(p) \/ StepFails(p) \/ Crash(p)
    BY <2>2, <2>9
       DEF ReadLock, RefuseEdit, WriteEditLock, RestoreManifest, RestoreLockfile,
           StepFails, Crash, Phases, SyncPhases, EditPhases
  <2> QED
    BY <1>5, <2>3, <2>4, <2>5, <2>6, <2>7, <2>8, <2>9 DEF Start, Step, EditStep
<1> QED BY <1>1, <1>2, <1>3, <1>4, <1>5 DEF EditIInv, Next

\* An add or a remove that succeeds leaves the edited manifest and a lockfile of
\* exactly its dependencies (CommitManifestEdit).
THEOREM EditIsPublished == ASSUME Alone PROVE Spec => EditPublishesItsLock
<1>1. EditIInv /\ [Next]_vars =>
        \A p \in Proc :
          phase[p] \in EditPhases /\ outcome'[p] = "ok" =>
            /\ manifest' = target[p]
            /\ lock'.deps = manifest'.deps
            /\ command[p].name = "add" <=> command[p].dep \in lock'.deps
  <2> SUFFICES ASSUME EditIInv, [Next]_vars, NEW p \in Proc,
                      phase[p] \in EditPhases, outcome'[p] = "ok"
               PROVE  /\ manifest' = target[p]
                      /\ lock'.deps = manifest'.deps
                      /\ command[p].name = "add" <=> command[p].dep \in lock'.deps
    OBVIOUS
  <2>1. outcome[p] = "none"
    BY DEF EditIInv, IInv, LocalsOK, EditPhases
  <2>2. Start(p) \/ Step(p) \/ Crash(p)
    BY <2>1 DEF Alone, Next, EditRoot, EditMember, vars
  <2>3. \A how : End(p, how) => how = "ok"
    BY DEF EditIInv, IInv, TypeOK, End, Leave
  <2>4. outcome' # outcome
    BY <2>1
  <2>5. WriteEditLock(p)
    BY <2>2, <2>3, <2>4
       DEF Start, StartSync, StartEdit, Step, SyncStep, EditStep, ResolveRoot,
           ResolveMembers, Bind, AcquireProjectLock, LockTimeout, Recheck,
           ManifestChanged, CompareLock, LockStale, WriteSyncLock,
           WriteResolution, ReadLock, EditManifest, WriteManifest, RefuseEdit,
           RestoreManifest, RestoreLockfile, StepFails, Crash, EditPhases, locals
  <2>6. lock' = Render(graph[p]) /\ UNCHANGED manifest
    BY <2>4, <2>5 DEF WriteEditLock, Landed
  <2>7. /\ manifest = target[p] /\ graph[p].root = target[p]
        /\ command[p].name = "add" <=> command[p].dep \in target[p].deps
    BY <2>5 DEF WriteEditLock, EditIInv, Editing
  <2> QED BY <2>6, <2>7 DEF Render
<1>2. EditIInv /\ [Next]_vars => EditIInv'
  BY NextEditIInv
<1>3. Init => EditIInv
  BY InitIInv DEF Init, EditIInv, Editing
<1> QED BY <1>1, <1>2, <1>3, PTL DEF Spec, EditPublishesItsLock
=============================================================================
