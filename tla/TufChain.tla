------------------------------ MODULE TufChain ------------------------------
(***************************************************************************)
(* The verification of a registry's metadata (PafioSecurity/TufVerifier)   *)
(* as MaterializeRegistryPackage calls it, and the publications of the     *)
(* registry that it runs against.                                          *)
(*                                                                         *)
(* A publication replaces files one after another and a mirror keeps old   *)
(* ones, so that each document a run loads may be of another publication.  *)
(* A document that names the digest of another holds that document: two    *)
(* digests are equal when the documents are.  A timestamp holds its        *)
(* snapshot, and that its checkpoint and the targets of each namespace.    *)
(*                                                                         *)
(* A run loads its documents one by one and then verifies them in the      *)
(* order of its plan: a document is opened (digest or pin, schema), its    *)
(* signatures are counted one by one, and it is closed (threshold, expiry, *)
(* version).  The clock runs and the registry publishes meanwhile.         *)
(***************************************************************************)
EXTENDS Integers, Sequences, FiniteSets

CONSTANTS
  Key,         \* key ids
  Policies,    \* what a root says: [known, roles]
  Namespace,   \* namespaces of packages, one package each
  Order,       \* the namespaces in the order of their paths
  Lists,       \* signature lists of a document that is not signed as usual
  Life,        \* a document expires so long after its publication
  Skew,        \* the clock skew tolerated by EnforceExpires
  MaxTime,     \* bound on the clock
  MaxStates,   \* bound on the publications
  MaxLog,      \* kMaxTransparencyLogEntries
  Modes,       \* verifications in use, a subset of {"package", "registry"}
  Absent       \* no document, no pin

Role == {"root", "timestamp", "snapshot", "log", "targets"}
Fixed == {"config", "root", "timestamp", "snapshot", "log"}
Path == Fixed \cup Namespace \cup {"leaves"}

Signature == [key : Key, good : BOOLEAN]
RolePolicy == [keyids : Seq(Key), threshold : Nat \ {0}]

ASSUME ChainAssumption ==
  /\ IsFiniteSet(Key)
  /\ Policies \subseteq [known : SUBSET Key, roles : [Role -> RolePolicy]]
  /\ Namespace \cap (Fixed \cup {"leaves", "none"}) = {}
  /\ Order \in Seq(Namespace)
  /\ \A n \in Namespace : \E j \in 1..Len(Order) : Order[j] = n
  /\ Lists \subseteq Seq(Signature)
  /\ {Life, Skew, MaxTime, MaxStates, MaxLog} \subseteq Nat
  /\ Modes \subseteq {"package", "registry"}

\* What every signed document has: the fields the schema asks for, or not
\* (sound), its expiry and its signatures.
Envelope == [sound : BOOLEAN, expires : Nat, sigs : Seq(Signature)]

Config == [sound : BOOLEAN]
Root == [env : Envelope, version : Nat, policy : Policies]
Targets == [env : Envelope, releases : SUBSET Nat]
Checkpoint == [env : Envelope, leaves : Seq(Nat)]
Snapshot == [env : Envelope, version : Nat, log : Checkpoint,
             targets : [Namespace -> Targets \cup {Absent}]]
Timestamp == [env : Envelope, version : Nat, snapshot : Snapshot]

Publication == [config : Config, root : Root, timestamp : Timestamp,
                leaves : Seq(Nat)]

AnyDocument == Config \cup Root \cup Targets \cup Checkpoint \cup Snapshot
                 \cup Timestamp \cup Seq(Nat)

ASSUME AbsentAssumption == Absent \notin AnyDocument

\* What a file of the registry may hold.
Document(path) ==
  IF path = "config" THEN Config
  ELSE IF path = "root" THEN Root
  ELSE IF path = "timestamp" THEN Timestamp
  ELSE IF path = "snapshot" THEN Snapshot
  ELSE IF path = "log" THEN Checkpoint
  ELSE IF path = "leaves" THEN Seq(Nat)
  ELSE Targets

\* The file of a publication: targets may not be listed.
File(s, path) ==
  IF path = "config" THEN s.config
  ELSE IF path = "root" THEN s.root
  ELSE IF path = "timestamp" THEN s.timestamp
  ELSE IF path = "snapshot" THEN s.timestamp.snapshot
  ELSE IF path = "log" THEN s.timestamp.snapshot.log
  ELSE IF path = "leaves" THEN s.leaves
  ELSE s.timestamp.snapshot.targets[path]

VARIABLES
  published,  \* the publications of the registry, the latest last
  flawed,     \* a publication had a document that is not as usual
  now,        \* the clock
  pin,        \* the imported root, as the trust store has it
  floors,     \* the versions the trust store has learned: [ts, snap]
  phase,      \* what the run does next
  request,    \* what the run verifies, with the pin and the floors it read
  got,        \* the documents of the run: objects_by_relative_path
  at,         \* the position in the plan
  next,       \* the signature that is looked at next
  seen,       \* seen_keyids
  valid,      \* valid_signatures
  started     \* history: when the verification began

registry == <<published, flawed, now>>
store == <<pin, floors>>
count == <<next, seen, valid>>
run == <<phase, request, got, at, next, seen, valid, started>>
vars == <<registry, store, run>>

Phases == {"idle", "load", "open", "count", "accepted", "refused"}
Floors == [ts : Nat, snap : Nat]
NoRequest ==
  [mode |-> "none", ns |-> Absent, pin |-> Absent, ts |-> 0, snap |-> 0]
Request == [mode : {"none"} \cup Modes, ns : Namespace \cup {Absent},
            pin : Root \cup {Absent}, ts : Nat, snap : Nat]
NoDocuments == [path \in Path |-> Absent]

TypeOK ==
  /\ published \in Seq(Publication)
  /\ flawed \in BOOLEAN
  /\ now \in 0..MaxTime
  /\ pin \in Root \cup {Absent}
  /\ floors \in Floors
  /\ phase \in Phases
  /\ request \in Request
  /\ got \in [Path -> AnyDocument \cup {Absent}]
  /\ \A path \in Path : got[path] \in Document(path) \cup {Absent}
  /\ at \in Nat
  /\ next \in Nat
  /\ seen \in SUBSET Key
  /\ valid \in Nat
  /\ started \in Nat

Init ==
  /\ published = << >>
  /\ flawed = FALSE
  /\ now = 0
  /\ pin = Absent
  /\ floors = [ts |-> 0, snap |-> 0]
  /\ phase = "idle"
  /\ request = NoRequest
  /\ got = NoDocuments
  /\ at = 1
  /\ next = 1
  /\ seen = {}
  /\ valid = 0
  /\ started = 0

-----------------------------------------------------------------------------
(* The registry.  A document is signed once by each key of its role; at     *)
(* most one of them ever is flawed: signed in another way or not sound.     *)

NoFlaw == [path |-> "none", sound |-> TRUE, sigs |-> << >>]
Flaws == {NoFlaw}
  \cup [path : Path \ {"leaves", "config"}, sound : {TRUE}, sigs : Lists]
  \cup [path : Path, sound : {FALSE}, sigs : {<< >>}]

UsualSignatures(policy, role) ==
  [j \in 1..Len(policy.roles[role].keyids) |->
     [key |-> policy.roles[role].keyids[j], good |-> TRUE]]

NewEnvelope(policy, role, path, flaw) ==
  [sound |-> flaw.path = path => flaw.sound,
   expires |-> now + Life,
   sigs |-> IF flaw.path = path /\ flaw.sound
              THEN flaw.sigs ELSE UsualSignatures(policy, role)]

NewConfig(flaw) == [sound |-> flaw.path = "config" => flaw.sound]
NewRoot(version, policy, flaw) ==
  [env |-> NewEnvelope(policy, "root", "root", flaw),
   version |-> version, policy |-> policy]
NewTargets(releases, policy, n, flaw) ==
  [env |-> NewEnvelope(policy, "targets", n, flaw), releases |-> releases]
NewCheckpoint(leaves, policy, flaw) ==
  [env |-> NewEnvelope(policy, "log", "log", flaw), leaves |-> leaves]
NewSnapshot(version, log, targets, policy, flaw) ==
  [env |-> NewEnvelope(policy, "snapshot", "snapshot", flaw),
   version |-> version, log |-> log, targets |-> targets]
NewTimestamp(version, snapshot, policy, flaw) ==
  [env |-> NewEnvelope(policy, "timestamp", "timestamp", flaw),
   version |-> version, snapshot |-> snapshot]

\* A leaf holds its own sequence number; of a flawed log every leaf holds the
\* number of the next.
LeavesOf(log, flaw) ==
  IF flaw.path = "leaves" THEN [j \in 1..Len(log.leaves) |-> log.leaves[j] + 1]
  ELSE log.leaves

Latest == published[Len(published)]

PublishState(config, root, timestamp, flaw) ==
  /\ flaw # NoFlaw => ~flawed
  /\ flawed' = (flawed \/ flaw # NoFlaw)
  /\ published' = Append(published,
       [config |-> config, root |-> root, timestamp |-> timestamp,
        leaves |-> LeavesOf(timestamp.snapshot.log, flaw)])
  /\ UNCHANGED <<now, store, run>>

\* The registry opens, with one package or none.
Found(policy, first, flaw) ==
  LET log == NewCheckpoint(IF first = {} THEN << >> ELSE <<1>>, policy, flaw)
      targets == [n \in Namespace |->
                    IF n \in first THEN NewTargets({1}, policy, n, flaw)
                    ELSE Absent]
      snapshot == NewSnapshot(1, log, targets, policy, flaw)
  IN /\ published = << >>
     /\ PublishState(NewConfig(flaw), NewRoot(1, policy, flaw),
                NewTimestamp(1, snapshot, policy, flaw), flaw)

\* A release is published in namespace n: its targets, the log, and all that
\* hangs above them.
Release(n, flaw) ==
  LET old == Latest.timestamp.snapshot
      policy == Latest.root.policy
      releases == IF old.targets[n] = Absent THEN {} ELSE old.targets[n].releases
      log == NewCheckpoint(Append(old.log.leaves, Len(old.log.leaves) + 1),
                           policy, flaw)
      targets == [old.targets EXCEPT ![n] =
                    NewTargets(releases \cup {Len(old.log.leaves) + 1},
                               policy, n, flaw)]
      snapshot == NewSnapshot(old.version + 1, log, targets, policy, flaw)
  IN /\ published # << >>
     /\ PublishState(NewConfig(flaw), Latest.root,
                NewTimestamp(Latest.timestamp.version + 1, snapshot, policy, flaw),
                flaw)

\* The timestamp is renewed before it expires.
Refresh(flaw) ==
  /\ published # << >>
  /\ flaw.path \in {"none", "timestamp"}
  /\ PublishState(Latest.config, Latest.root,
             NewTimestamp(Latest.timestamp.version + 1, Latest.timestamp.snapshot,
                          Latest.root.policy, flaw), flaw)

\* A new root with other keys: everything is signed again.
Rotate(policy, flaw) ==
  LET old == Latest.timestamp.snapshot
      log == NewCheckpoint(old.log.leaves, policy, flaw)
      targets == [n \in Namespace |->
                    IF old.targets[n] = Absent THEN Absent
                    ELSE NewTargets(old.targets[n].releases, policy, n, flaw)]
      snapshot == NewSnapshot(old.version + 1, log, targets, policy, flaw)
  IN /\ published # << >>
     /\ policy # Latest.root.policy
     /\ PublishState(NewConfig(flaw), NewRoot(Latest.root.version + 1, policy, flaw),
                NewTimestamp(Latest.timestamp.version + 1, snapshot, policy, flaw),
                flaw)

Tick ==
  /\ now < MaxTime
  /\ now' = now + 1
  /\ UNCHANGED <<published, flawed, store, run>>

-----------------------------------------------------------------------------
(* A run.                                                                    *)

\* A descriptor names the root a registry has now; the floors stay when the
\* root does.
Import ==
  /\ phase = "idle"
  /\ published # << >>
  /\ pin' = Latest.root
  /\ floors' = IF pin = Latest.root THEN floors ELSE [ts |-> 0, snap |-> 0]
  /\ UNCHANGED <<registry, run>>

Base == <<"config", "root", "timestamp", "snapshot", "log">>

Listed(n) == got["snapshot"].targets[n] # Absent
HasPackage(n) == got[n] # Absent /\ got[n].releases # {}

\* The first namespace, in the order of the paths, that lists a package.
IsFirst(n) ==
  \E j \in 1..Len(Order) :
    /\ Order[j] = n
    /\ Listed(n) /\ HasPackage(n)
    /\ \A k \in 1..(j - 1) : ~(Listed(Order[k]) /\ HasPackage(Order[k]))

\* What is verified, in order: for a package the five documents and the
\* targets of its namespace; for a registry the documents and all its targets
\* and, once a package is listed, the chain of that package, all targets and
\* the leaves of the log.
Plan ==
  IF request.mode = "package" THEN Append(Base, request.ns)
  ELSE IF \E n \in Namespace : IsFirst(n)
    THEN Base \o Order \o Append(Base, CHOOSE n \in Namespace : IsFirst(n))
           \o Append(Order, "leaves")
    ELSE Base \o Order

\* The objects a run needs, in the order it loads them.
Needed == IF request.mode = "package" THEN Append(Base, request.ns)
          ELSE Base \o Append(Order, "leaves")

End ==
  /\ phase' = "idle"
  /\ request' = NoRequest
  /\ got' = NoDocuments
  /\ at' = 1
  /\ next' = 1
  /\ seen' = {}
  /\ valid' = 0
  /\ started' = 0

\* The trust store is read first: a registry on disk has no pin, and the
\* verification of a whole registry takes none.
Start(mode, n, pinned) ==
  /\ phase = "idle"
  /\ published # << >>
  /\ mode \in Modes
  /\ pinned => mode = "package" /\ pin # Absent
  /\ request' = [mode |-> mode, ns |-> IF mode = "package" THEN n ELSE Absent,
                 pin |-> IF pinned THEN pin ELSE Absent,
                 ts |-> IF pinned THEN floors.ts ELSE 0,
                 snap |-> IF pinned THEN floors.snap ELSE 0]
  /\ phase' = "load"
  /\ UNCHANGED <<registry, store, got, at, next, seen, valid, started>>

\* One object, of whichever publication it is.  A file that is not there is
\* an error, unless a whole registry is loaded.
Load ==
  LET path == Needed[at]
  IN /\ phase = "load"
     /\ at <= Len(Needed)
     /\ \E j \in 1..Len(published) :
          IF File(published[j], path) = Absent /\ request.mode = "package"
            THEN End
            ELSE /\ got' = [got EXCEPT ![path] = File(published[j], path)]
                 /\ at' = at + 1
                 /\ UNCHANGED <<phase, request, next, seen, valid, started>>
     /\ UNCHANGED <<registry, store>>

BeginVerification ==
  /\ phase = "load"
  /\ at = Len(Needed) + 1
  /\ phase' = "open"
  /\ at' = 1
  /\ started' = now
  /\ UNCHANGED <<registry, store, request, got, next, seen, valid>>

Current == Plan[at]

Refuse ==
  /\ phase' = "refused"
  /\ UNCHANGED <<request, got, at, next, seen, valid, started>>

\* The current document is verified: the next, or all are.
Advance ==
  /\ at' = at + 1
  /\ phase' = IF at = Len(Plan) THEN "accepted" ELSE "open"
  /\ next' = 1
  /\ seen' = {}
  /\ valid' = 0
  /\ UNCHANGED <<request, got, started>>

VerifyConfig ==
  /\ phase = "open"
  /\ Current = "config"
  /\ IF got["config"].sound THEN Advance ELSE Refuse
  /\ UNCHANGED <<registry, store>>

\* The meta entries of the snapshot are what is looped over.
SkipUnlisted ==
  /\ phase = "open"
  /\ Current \in Namespace
  /\ request.mode = "registry"
  /\ ~Listed(Current)
  /\ Advance
  /\ UNCHANGED <<registry, store>>

\* Variant: the digest of the targets is not compared.
DigestIsNamed_NotOfTargets(path) ==
  IF path = "root" THEN request.pin # Absent => got["root"] = request.pin
  ELSE IF path = "timestamp" THEN TRUE
  ELSE IF path = "snapshot" THEN got["snapshot"] = got["timestamp"].snapshot
  ELSE IF path = "log" THEN got["log"] = got["snapshot"].log
  ELSE got[path] # Absent

\* The root is the one of the pin, every other document the one its parent
\* names; the timestamp has no parent.
DigestIsNamed(path) ==
  IF path = "root" THEN request.pin # Absent => got["root"] = request.pin
  ELSE IF path = "timestamp" THEN TRUE
  ELSE IF path = "snapshot" THEN got["snapshot"] = got["timestamp"].snapshot
  ELSE IF path = "log" THEN got["log"] = got["snapshot"].log
  ELSE got[path] # Absent /\ got[path] = got["snapshot"].targets[path]

RoleOf(path) == IF path \in Namespace THEN "targets" ELSE path
PolicyOf(path) == got["root"].policy.roles[RoleOf(path)]
RoleKeys(path) ==
  {PolicyOf(path).keyids[j] : j \in 1..Len(PolicyOf(path).keyids)}

OpenDocument ==
  /\ phase = "open"
  /\ Current \notin {"config", "leaves"}
  /\ Current \in Namespace /\ request.mode = "registry" => Listed(Current)
  /\ IF /\ DigestIsNamed(Current)
        /\ got[Current].env.sound
        /\ got[Current].env.sigs # << >>
       THEN phase' = "count" /\ UNCHANGED <<request, got, at, count, started>>
       ELSE Refuse
  /\ UNCHANGED <<registry, store>>

\* Variant: every signature counts.
CountSignature_EachTime ==
  LET s == got[Current].env.sigs[next]
      known == s.key \in RoleKeys(Current)
  IN /\ phase = "count"
     /\ next <= Len(got[Current].env.sigs)
     /\ next' = next + 1
     /\ seen' = IF known THEN seen \cup {s.key} ELSE seen
     /\ valid' = IF known /\ s.good /\ s.key \in got["root"].policy.known
                   THEN valid + 1 ELSE valid
     /\ UNCHANGED <<registry, store, phase, request, got, at, started>>

\* One signature: of a key of the role, of that key for the first time, and
\* good under the key the root has for it.
CountSignature ==
  LET s == got[Current].env.sigs[next]
      fresh == s.key \in RoleKeys(Current) /\ s.key \notin seen
  IN /\ phase = "count"
     /\ next <= Len(got[Current].env.sigs)
     /\ next' = next + 1
     /\ seen' = IF fresh THEN seen \cup {s.key} ELSE seen
     /\ valid' = IF fresh /\ s.good /\ s.key \in got["root"].policy.known
                   THEN valid + 1 ELSE valid
     /\ UNCHANGED <<registry, store, phase, request, got, at, started>>

\* Variant: a version that is the floor is taken for a regression.
VersionHolds_AboveFloor(path) ==
  /\ path = "timestamp" /\ request.ts > 0 => got[path].version > request.ts
  /\ path = "snapshot" /\ request.snap > 0 => got[path].version > request.snap

\* EnforceVersionMonotonic; the roles it is not called for have no floor.
VersionHolds(path) ==
  /\ path = "timestamp" => got[path].version >= request.ts
  /\ path = "snapshot" => got[path].version >= request.snap

\* EnforceExpires.
Unexpired(path) == got[path].env.expires >= now - Skew

CloseDocument ==
  /\ phase = "count"
  /\ next > Len(got[Current].env.sigs)
  /\ IF /\ valid >= PolicyOf(Current).threshold
        /\ Unexpired(Current)
        /\ VersionHolds(Current)
        /\ request.mode = "package" /\ Current \in Namespace =>
             HasPackage(Current)
       THEN Advance
       ELSE Refuse
  /\ UNCHANGED <<registry, store>>

\* The leaves are there, have their sequence numbers, and hash to the root
\* the checkpoint has.
VerifyLog ==
  LET log == got["log"].leaves
  IN /\ phase = "open"
     /\ Current = "leaves"
     /\ IF /\ Len(log) <= MaxLog
           /\ Len(got["leaves"]) >= Len(log)
           /\ \A j \in 1..Len(log) : got["leaves"][j] = j /\ got["leaves"][j] = log[j]
          THEN Advance
          ELSE Refuse
     /\ UNCHANGED <<registry, store>>

MaxOf(m, n) == IF m >= n THEN m ELSE n

\* RaiseRegistryTrustFloors for a registry with a pin.
Finish ==
  /\ phase \in {"accepted", "refused"}
  /\ floors' = IF phase = "accepted" /\ request.pin # Absent
                 THEN [ts |-> MaxOf(floors.ts, got["timestamp"].version),
                       snap |-> MaxOf(floors.snap, got["snapshot"].version)]
                 ELSE floors
  /\ End
  /\ UNCHANGED <<registry, pin>>

Publish ==
  /\ Len(published) < MaxStates
  /\ \E flaw \in Flaws :
       \/ \E policy \in Policies :
            \/ Found(policy, {}, flaw)
            \/ \E n \in Namespace : Found(policy, {n}, flaw)
            \/ Rotate(policy, flaw)
       \/ \E n \in Namespace : Release(n, flaw)
       \/ Refresh(flaw)

Verify ==
  \/ VerifyConfig \/ SkipUnlisted \/ OpenDocument \/ CountSignature
  \/ CloseDocument \/ VerifyLog

Next ==
  \/ Publish \/ Tick \/ Import
  \/ \E mode \in Modes, n \in Namespace, pinned \in BOOLEAN :
       Start(mode, n, pinned)
  \/ Load \/ BeginVerification \/ Verify \/ Finish

Spec == Init /\ [][Next]_vars

-----------------------------------------------------------------------------
(* Properties.                                                               *)

\* The keys of the role of a document that signed it, among those the root
\* has a public key for.
Signers(path) ==
  {k \in RoleKeys(path) \cap got["root"].policy.known :
     \E j \in 1..Len(got[path].env.sigs) :
       got[path].env.sigs[j] = [key |-> k, good |-> TRUE]}

\* Those whose first signature is a good one: the later ones of a key are
\* never looked at.
FirstSigners(path) ==
  {k \in Signers(path) :
     \A j \in 1..Len(got[path].env.sigs) :
       got[path].env.sigs[j] = [key |-> k, good |-> FALSE] =>
         \E i \in 1..j : got[path].env.sigs[i] = [key |-> k, good |-> TRUE]}

Checked ==
  {"root", "timestamp", "snapshot", "log"} \cup
    IF request.mode = "package" THEN {request.ns}
    ELSE {n \in Namespace : Listed(n)}

\* Documents that were accepted are, but for the root, of one publication of
\* the registry, though each was loaded on its own and publications went on
\* in between.
AcceptedIsOneState ==
  phase = "accepted" =>
    \E j \in 1..Len(published) :
      \A path \in Checked \ {"root"} : got[path] = File(published[j], path)

\* Each of them carries good signatures of as many distinct keys as the
\* accepted root asks for in its role, had not expired when the verification
\* began, and is not older than the floors; the root is the pinned one.
AcceptedIsAuthentic ==
  phase = "accepted" =>
    /\ request.pin # Absent => got["root"] = request.pin
    /\ got["timestamp"].version >= request.ts
    /\ got["snapshot"].version >= request.snap
    /\ \A path \in Checked :
         /\ Cardinality(Signers(path)) >= PolicyOf(path).threshold
         /\ got[path].env.expires + Skew >= started

\* Documents of one publication that are sound, signed, unexpired and not
\* below the floors are never refused, so that a registry that publishes as
\* usual can always be read, again and again.
CurrentIsAccepted ==
  phase = "refused" /\ request.mode = "package" =>
    ~ /\ got["config"].sound
      /\ request.pin # Absent => got["root"] = request.pin
      /\ \E j \in 1..Len(published) :
           \A path \in Checked \ {"root"} : got[path] = File(published[j], path)
      /\ \A path \in Checked :
           /\ got[path].env.sound
           /\ Cardinality(FirstSigners(path)) >= PolicyOf(path).threshold
           /\ Unexpired(path)
      /\ got["timestamp"].version >= request.ts
      /\ got["snapshot"].version >= request.snap
      /\ HasPackage(request.ns)
=============================================================================
