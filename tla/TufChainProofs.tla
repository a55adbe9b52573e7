--------------------------- MODULE TufChainProofs ---------------------------
(* Proofs about TufChain for every set of keys, policies, namespaces and     *)
(* bounds: its types, that every signature that counts is of another key,    *)
(* and that what is accepted is signed, current and of one publication.      *)
EXTENDS TufChain, FiniteSetTheorems, SequenceTheorems, TLAPS

-----------------------------------------------------------------------------
(* What the registry publishes.                                              *)

\* A flaw is in a file, or nowhere; the signatures it brings are signatures.
LEMMA FlawType ==
  ASSUME NEW flaw \in Flaws
  PROVE  flaw.sound \in BOOLEAN /\ flaw.sigs \in Seq(Signature)
<1>1. << >> \in Seq(Signature)
  OBVIOUS
<1>2. Lists \subseteq Seq(Signature)
  BY ChainAssumption
<1>3. CASE flaw = NoFlaw
  BY <1>1, <1>3 DEF NoFlaw
<1>4. CASE flaw \in [path : Path \ {"leaves", "config"}, sound : {TRUE}, sigs : Lists]
  BY <1>2, <1>4
<1>5. CASE flaw \in [path : Path, sound : {FALSE}, sigs : {<< >>}]
  BY <1>1, <1>5
<1> QED
  BY <1>3, <1>4, <1>5 DEF Flaws

\* A publisher gives every document an envelope.
LEMMA EnvelopeType ==
  ASSUME NEW flaw \in Flaws, NEW policy \in Policies, NEW role \in Role,
         NEW path, now \in 0..MaxTime
  PROVE  NewEnvelope(policy, role, path, flaw) \in Envelope
<1>1. policy.roles[role].keyids \in Seq(Key)
  BY ChainAssumption DEF RolePolicy
<1>2. UsualSignatures(policy, role) \in Seq(Signature)
  BY <1>1 DEF UsualSignatures, Signature
<1>3. now + Life \in Nat
  BY ChainAssumption
<1> QED
  BY <1>2, <1>3, FlawType DEF NewEnvelope, Envelope

\* The documents a publisher makes are documents.
LEMMA NewDocumentTypes ==
  ASSUME NEW flaw \in Flaws, NEW policy \in Policies, now \in 0..MaxTime
  PROVE  /\ NewConfig(flaw) \in Config
         /\ \A v \in Nat : NewRoot(v, policy, flaw) \in Root
         /\ \A r \in SUBSET Nat, n \in Namespace :
              NewTargets(r, policy, n, flaw) \in Targets
         /\ \A l \in Seq(Nat) : NewCheckpoint(l, policy, flaw) \in Checkpoint
         /\ \A v \in Nat, l \in Checkpoint,
               t \in [Namespace -> Targets \cup {Absent}] :
              NewSnapshot(v, l, t, policy, flaw) \in Snapshot
         /\ \A v \in Nat, s \in Snapshot :
              NewTimestamp(v, s, policy, flaw) \in Timestamp
<1>1. NewConfig(flaw) \in Config
  BY FlawType DEF NewConfig, Config
<1>2. ASSUME NEW role \in Role, NEW path
      PROVE  NewEnvelope(policy, role, path, flaw) \in Envelope
  BY EnvelopeType
<1>3. {"root", "timestamp", "snapshot", "log", "targets"} \subseteq Role
  BY DEF Role
<1>4. \A v \in Nat : NewRoot(v, policy, flaw) \in Root
  BY <1>2, <1>3 DEF NewRoot, Root
<1>5. \A r \in SUBSET Nat, n \in Namespace :
        NewTargets(r, policy, n, flaw) \in Targets
  BY <1>2, <1>3 DEF NewTargets, Targets
<1>6. \A l \in Seq(Nat) : NewCheckpoint(l, policy, flaw) \in Checkpoint
  BY <1>2, <1>3 DEF NewCheckpoint, Checkpoint
<1>7. \A v \in Nat, l \in Checkpoint,
         t \in [Namespace -> Targets \cup {Absent}] :
        NewSnapshot(v, l, t, policy, flaw) \in Snapshot
  BY <1>2, <1>3 DEF NewSnapshot, Snapshot
<1>8. \A v \in Nat, s \in Snapshot :
        NewTimestamp(v, s, policy, flaw) \in Timestamp
  BY <1>2, <1>3 DEF NewTimestamp, Timestamp
<1> QED
  BY <1>1, <1>4, <1>5, <1>6, <1>7, <1>8

\* The leaves of a log are numbers, whichever they are.
LEMMA LeavesType ==
  ASSUME NEW log \in Checkpoint, NEW flaw
  PROVE  LeavesOf(log, flaw) \in Seq(Nat)
<1>1. log.leaves \in Seq(Nat)
  BY DEF Checkpoint
<1>2. [j \in 1..Len(log.leaves) |-> log.leaves[j] + 1] \in Seq(Nat)
  BY <1>1
<1> QED
  BY <1>1, <1>2 DEF LeavesOf

\* A publication appends one of its type to the history.
LEMMA PublishType ==
  ASSUME TypeOK, Publish
  PROVE  published' \in Seq(Publication) /\ flawed' \in BOOLEAN
<1>1. PICK flaw \in Flaws :
        \/ \E policy \in Policies :
             \/ Found(policy, {}, flaw)
             \/ \E n \in Namespace : Found(policy, {n}, flaw)
             \/ Rotate(policy, flaw)
        \/ \E n \in Namespace : Release(n, flaw)
        \/ Refresh(flaw)
  BY DEF Publish
<1>2. now \in 0..MaxTime /\ published \in Seq(Publication) /\ flawed \in BOOLEAN
  BY DEF TypeOK
<1>3. ASSUME NEW config \in Config, NEW root \in Root, NEW timestamp \in Timestamp,
             PublishState(config, root, timestamp, flaw)
      PROVE  published' \in Seq(Publication) /\ flawed' \in BOOLEAN
  <2>1. timestamp.snapshot.log \in Checkpoint
    BY DEF Timestamp, Snapshot
  <2>2. LeavesOf(timestamp.snapshot.log, flaw) \in Seq(Nat)
    BY <2>1, LeavesType
  <2>3. [config |-> config, root |-> root, timestamp |-> timestamp,
         leaves |-> LeavesOf(timestamp.snapshot.log, flaw)] \in Publication
    BY <2>2 DEF Publication
  <2> QED
    BY <1>2, <1>3, <2>3 DEF PublishState
<1>4. ASSUME published # << >>
      PROVE  /\ Latest \in Publication
             /\ Latest.config \in Config
             /\ Latest.root \in Root
             /\ Latest.root.policy \in Policies
             /\ Latest.root.version + 1 \in Nat
             /\ Latest.timestamp \in Timestamp
             /\ Latest.timestamp.version + 1 \in Nat
             /\ Latest.timestamp.snapshot \in Snapshot
  <2>1. Latest \in Publication
    BY <1>2, <1>4 DEF Latest
  <2>2. Latest.config \in Config /\ Latest.root \in Root
          /\ Latest.timestamp \in Timestamp
    BY <2>1 DEF Publication
  <2>3. Latest.root.policy \in Policies /\ Latest.root.version \in Nat
    BY <2>2 DEF Root
  <2>4. Latest.timestamp.version \in Nat /\ Latest.timestamp.snapshot \in Snapshot
    BY <2>2 DEF Timestamp
  <2> QED
    BY <2>1, <2>2, <2>3, <2>4
<1>5. ASSUME NEW snapshot \in Snapshot
      PROVE  /\ snapshot.version + 1 \in Nat
             /\ snapshot.log.leaves \in Seq(Nat)
             /\ snapshot.targets \in [Namespace -> Targets \cup {Absent}]
             /\ \A n \in Namespace : snapshot.targets[n] # Absent =>
                  snapshot.targets[n].releases \in SUBSET Nat
  BY <1>5 DEF Snapshot, Checkpoint, Targets
<1>6. ASSUME NEW policy \in Policies, NEW first \in SUBSET Namespace,
             Found(policy, first, flaw)
      PROVE  published' \in Seq(Publication) /\ flawed' \in BOOLEAN
  <2> DEFINE leaves == IF first = {} THEN << >> ELSE <<1>>
             log == NewCheckpoint(leaves, policy, flaw)
             targets == [n \in Namespace |->
                           IF n \in first THEN NewTargets({1}, policy, n, flaw)
                           ELSE Absent]
             snapshot == NewSnapshot(1, log, targets, policy, flaw)
  <2>1. leaves \in Seq(Nat)
    OBVIOUS
  <2>2. log \in Checkpoint
    BY <2>1, <1>2, NewDocumentTypes
  <2>3. targets \in [Namespace -> Targets \cup {Absent}]
    BY <1>2, NewDocumentTypes
  <2>4. snapshot \in Snapshot
    BY <2>2, <2>3, <1>2, NewDocumentTypes
  <2>5. NewTimestamp(1, snapshot, policy, flaw) \in Timestamp
    BY <2>4, <1>2, NewDocumentTypes
  <2>6. PublishState(NewConfig(flaw), NewRoot(1, policy, flaw),
                     NewTimestamp(1, snapshot, policy, flaw), flaw)
    BY <1>6 DEF Found
  <2> QED
    BY <2>5, <2>6, <1>2, <1>3, NewDocumentTypes
<1>7. ASSUME NEW n \in Namespace, Release(n, flaw)
      PROVE  published' \in Seq(Publication) /\ flawed' \in BOOLEAN
  <2> DEFINE old == Latest.timestamp.snapshot
             policy == Latest.root.policy
             releases == IF old.targets[n] = Absent THEN {} ELSE old.targets[n].releases
             more == releases \cup {Len(old.log.leaves) + 1}
             leaves == Append(old.log.leaves, Len(old.log.leaves) + 1)
             log == NewCheckpoint(leaves, policy, flaw)
             new == NewTargets(more, policy, n, flaw)
             targets == [old.targets EXCEPT ![n] = new]
             snapshot == NewSnapshot(old.version + 1, log, targets, policy, flaw)
  <2>1. published # << >>
    BY <1>7 DEF Release
  <2>2. /\ old \in Snapshot /\ policy \in Policies
        /\ Latest.timestamp.version + 1 \in Nat /\ Latest.root \in Root
    BY <2>1, <1>4
  <2>3. /\ old.version + 1 \in Nat
        /\ old.log.leaves \in Seq(Nat)
        /\ old.targets \in [Namespace -> Targets \cup {Absent}]
        /\ old.targets[n] # Absent => old.targets[n].releases \in SUBSET Nat
    BY <2>2, <1>5
  <2>4. leaves \in Seq(Nat) /\ more \in SUBSET Nat
    <3>1. Len(old.log.leaves) + 1 \in Nat
      <4>1. ASSUME NEW q \in Seq(Nat)
            PROVE  Len(q) + 1 \in Nat
        OBVIOUS
      <4> HIDE DEF old
      <4> QED
        BY <2>3, <4>1
    <3>2. releases \in SUBSET Nat
      BY <2>3
    <3>3. leaves \in Seq(Nat)
      <4> HIDE DEF old
      <4> QED
        BY <2>3, <3>1
    <3>4. more \in SUBSET Nat
      <4> HIDE DEF old, releases
      <4> QED
        BY <3>1, <3>2
    <3> QED
      BY <3>3, <3>4
  <2>5. log \in Checkpoint
    BY <2>2, <2>4, <1>2, NewDocumentTypes
  <2>6. new \in Targets
    BY <2>2, <2>4, <1>2, NewDocumentTypes
  <2>7. targets \in [Namespace -> Targets \cup {Absent}]
    BY <2>3, <2>6
  <2>8. snapshot \in Snapshot
    BY <2>2, <2>3, <2>5, <2>7, <1>2, NewDocumentTypes
  <2>9. NewTimestamp(Latest.timestamp.version + 1, snapshot, policy, flaw) \in Timestamp
    BY <2>2, <2>8, <1>2, NewDocumentTypes
  <2>10. PublishState(NewConfig(flaw), Latest.root,
           NewTimestamp(Latest.timestamp.version + 1, snapshot, policy, flaw), flaw)
    BY <1>7 DEF Release
  <2>11. NewConfig(flaw) \in Config
    BY <2>2, <1>2, NewDocumentTypes
  <2> HIDE DEF old, policy, snapshot
  <2> QED
    BY <2>2, <2>9, <2>10, <2>11, <1>3
<1>8. ASSUME Refresh(flaw)
      PROVE  published' \in Seq(Publication) /\ flawed' \in BOOLEAN
  <2>1. published # << >>
    BY <1>8 DEF Refresh
  <2>2. NewTimestamp(Latest.timestamp.version + 1, Latest.timestamp.snapshot,
                     Latest.root.policy, flaw) \in Timestamp
    BY <2>1, <1>2, <1>4, NewDocumentTypes
  <2> QED
    BY <2>1, <2>2, <1>3, <1>4, <1>8 DEF Refresh
<1>9. ASSUME NEW policy \in Policies, Rotate(policy, flaw)
      PROVE  published' \in Seq(Publication) /\ flawed' \in BOOLEAN
  <2> DEFINE old == Latest.timestamp.snapshot
             log == NewCheckpoint(old.log.leaves, policy, flaw)
             targets == [n \in Namespace |->
                           IF old.targets[n] = Absent THEN Absent
                           ELSE NewTargets(old.targets[n].releases, policy, n, flaw)]
             snapshot == NewSnapshot(old.version + 1, log, targets, policy, flaw)
  <2>1. published # << >>
    BY <1>9 DEF Rotate
  <2>2. /\ old \in Snapshot
        /\ Latest.timestamp.version + 1 \in Nat
        /\ Latest.root.version + 1 \in Nat
    BY <2>1, <1>4
  <2>3. /\ old.version + 1 \in Nat
        /\ old.log.leaves \in Seq(Nat)
        /\ \A n \in Namespace : old.targets[n] # Absent =>
             old.targets[n].releases \in SUBSET Nat
    BY <2>2, <1>5
  <2>4. log \in Checkpoint
    BY <2>3, <1>2, NewDocumentTypes
  <2>5. \A n \in Namespace : old.targets[n] # Absent =>
          NewTargets(old.targets[n].releases, policy, n, flaw) \in Targets
    BY <2>3, <1>2, NewDocumentTypes
  <2>6. targets \in [Namespace -> Targets \cup {Absent}]
    BY <2>5
  <2>7. snapshot \in Snapshot
    BY <2>3, <2>4, <2>6, <1>2, NewDocumentTypes
  <2>8. NewTimestamp(Latest.timestamp.version + 1, snapshot, policy, flaw) \in Timestamp
    BY <2>2, <2>7, <1>2, NewDocumentTypes
  <2>9. PublishState(NewConfig(flaw), NewRoot(Latest.root.version + 1, policy, flaw),
          NewTimestamp(Latest.timestamp.version + 1, snapshot, policy, flaw), flaw)
    BY <1>9 DEF Rotate
  <2>10. NewConfig(flaw) \in Config
           /\ NewRoot(Latest.root.version + 1, policy, flaw) \in Root
    BY <2>2, <1>2, NewDocumentTypes
  <2> HIDE DEF snapshot
  <2> QED
    BY <2>8, <2>9, <2>10, <1>3
<1>10. \A n \in Namespace : {n} \in SUBSET Namespace
  OBVIOUS
<1> QED
  BY <1>1, <1>6, <1>7, <1>8, <1>9, <1>10

-----------------------------------------------------------------------------
(* The run.                                                                  *)

\* What the verification of a document leaves behind; the digest it compared
\* and the signatures it counted do not change any more.
Verified(path) ==
  \/ path \in {"config", "leaves"}
  \/ path \in Namespace /\ request.mode = "registry" /\ ~Listed(path)
  \/ /\ DigestIsNamed(path)
     /\ VersionHolds(path)
     /\ Cardinality(Signers(path)) >= PolicyOf(path).threshold
     /\ got[path].env.expires + Skew >= started

RequestOK ==
  /\ request.mode \in {"package", "registry"}
  /\ request.mode = "package" => request.ns \in Namespace

\* A timestamp that was loaded was published.
Loaded ==
  got["timestamp"] # Absent =>
    \E j \in 1..Len(published) : got["timestamp"] = published[j].timestamp

\* The signatures that counted so far are of as many keys.
Counting ==
  /\ Current \notin {"config", "leaves"}
  /\ DigestIsNamed(Current)
  /\ got[Current] # Absent
  /\ next >= 1
  /\ valid <= Cardinality(seen \cap Signers(Current))

RunOK ==
  /\ IF phase = "idle" THEN at = 1 /\ got = NoDocuments ELSE RequestOK
  /\ phase \in {"idle", "load", "open"} => next = 1 /\ seen = {} /\ valid = 0
  /\ Loaded
  /\ phase = "load" =>
       /\ at >= 1
       /\ \A j \in 1..5 : j < at => got[Base[j]] # Absent
  /\ phase \in {"open", "count", "accepted"} =>
       /\ \A path \in Fixed : got[path] # Absent
       /\ started <= now
       /\ \A j \in 1..Len(Plan) : j < at => Verified(Plan[j])
  /\ phase \in {"open", "count"} => at \in 1..Len(Plan)
  /\ phase = "accepted" => at = Len(Plan) + 1
  /\ phase = "count" => Counting

IInv == TypeOK /\ RunOK

\* Sequences of paths that are put together.
LEMMA Joined ==
  ASSUME NEW s \in Seq(Path), NEW t \in Seq(Path)
  PROVE  /\ s \o t \in Seq(Path)
         /\ Len(s \o t) = Len(s) + Len(t)
         /\ \A i \in 1..Len(s) : i \in 1..Len(s \o t) /\ (s \o t)[i] = s[i]
         /\ \A i \in 1..Len(t) :
              Len(s) + i \in 1..Len(s \o t) /\ (s \o t)[Len(s) + i] = t[i]
<1>1. Len(s) \in Nat /\ Len(t) \in Nat
  OBVIOUS
<1>2. \A i \in 1..Len(t) : /\ Len(s) + i \in 1..(Len(s) + Len(t))
                           /\ ~(Len(s) + i <= Len(s))
                           /\ Len(s) + i - Len(s) = i
  BY <1>1
<1>3. \A i \in 1..Len(s) : i \in 1..(Len(s) + Len(t)) /\ i <= Len(s)
  BY <1>1
<1> QED
  BY <1>2, <1>3, ConcatProperties

LEMMA Extended ==
  ASSUME NEW s \in Seq(Path), NEW x \in Path
  PROVE  /\ Append(s, x) \in Seq(Path)
         /\ Len(Append(s, x)) = Len(s) + 1
         /\ \A i \in 1..Len(s) :
              i \in 1..Len(Append(s, x)) /\ Append(s, x)[i] = s[i]
         /\ Len(s) + 1 \in 1..Len(Append(s, x))
         /\ Append(s, x)[Len(s) + 1] = x
<1>1. /\ Append(s, x) \in Seq(Path)
      /\ Append(s, x) # << >>
      /\ Len(Append(s, x)) = Len(s) + 1
      /\ \A i \in 1..Len(s) : Append(s, x)[i] = s[i]
      /\ Append(s, x)[Len(s) + 1] = x
  BY AppendProperties
<1>2. Len(s) + 1 \in 1..(Len(s) + 1)
        /\ \A i \in 1..Len(s) : i \in 1..(Len(s) + 1)
  OBVIOUS
<1> QED
  BY <1>1, <1>2, Zenon

\* The plan and the objects that are loaded are paths, the five documents
\* first.
LEMMA PlanType ==
  ASSUME RequestOK
  PROVE  /\ Plan \in Seq(Path)
         /\ Needed \in Seq(Path)
         /\ \A j \in 1..5 : /\ j \in 1..Len(Plan) /\ Plan[j] = Base[j]
                            /\ j \in 1..Len(Needed) /\ Needed[j] = Base[j]
<1>1. Base \in Seq(Path)
  BY DEF Base, Path, Fixed
<1>2. \A j \in 1..5 : j \in 1..Len(Base)
  BY DEF Base
<1>3. Order \in Seq(Path) /\ "leaves" \in Path
  BY ChainAssumption DEF Path
<1>4. ASSUME NEW s \in Seq(Path), NEW t \in Seq(Path),
             \A j \in 1..5 : j \in 1..Len(s) /\ s[j] = Base[j]
      PROVE  /\ s \o t \in Seq(Path)
             /\ \A j \in 1..5 : j \in 1..Len(s \o t) /\ (s \o t)[j] = Base[j]
  BY <1>4, Joined
<1>5. CASE request.mode = "package"
  <2>1. Plan = Append(Base, request.ns) /\ Needed = Append(Base, request.ns)
    BY <1>5 DEF Plan, Needed
  <2>2. request.ns \in Path
    BY <1>5 DEF RequestOK, Path
  <2>3. /\ Append(Base, request.ns) \in Seq(Path)
        /\ \A j \in 1..Len(Base) : /\ j \in 1..Len(Append(Base, request.ns))
                                   /\ Append(Base, request.ns)[j] = Base[j]
    BY <1>1, <2>2, Extended
  <2> QED
    BY <1>2, <2>1, <2>3
<1>6. CASE request.mode = "registry"
  <2>1. Append(Order, "leaves") \in Seq(Path)
    BY <1>3, Extended
  <2>2. Needed = Base \o Append(Order, "leaves")
    BY <1>6 DEF Needed
  <2>3. /\ Base \o Append(Order, "leaves") \in Seq(Path)
        /\ \A j \in 1..5 : /\ j \in 1..Len(Base \o Append(Order, "leaves"))
                           /\ (Base \o Append(Order, "leaves"))[j] = Base[j]
    BY <1>1, <1>2, <1>4, <2>1
  <2>4. /\ Base \o Order \in Seq(Path)
        /\ \A j \in 1..5 : /\ j \in 1..Len(Base \o Order)
                           /\ (Base \o Order)[j] = Base[j]
    BY <1>1, <1>2, <1>3, <1>4
  <2>5. CASE ~ \E n \in Namespace : IsFirst(n)
    <3>1. Plan = Base \o Order
      BY <1>6, <2>5 DEF Plan
    <3> QED
      BY <2>2, <2>3, <2>4, <3>1
  <2>6. CASE \E n \in Namespace : IsFirst(n)
    <3> DEFINE first == CHOOSE n \in Namespace : IsFirst(n)
               once == Base \o Order \o Append(Base, first)
    <3>1. first \in Path
      BY <2>6 DEF Path
    <3>2. Plan = once \o Append(Order, "leaves")
      BY <1>6, <2>6 DEF Plan
    <3> HIDE DEF first
    <3>3. Append(Base, first) \in Seq(Path)
      BY <1>1, <3>1, Extended
    <3>4. /\ once \in Seq(Path)
          /\ \A j \in 1..5 : j \in 1..Len(once) /\ once[j] = Base[j]
      BY <2>4, <3>3, <1>4
    <3> HIDE DEF once
    <3>5. /\ once \o Append(Order, "leaves") \in Seq(Path)
          /\ \A j \in 1..5 : /\ j \in 1..Len(once \o Append(Order, "leaves"))
                             /\ (once \o Append(Order, "leaves"))[j] = Base[j]
      BY <2>1, <3>4, <1>4
    <3> QED
      BY <2>2, <2>3, <3>2, <3>5
  <2> QED
    BY <2>5, <2>6
<1> QED
  BY <1>5, <1>6 DEF RequestOK

\* Every document the properties speak of is in the plan.
LEMMA PlanCovers ==
  ASSUME RequestOK, NEW path \in Checked
  PROVE  \E j \in 1..Len(Plan) : Plan[j] = path
<1>1. Base \in Seq(Path)
  BY DEF Base, Path, Fixed
<1>2. ASSUME NEW s \in Seq(Path), NEW t \in Seq(Path),
             \/ \E j \in 1..Len(s) : s[j] = path
             \/ \E j \in 1..Len(t) : t[j] = path
      PROVE  /\ s \o t \in Seq(Path)
             /\ \E j \in 1..Len(s \o t) : (s \o t)[j] = path
  <2>1. /\ s \o t \in Seq(Path)
        /\ \A i \in 1..Len(s) : i \in 1..Len(s \o t) /\ (s \o t)[i] = s[i]
        /\ \A i \in 1..Len(t) :
             Len(s) + i \in 1..Len(s \o t) /\ (s \o t)[Len(s) + i] = t[i]
    BY Joined
  <2>2. CASE \E j \in 1..Len(s) : s[j] = path
    BY <2>1, <2>2
  <2>3. CASE \E j \in 1..Len(t) : t[j] = path
    BY <2>1, <2>3
  <2> QED
    BY <1>2, <2>1, <2>2, <2>3
<1>3. CASE path \in Fixed
  <2>1. \E j \in 1..5 : Base[j] = path
    BY <1>3 DEF Base, Fixed
  <2> QED
    BY <2>1, PlanType
<1>4. CASE path \notin Fixed /\ request.mode = "package"
  <2>1. Plan = Append(Base, request.ns) /\ path = request.ns
    BY <1>4 DEF Plan, Checked, Fixed
  <2>2. request.ns \in Path
    BY <1>4 DEF RequestOK, Path
  <2>3. /\ Len(Base) + 1 \in 1..Len(Append(Base, request.ns))
        /\ Append(Base, request.ns)[Len(Base) + 1] = request.ns
    BY <1>1, <2>2, Extended
  <2> QED
    BY <2>1, <2>3
<1>5. CASE path \notin Fixed /\ request.mode = "registry"
  <2>1. path \in Namespace
    BY <1>5 DEF Checked, Fixed
  <2>2. \E k \in 1..Len(Order) : Order[k] = path
    BY <2>1, ChainAssumption
  <2>3. Order \in Seq(Path) /\ "leaves" \in Path
    BY ChainAssumption DEF Path
  <2>4. /\ Base \o Order \in Seq(Path)
        /\ \E j \in 1..Len(Base \o Order) : (Base \o Order)[j] = path
    BY <1>1, <1>2, <2>2, <2>3
  <2>5. CASE ~ \E n \in Namespace : IsFirst(n)
    <3>1. Plan = Base \o Order
      BY <1>5, <2>5 DEF Plan
    <3> QED
      BY <2>4, <3>1
  <2>6. CASE \E n \in Namespace : IsFirst(n)
    <3> DEFINE first == CHOOSE n \in Namespace : IsFirst(n)
               once == Base \o Order \o Append(Base, first)
    <3>1. first \in Path
      BY <2>6 DEF Path
    <3>2. Plan = once \o Append(Order, "leaves")
      BY <1>5, <2>6 DEF Plan
    <3> HIDE DEF first
    <3>3. Append(Base, first) \in Seq(Path)
      BY <1>1, <3>1, Extended
    <3>4. Append(Order, "leaves") \in Seq(Path)
      BY <2>3, Extended
    <3>5. once \in Seq(Path) /\ \E j \in 1..Len(once) : once[j] = path
      BY <2>4, <3>3, <1>2
    <3> HIDE DEF once
    <3>6. \E j \in 1..Len(once \o Append(Order, "leaves")) :
            (once \o Append(Order, "leaves"))[j] = path
      BY <3>4, <3>5, <1>2
    <3> QED
      BY <3>2, <3>6
  <2> QED
    BY <2>5, <2>6
<1> QED
  BY <1>3, <1>4, <1>5 DEF RequestOK

\* What is derived from the request and the documents stays when they do.
LEMMA Frame ==
  ASSUME got' = got, request' = request
  PROVE  /\ Plan' = Plan /\ Needed' = Needed
         /\ \A path : /\ (Listed(path)' <=> Listed(path))
                      /\ (DigestIsNamed(path)' <=> DigestIsNamed(path))
                      /\ (VersionHolds(path)' <=> VersionHolds(path))
                      /\ PolicyOf(path)' = PolicyOf(path)
                      /\ RoleKeys(path)' = RoleKeys(path)
                      /\ Signers(path)' = Signers(path)
<1>1. \A path : (Listed(path)' <=> Listed(path)) /\ (HasPackage(path)' <=> HasPackage(path))
  BY DEF Listed, HasPackage
<1>2. \A n : (IsFirst(n)' <=> IsFirst(n))
  BY <1>1 DEF IsFirst, Listed, HasPackage
<1>3. Plan' = Plan
  BY DEF Plan, IsFirst, Listed, HasPackage
<1>4. Needed' = Needed
  BY DEF Needed
<1>5. \A path : PolicyOf(path)' = PolicyOf(path) /\ RoleKeys(path)' = RoleKeys(path)
  BY DEF PolicyOf, RoleKeys
<1>6. \A path : Signers(path)' = Signers(path)
  BY DEF Signers, RoleKeys, PolicyOf
<1>7. \A path : (DigestIsNamed(path)' <=> DigestIsNamed(path))
                 /\ (VersionHolds(path)' <=> VersionHolds(path))
  BY DEF DigestIsNamed, VersionHolds
<1> QED
  BY <1>1, <1>3, <1>4, <1>5, <1>6, <1>7

\* So does what was verified, when the verification began where it did.
LEMMA VerifiedFrame ==
  ASSUME got' = got, request' = request, started' = started
  PROVE  \A path : (Verified(path)' <=> Verified(path))
<1> SUFFICES ASSUME NEW path
             PROVE  (Verified(path)' <=> Verified(path))
  OBVIOUS
<1>1. /\ (Listed(path)' <=> Listed(path))
      /\ (DigestIsNamed(path)' <=> DigestIsNamed(path))
      /\ (VersionHolds(path)' <=> VersionHolds(path))
      /\ PolicyOf(path)' = PolicyOf(path)
      /\ Signers(path)' = Signers(path)
  BY Frame
<1> QED
  BY <1>1 DEF Verified

\* A document that was loaded is of the type of its path.
LEMMA DocumentType ==
  ASSUME TypeOK, NEW path \in Path, got[path] # Absent
  PROVE  got[path] \in Document(path)
BY DEF TypeOK

\* So are the files of a publication, and the five are always there.
LEMMA FileType ==
  ASSUME NEW s \in Publication, NEW path \in Path
  PROVE  /\ File(s, path) \in Document(path) \cup {Absent}
         /\ path \in Fixed => File(s, path) # Absent
<1>1. /\ s.config \in Config /\ s.root \in Root /\ s.timestamp \in Timestamp
      /\ s.leaves \in Seq(Nat)
  BY DEF Publication
<1>2. s.timestamp.snapshot \in Snapshot
  BY <1>1 DEF Timestamp
<1>3. /\ s.timestamp.snapshot.log \in Checkpoint
      /\ s.timestamp.snapshot.targets \in [Namespace -> Targets \cup {Absent}]
  BY <1>2 DEF Snapshot
<1>4. CASE path \in Fixed
  BY <1>1, <1>2, <1>3, <1>4, AbsentAssumption
  DEF File, Document, Fixed, AnyDocument
<1>5. CASE path = "leaves"
  BY <1>1, <1>5 DEF File, Document, Fixed
<1>6. CASE path \in Namespace /\ path \notin Fixed \cup {"leaves"}
  BY <1>3, <1>6 DEF File, Document, Fixed
<1> QED
  BY <1>4, <1>5, <1>6 DEF Path

\* What a signed document that was loaded has, and the root says of it.
LEMMA SignedTypes ==
  ASSUME TypeOK, got["root"] # Absent,
         NEW path \in Path \ {"config", "leaves"}, got[path] # Absent
  PROVE  /\ got[path].env \in Envelope
         /\ got[path].env.sigs \in Seq(Signature)
         /\ got[path].env.expires \in Nat
         /\ PolicyOf(path) \in RolePolicy
         /\ PolicyOf(path).threshold \in Nat
         /\ RoleKeys(path) \subseteq Key
         /\ IsFiniteSet(Signers(path))
<1>1. "root" \in Path
  BY DEF Path, Fixed
<1>2. got["root"] \in Root
  BY <1>1, DocumentType DEF Document
<1>3. RoleOf(path) \in Role
  BY DEF RoleOf, Role, Path, Fixed
<1>4. PolicyOf(path) \in RolePolicy
  BY <1>2, <1>3, ChainAssumption DEF Root, PolicyOf
<1>5. PolicyOf(path).threshold \in Nat /\ PolicyOf(path).keyids \in Seq(Key)
  BY <1>4 DEF RolePolicy
<1>6. RoleKeys(path) \subseteq Key
  BY <1>5 DEF RoleKeys
<1>7. IsFiniteSet(Signers(path))
  BY <1>6, ChainAssumption, FS_Subset DEF Signers
<1>8. got[path] \in Root \cup Timestamp \cup Snapshot \cup Checkpoint \cup Targets
  BY DocumentType DEF Document, Path, Fixed
<1>9. got[path].env \in Envelope
  BY <1>8 DEF Root, Timestamp, Snapshot, Checkpoint, Targets
<1> QED
  BY <1>4, <1>5, <1>6, <1>7, <1>9 DEF Envelope

\* What is verified next is a path, and one whose document was loaded unless
\* it is in the meta entries of the snapshot only.
LEMMA CurrentType ==
  ASSUME IInv, phase \in {"open", "count"}
  PROVE  Current \in Path
<1>1. at \in 1..Len(Plan) /\ RequestOK
  BY DEF IInv, RunOK
<1>2. Plan \in Seq(Path)
  BY <1>1, PlanType
<1> QED
  BY <1>1, <1>2 DEF Current

-----------------------------------------------------------------------------
(* The steps.                                                                *)

\* What the registry and the clock do leaves a run as it is.
LEMMA OutsideStep ==
  ASSUME IInv, UNCHANGED run, now' \in Nat, now' >= now,
         \A j \in 1..Len(published) :
           j \in 1..Len(published') /\ published'[j] = published[j]
  PROVE  RunOK'
<1>1. Plan' = Plan /\ Needed' = Needed /\ Current' = Current
  BY Frame DEF run, Current
<1>2. \A path : (Verified(path)' <=> Verified(path))
  BY VerifiedFrame DEF run
<1>3. Counting => Counting'
  BY <1>1, Frame DEF run, Counting
<1>4. Loaded'
  BY DEF IInv, RunOK, Loaded, run
<1>5. RequestOK => RequestOK'
  BY DEF RequestOK, run
<1>6. started <= now => started <= now'
  BY DEF IInv, TypeOK
<1>7. /\ phase' = phase /\ at' = at /\ got' = got /\ next' = next
      /\ seen' = seen /\ valid' = valid /\ started' = started
  BY DEF run
<1> QED
  BY <1>1, <1>2, <1>3, <1>4, <1>5, <1>6, <1>7 DEF IInv, RunOK

\* A run that ends keeps nothing.
LEMMA EndStep ==
  ASSUME TypeOK, End
  PROVE  RunOK' /\ phase' \in Phases /\ request' \in Request
           /\ got' \in [Path -> AnyDocument \cup {Absent}]
           /\ (\A path \in Path : got'[path] \in Document(path) \cup {Absent})
           /\ at' \in Nat /\ next' \in Nat /\ seen' \in SUBSET Key
           /\ valid' \in Nat /\ started' \in Nat
<1>1. "timestamp" \in Path
  BY DEF Path, Fixed
<1>2. Loaded'
  BY <1>1 DEF End, Loaded, NoDocuments
<1>3. RunOK'
  BY <1>2 DEF End, RunOK
<1>4. request' \in Request
  BY DEF End, NoRequest, Request
<1>5. /\ got' \in [Path -> AnyDocument \cup {Absent}]
      /\ \A path \in Path : got'[path] \in Document(path) \cup {Absent}
  BY DEF End, NoDocuments
<1> QED
  BY <1>3, <1>4, <1>5 DEF End, Phases

LEMMA StartStep ==
  ASSUME IInv, NEW mode \in Modes, NEW n \in Namespace, NEW pinned \in BOOLEAN,
         Start(mode, n, pinned)
  PROVE  IInv'
<1>1. mode \in {"package", "registry"}
  BY ChainAssumption
<1>2. request' \in Request
  BY DEF Start, IInv, TypeOK, Request, Floors
<1>3. TypeOK'
  BY <1>2 DEF Start, IInv, TypeOK, registry, store, Phases
<1>4. RequestOK'
  BY <1>1 DEF Start, RequestOK
<1>5. Loaded'
  BY DEF Start, IInv, RunOK, Loaded, registry
<1>6. at = 1
  BY DEF Start, IInv, RunOK
<1> QED
  BY <1>3, <1>4, <1>5, <1>6 DEF Start, IInv, RunOK

LEMMA LoadStep ==
  ASSUME IInv, Load
  PROVE  IInv'
<1> DEFINE path == Needed[at]
<1>1. /\ phase = "load" /\ at <= Len(Needed) /\ at \in Nat /\ at >= 1
      /\ RequestOK /\ UNCHANGED <<registry, store>>
  BY DEF Load, IInv, TypeOK, RunOK
<1>2. path \in Path
  BY <1>1, PlanType
<1>3. PICK j \in 1..Len(published) :
        IF File(published[j], path) = Absent /\ request.mode = "package"
          THEN End
          ELSE /\ got' = [got EXCEPT ![path] = File(published[j], path)]
               /\ at' = at + 1
               /\ UNCHANGED <<phase, request, next, seen, valid, started>>
  BY DEF Load
<1>4. published[j] \in Publication
  BY DEF IInv, TypeOK
<1>5. CASE End
  <2>1. TypeOK
    BY DEF IInv
  <2> QED
    BY <1>1, <1>5, <2>1, EndStep DEF IInv, TypeOK, registry, store
<1>6. CASE /\ got' = [got EXCEPT ![path] = File(published[j], path)]
           /\ at' = at + 1
           /\ UNCHANGED <<phase, request, next, seen, valid, started>>
  <2> DEFINE f == File(published[j], path)
  <2>1. f \in Document(path) \cup {Absent} /\ (path \in Fixed => f # Absent)
    BY <1>2, <1>4, FileType
  <2>2. f \in AnyDocument \cup {Absent}
    BY <2>1 DEF Document, AnyDocument
  <2>3. path = "timestamp" => f = published[j].timestamp
    BY DEF File
  <2> HIDE DEF path, f
  <2>4. got \in [Path -> AnyDocument \cup {Absent}]
    BY DEF IInv, TypeOK
  <2>5. /\ got' = [got EXCEPT ![path] = f]
        /\ got'[path] = f
        /\ \A q \in Path : q # path => got'[q] = got[q]
    BY <1>2, <1>6, <2>4 DEF f
  <2>6. TypeOK'
    <3>1. got' \in [Path -> AnyDocument \cup {Absent}]
      BY <2>2, <2>4, <2>5
    <3>2. \A q \in Path : got'[q] \in Document(q) \cup {Absent}
      BY <2>1, <2>5 DEF IInv, TypeOK
    <3> QED
      BY <1>1, <1>6, <3>1, <3>2 DEF IInv, TypeOK, registry, store
  <2>7. Loaded'
    <3>1. "timestamp" \in Path
      BY DEF Path, Fixed
    <3>2. CASE path = "timestamp"
      BY <1>1, <2>3, <2>5, <3>2 DEF Loaded, registry
    <3>3. CASE path # "timestamp"
      BY <1>1, <2>5, <3>1, <3>3 DEF Loaded, registry, IInv, RunOK
    <3> QED
      BY <3>2, <3>3
  <2>8. \A k \in 1..5 : k < at' => got'[Base[k]] # Absent
    <3> SUFFICES ASSUME NEW k \in 1..5, k < at'
                 PROVE  got'[Base[k]] # Absent
      OBVIOUS
    <3>1. Base[k] \in Fixed /\ Base[k] \in Path
      BY DEF Base, Fixed, Path
    <3>2. CASE k < at
      <4>1. got[Base[k]] # Absent
        BY <1>1, <3>2 DEF IInv, RunOK
      <4> QED
        BY <2>1, <2>5, <3>1, <4>1
    <3>3. CASE k = at
      <4>1. path = Base[k]
        BY <1>1, <3>3, PlanType DEF path
      <4> QED
        BY <2>1, <2>5, <3>1, <4>1
    <3> QED
      BY <1>1, <1>6, <3>2, <3>3
  <2>9. RequestOK'
    BY <1>1, <1>6 DEF RequestOK
  <2> QED
    BY <1>1, <1>6, <2>6, <2>7, <2>8, <2>9 DEF IInv, RunOK
<1> QED
  BY <1>3, <1>5, <1>6

LEMMA BeginStep ==
  ASSUME IInv, BeginVerification
  PROVE  IInv'
<1>1. /\ phase = "load" /\ at = Len(Needed) + 1 /\ phase' = "open" /\ at' = 1
      /\ started' = now
      /\ UNCHANGED <<registry, store, request, got, next, seen, valid>>
  BY DEF BeginVerification
<1>2. RequestOK
  BY <1>1 DEF IInv, RunOK
<1>3. TypeOK'
  BY <1>1 DEF IInv, TypeOK, registry, store, Phases
<1>4. RequestOK' /\ Loaded'
  BY <1>1, <1>2 DEF RequestOK, Loaded, IInv, RunOK, registry
<1>5. Plan' = Plan
  BY <1>1, Frame
<1>6. \A path \in Fixed : got'[path] # Absent
  <2>1. \A j \in 1..5 : j < at
    BY <1>1, <1>2, PlanType
  <2>2. \A j \in 1..5 : got[Base[j]] # Absent
    BY <1>1, <2>1 DEF IInv, RunOK
  <2>3. \A path \in Fixed : \E j \in 1..5 : Base[j] = path
    BY DEF Base, Fixed
  <2> QED
    BY <1>1, <2>2, <2>3
<1>7. 1 \in 1..Len(Plan')
  BY <1>2, <1>5, PlanType
<1>8. started' <= now'
  BY <1>1 DEF IInv, TypeOK, registry
<1> QED
  BY <1>1, <1>3, <1>4, <1>5, <1>6, <1>7, <1>8 DEF IInv, RunOK

LEMMA RefuseStep ==
  ASSUME IInv, phase \in {"open", "count"}, Refuse, UNCHANGED <<registry, store>>
  PROVE  IInv'
<1>1. TypeOK'
  BY DEF Refuse, IInv, TypeOK, registry, store, Phases
<1>2. RequestOK' /\ Loaded'
  BY DEF Refuse, RequestOK, Loaded, IInv, RunOK, registry
<1> QED
  BY <1>1, <1>2 DEF Refuse, IInv, RunOK

LEMMA AdvanceStep ==
  ASSUME IInv, phase \in {"open", "count"}, Verified(Current), Advance,
         UNCHANGED <<registry, store>>
  PROVE  IInv'
<1>1. /\ at' = at + 1
      /\ phase' = IF at = Len(Plan) THEN "accepted" ELSE "open"
      /\ next' = 1 /\ seen' = {} /\ valid' = 0
      /\ request' = request /\ got' = got /\ started' = started
      /\ published' = published /\ now' = now
  BY DEF Advance, registry
<1>2. TypeOK'
  BY <1>1 DEF IInv, TypeOK, registry, store, Phases
<1>3. RequestOK /\ RequestOK' /\ Loaded'
  BY <1>1 DEF RequestOK, Loaded, IInv, RunOK
<1>4. Plan' = Plan /\ \A path : (Verified(path)' <=> Verified(path))
  BY <1>1, Frame, VerifiedFrame
<1>5. at \in 1..Len(Plan) /\ at \in Nat
  BY DEF IInv, RunOK, TypeOK
<1>6. \A j \in 1..Len(Plan) : j < at' => Verified(Plan[j])
  <2>1. \A j \in 1..Len(Plan) : j < at => Verified(Plan[j])
    BY DEF IInv, RunOK
  <2>2. Verified(Plan[at])
    BY DEF Current
  <2>3. \A j \in 1..Len(Plan) : j < at' => j < at \/ j = at
    BY <1>1, <1>5
  <2> QED
    BY <2>1, <2>2, <2>3
<1>7. \A j \in 1..Len(Plan') : j < at' => Verified(Plan[j])'
  BY <1>4, <1>6
<1>8. Len(Plan) \in Nat
  BY <1>3, PlanType
<1>9. at # Len(Plan) => at' \in 1..Len(Plan')
  BY <1>1, <1>4, <1>5, <1>8
<1>10. at = Len(Plan) => at' = Len(Plan') + 1
  BY <1>1, <1>4
<1>11. (\A path \in Fixed : got'[path] # Absent) /\ started' <= now'
  BY <1>1 DEF IInv, RunOK
<1> QED
  BY <1>1, <1>2, <1>3, <1>7, <1>9, <1>10, <1>11 DEF IInv, RunOK

LEMMA ConfigStep ==
  ASSUME IInv, VerifyConfig
  PROVE  IInv'
BY AdvanceStep, RefuseStep DEF VerifyConfig, Verified

LEMMA SkipStep ==
  ASSUME IInv, SkipUnlisted
  PROVE  IInv'
BY AdvanceStep DEF SkipUnlisted, Verified

LEMMA LogStep ==
  ASSUME IInv, VerifyLog
  PROVE  IInv'
BY AdvanceStep, RefuseStep DEF VerifyLog, Verified

\* The digest of a document is compared before one of its signatures is
\* counted.
LEMMA OpenStep ==
  ASSUME IInv, OpenDocument
  PROVE  IInv'
<1>1. /\ phase = "open" /\ Current \notin {"config", "leaves"}
      /\ UNCHANGED <<registry, store>>
  BY DEF OpenDocument
<1>2. CASE Refuse
  BY <1>1, <1>2, RefuseStep
<1>3. CASE DigestIsNamed(Current) /\ phase' = "count"
             /\ UNCHANGED <<request, got, at, count, started>>
  <2>1. /\ request' = request /\ got' = got /\ at' = at /\ next' = next
        /\ seen' = seen /\ valid' = valid /\ started' = started
        /\ published' = published /\ now' = now
    BY <1>1, <1>3 DEF count, registry
  <2>2. TypeOK'
    BY <1>1, <1>3, <2>1 DEF IInv, TypeOK, registry, store, Phases
  <2>3. RequestOK' /\ Loaded'
    BY <1>1, <2>1 DEF RequestOK, Loaded, IInv, RunOK
  <2>4. Plan' = Plan /\ Current' = Current
          /\ \A path : (Verified(path)' <=> Verified(path))
    BY <2>1, Frame, VerifiedFrame DEF Current
  <2>5. DigestIsNamed(Current)'
    BY <1>3, <2>1, <2>4, Frame
  <2>6. got[Current] # Absent
    <3>1. CASE Current \in Fixed
      BY <1>1, <3>1 DEF IInv, RunOK
    <3>2. CASE Current \notin Fixed
      BY <1>3, <3>2 DEF DigestIsNamed, Fixed
    <3> QED
      BY <3>1, <3>2
  <2>7. next = 1 /\ seen = {} /\ valid = 0
    BY <1>1 DEF IInv, RunOK
  <2>8. valid' <= Cardinality(seen' \cap Signers(Current)')
    <3>1. seen' \cap Signers(Current)' = {}
      BY <2>1, <2>7
    <3> QED
      BY <2>1, <2>7, <3>1, FS_EmptySet
  <2>9. Counting'
    BY <1>1, <2>1, <2>4, <2>5, <2>6, <2>7, <2>8 DEF Counting
  <2> QED
    BY <1>1, <1>3, <2>1, <2>2, <2>3, <2>4, <2>9 DEF IInv, RunOK
<1> QED
  BY <1>2, <1>3 DEF OpenDocument

\* A signature that counts is of a key that was not seen before: one more
\* signer is among the keys seen.
LEMMA CountStep ==
  ASSUME IInv, CountSignature
  PROVE  IInv'
<1> DEFINE s == got[Current].env.sigs[next]
           signers == Signers(Current)
           fresh == s.key \in RoleKeys(Current) /\ s.key \notin seen
<1>1. /\ phase = "count" /\ next <= Len(got[Current].env.sigs)
      /\ next' = next + 1
      /\ seen' = IF fresh THEN seen \cup {s.key} ELSE seen
      /\ valid' = IF fresh /\ s.good /\ s.key \in got["root"].policy.known
                    THEN valid + 1 ELSE valid
      /\ phase' = phase /\ request' = request /\ got' = got /\ at' = at
      /\ started' = started
      /\ UNCHANGED <<registry, store>> /\ published' = published /\ now' = now
  BY DEF CountSignature, registry
<1>2. Counting /\ next \in Nat /\ valid \in Nat /\ seen \in SUBSET Key
  BY <1>1 DEF IInv, TypeOK, RunOK
<1>3. Current \in Path
  BY <1>1, CurrentType
<1>4. got["root"] # Absent
  BY <1>1 DEF IInv, RunOK, Fixed
<1>5. /\ got[Current].env.sigs \in Seq(Signature)
      /\ RoleKeys(Current) \subseteq Key
      /\ IsFiniteSet(signers)
  BY <1>2, <1>3, <1>4, SignedTypes DEF Counting, IInv
<1>6. s \in Signature /\ next \in 1..Len(got[Current].env.sigs)
  BY <1>1, <1>2, <1>5 DEF Counting
<1>7. s.key \in Key /\ s.good \in BOOLEAN /\ s = [key |-> s.key, good |-> s.good]
  BY <1>6 DEF Signature
<1>8. Plan' = Plan /\ Current' = Current /\ Signers(Current)' = signers
        /\ \A path : (Verified(path)' <=> Verified(path))
  <2>1. Plan' = Plan /\ \A path : Signers(path)' = Signers(path)
    BY <1>1, Frame
  <2>2. Current' = Current
    BY <1>1, <2>1 DEF Current
  <2>3. \A path : (Verified(path)' <=> Verified(path))
    BY <1>1, VerifiedFrame
  <2>4. Signers(Current)' = signers
    BY <2>1, <2>2
  <2> QED
    BY <2>1, <2>2, <2>3, <2>4
<1>9. valid' \in Nat /\ seen' \in SUBSET Key /\ next' \in Nat /\ next' >= 1
  <2> HIDE DEF s, fresh
  <2>1. valid' \in Nat
    <3>1. valid' = valid \/ valid' = valid + 1
      BY ONLY <1>1
    <3> QED
      BY ONLY <1>2, <3>1
  <2>2. seen' \in SUBSET Key
    <3>1. seen' = seen \/ seen' = seen \cup {s.key}
      BY ONLY <1>1
    <3> QED
      BY ONLY <1>2, <1>7, <3>1
  <2>3. next' \in Nat /\ next' >= 1
    BY ONLY <1>1, <1>2 DEF Counting
  <2> QED
    BY ONLY <2>1, <2>2, <2>3
<1>10. valid' <= Cardinality(seen' \cap signers)
  <2> DEFINE before == seen \cap signers
  <2>1. IsFiniteSet(before) /\ Cardinality(before) \in Nat
          /\ valid <= Cardinality(before)
    <3>1. before \in SUBSET signers
      OBVIOUS
    <3>2. IsFiniteSet(before)
      BY <1>5, <3>1, FS_Subset
    <3> QED
      BY <1>2, <3>2, FS_CardinalityType DEF Counting
  <2>2. CASE ~fresh
    BY <1>1, <2>1, <2>2
  <2>3. CASE fresh /\ s.good /\ s.key \in got["root"].policy.known
    <3>1. s = [key |-> s.key, good |-> TRUE]
      BY <1>7, <2>3
    <3>2. s.key \in signers
      BY <1>6, <2>3, <3>1 DEF Signers
    <3>3. seen' \cap signers = before \cup {s.key} /\ s.key \notin before
      BY <1>1, <2>3, <3>2
    <3>4. Cardinality(before \cup {s.key}) = Cardinality(before) + 1
      BY <2>1, <3>3, FS_AddElement
    <3>5. valid' = valid + 1 /\ valid \in Nat
      BY <1>1, <1>2, <2>3
    <3>6. Cardinality(seen' \cap signers) = Cardinality(before) + 1
      BY <3>3, <3>4
    <3> HIDE DEF before, s, signers
    <3> QED
      BY <2>1, <3>5, <3>6
  <2>4. CASE fresh /\ ~(s.good /\ s.key \in got["root"].policy.known)
    <3>1. before \in SUBSET (seen' \cap signers)
      BY <1>1, <2>4
    <3>2. seen' \cap signers \in SUBSET signers
      OBVIOUS
    <3>3. IsFiniteSet(seen' \cap signers)
      BY <1>5, <3>2, FS_Subset
    <3>4. Cardinality(before) <= Cardinality(seen' \cap signers)
      BY <3>1, <3>3, FS_Subset
    <3>5. Cardinality(seen' \cap signers) \in Nat
      BY <3>3, FS_CardinalityType
    <3>6. valid' = valid
      BY <1>1, <2>4
    <3> HIDE DEF before, s, signers
    <3> QED
      BY <1>2, <2>1, <3>4, <3>5, <3>6
  <2> QED
    BY <2>2, <2>3, <2>4
<1>11. TypeOK'
  BY <1>1, <1>9 DEF IInv, TypeOK, registry, store
<1>12. RequestOK' /\ Loaded'
  BY <1>1 DEF RequestOK, Loaded, IInv, RunOK
<1>13. Counting'
  <2>1. DigestIsNamed(Current)'
    BY <1>1, <1>2, <1>8, Frame DEF Counting
  <2> QED
    BY <1>1, <1>2, <1>8, <1>9, <1>10, <2>1 DEF Counting
<1> QED
  BY <1>1, <1>8, <1>11, <1>12, <1>13 DEF IInv, RunOK

\* What was counted is enough, and the document has not expired by now.
LEMMA CloseStep ==
  ASSUME IInv, CloseDocument
  PROVE  IInv'
<1>1. phase = "count" /\ UNCHANGED <<registry, store>>
  BY DEF CloseDocument
<1>2. CASE Refuse
  BY <1>1, <1>2, RefuseStep
<1>3. CASE /\ valid >= PolicyOf(Current).threshold
           /\ Unexpired(Current) /\ VersionHolds(Current) /\ Advance
  <2>1. Counting /\ got["root"] # Absent /\ started <= now
    BY <1>1 DEF IInv, RunOK, Fixed
  <2>2. Current \in Path
    BY <1>1, CurrentType
  <2>3. /\ got[Current].env.expires \in Nat
        /\ PolicyOf(Current).threshold \in Nat
        /\ IsFiniteSet(Signers(Current))
    BY <2>1, <2>2, SignedTypes DEF Counting, IInv
  <2>4. Cardinality(Signers(Current)) >= PolicyOf(Current).threshold
    <3>1. seen \cap Signers(Current) \in SUBSET Signers(Current)
      OBVIOUS
    <3>2. /\ Cardinality(seen \cap Signers(Current)) <= Cardinality(Signers(Current))
          /\ Cardinality(seen \cap Signers(Current)) \in Nat
          /\ Cardinality(Signers(Current)) \in Nat
      BY <2>3, <3>1, FS_Subset, FS_CardinalityType
    <3>3. valid \in Nat /\ valid <= Cardinality(seen \cap Signers(Current))
      BY <2>1 DEF Counting, IInv, TypeOK
    <3> QED
      BY <1>3, <2>3, <3>2, <3>3
  <2>5. got[Current].env.expires + Skew >= started
    <3>1. now \in Nat /\ started \in Nat /\ Skew \in Nat
      BY ChainAssumption DEF IInv, TypeOK
    <3> QED
      BY <1>3, <2>1, <2>3, <3>1 DEF Unexpired
  <2>6. Verified(Current)
    BY <1>3, <2>1, <2>4, <2>5 DEF Verified, Counting
  <2> QED
    BY <1>1, <1>3, <2>6, AdvanceStep
<1> QED
  BY <1>2, <1>3 DEF CloseDocument

LEMMA FinishStep ==
  ASSUME IInv, Finish
  PROVE  IInv'
<1>1. End /\ UNCHANGED <<registry, pin>> /\ TypeOK
  BY DEF Finish, IInv
<1>2. floors' \in Floors
  <2>1. floors \in Floors /\ floors.ts \in Nat /\ floors.snap \in Nat
    BY <1>1 DEF TypeOK, Floors
  <2>2. CASE floors' = floors
    BY <2>1, <2>2
  <2>3. CASE /\ phase = "accepted"
             /\ floors' = [ts |-> MaxOf(floors.ts, got["timestamp"].version),
                           snap |-> MaxOf(floors.snap, got["snapshot"].version)]
    <3>1. got["timestamp"] # Absent /\ got["snapshot"] # Absent
      BY <2>3 DEF IInv, RunOK, Fixed
    <3>2. "timestamp" \in Path /\ "snapshot" \in Path
      BY DEF Path, Fixed
    <3>3. got["timestamp"] \in Timestamp /\ got["snapshot"] \in Snapshot
      BY <1>1, <3>1, <3>2, DocumentType DEF Document
    <3>4. got["timestamp"].version \in Nat /\ got["snapshot"].version \in Nat
      BY <3>3 DEF Timestamp, Snapshot
    <3> QED
      BY <2>1, <2>3, <3>4 DEF MaxOf, Floors
  <2> QED
    BY <2>2, <2>3 DEF Finish
<1> QED
  BY <1>1, <1>2, EndStep DEF IInv, TypeOK, registry

-----------------------------------------------------------------------------
(* The theorems.                                                             *)

LEMMA InitHolds == Init => IInv
<1> SUFFICES ASSUME Init PROVE IInv
  OBVIOUS
<1>1. TypeOK
  <2>1. now \in 0..MaxTime
    BY ChainAssumption DEF Init
  <2>2. floors \in Floors
    BY DEF Init, Floors
  <2>3. request \in Request
    BY DEF Init, NoRequest, Request
  <2>4. /\ got \in [Path -> AnyDocument \cup {Absent}]
        /\ \A path \in Path : got[path] \in Document(path) \cup {Absent}
    BY DEF Init, NoDocuments
  <2>5. published \in Seq(Publication)
    BY DEF Init
  <2> QED
    BY <2>1, <2>2, <2>3, <2>4, <2>5 DEF Init, TypeOK, Phases
<1>2. "timestamp" \in Path
  BY DEF Path, Fixed
<1>3. Loaded
  BY <1>2 DEF Init, Loaded, NoDocuments
<1> QED
  BY <1>1, <1>3 DEF Init, IInv, RunOK

\* A publication adds to the history and touches nothing else.
LEMMA PublishFrame ==
  ASSUME Publish
  PROVE  /\ UNCHANGED run /\ UNCHANGED <<now, store>>
         /\ \E new : published' = Append(published, new)
<1>1. \E config, root, timestamp, flaw : PublishState(config, root, timestamp, flaw)
  <2>1. ASSUME NEW policy, NEW first, NEW flaw, Found(policy, first, flaw)
        PROVE  \E c, r, t : PublishState(c, r, t, flaw)
    BY <2>1 DEF Found
  <2>2. ASSUME NEW policy, NEW flaw, Rotate(policy, flaw)
        PROVE  \E c, r, t : PublishState(c, r, t, flaw)
    BY <2>2 DEF Rotate
  <2>3. ASSUME NEW n, NEW flaw, Release(n, flaw)
        PROVE  \E c, r, t : PublishState(c, r, t, flaw)
    BY <2>3 DEF Release
  <2>4. ASSUME NEW flaw, Refresh(flaw)
        PROVE  \E c, r, t : PublishState(c, r, t, flaw)
    BY <2>4 DEF Refresh
  <2> QED
    BY <2>1, <2>2, <2>3, <2>4 DEF Publish
<1> QED
  BY <1>1 DEF PublishState, run, store

LEMMA NextKeeps == IInv /\ [Next]_vars => IInv'
<1> SUFFICES ASSUME IInv, [Next]_vars PROVE IInv'
  OBVIOUS
<1>1. TypeOK /\ now \in 0..MaxTime /\ now \in Nat /\ MaxTime \in Nat
        /\ published \in Seq(Publication)
  BY ChainAssumption DEF IInv, TypeOK
<1>2. CASE Publish
  <2>1. UNCHANGED run /\ UNCHANGED <<now, store>>
          /\ \E new : published' = Append(published, new)
    BY <1>2, PublishFrame
  <2>2. TypeOK'
    BY <1>1, <1>2, <2>1, PublishType DEF TypeOK, store, run
  <2>3. PICK new : published' = Append(published, new)
    BY <2>1
  <2>4. \A j \in 1..Len(published) :
          j \in 1..Len(published') /\ published'[j] = published[j]
    BY <1>1, <2>3
  <2> QED
    BY <1>1, <2>1, <2>2, <2>4, OutsideStep DEF IInv
<1>3. CASE Tick
  <2>1. UNCHANGED run /\ UNCHANGED <<published, flawed, store>> /\ now' = now + 1
          /\ now' \in 0..MaxTime /\ now' \in Nat /\ now' >= now
    BY <1>1, <1>3 DEF Tick
  <2>2. TypeOK'
    BY <1>1, <2>1 DEF TypeOK, store, run
  <2> QED
    BY <2>1, <2>2, OutsideStep DEF IInv
<1>4. CASE Import
  <2>1. UNCHANGED run /\ UNCHANGED registry /\ published # << >>
          /\ pin' = Latest.root /\ floors' \in {floors, [ts |-> 0, snap |-> 0]}
    BY <1>4 DEF Import
  <2>2. Latest.root \in Root
    <3>1. Latest \in Publication
      BY <1>1, <2>1 DEF Latest
    <3> QED
      BY <3>1 DEF Publication
  <2>3. TypeOK'
    BY <1>1, <2>1, <2>2 DEF TypeOK, registry, run, Floors
  <2> QED
    BY <1>1, <2>1, <2>3, OutsideStep DEF IInv, registry
<1>5. CASE \E mode \in Modes, n \in Namespace, pinned \in BOOLEAN :
             Start(mode, n, pinned)
  BY <1>5, StartStep
<1>6. CASE Load
  BY <1>6, LoadStep
<1>7. CASE BeginVerification
  BY <1>7, BeginStep
<1>8. CASE Verify
  BY <1>8, ConfigStep, SkipStep, OpenStep, CountStep, CloseStep, LogStep
  DEF Verify
<1>9. CASE Finish
  BY <1>9, FinishStep
<1>10. CASE UNCHANGED vars
  <2>1. UNCHANGED run /\ UNCHANGED registry /\ UNCHANGED store
    BY <1>10 DEF vars
  <2>2. TypeOK'
    BY <1>1, <2>1 DEF TypeOK, run, registry, store
  <2> QED
    BY <1>1, <2>1, <2>2, OutsideStep DEF IInv, registry
<1> QED
  BY <1>2, <1>3, <1>4, <1>5, <1>6, <1>7, <1>8, <1>9, <1>10 DEF Next

\* The invariant of the verifier: what was opened has the digest its parent
\* names, what is counted is of as many keys, what was closed stays verified.
THEOREM Invariant == Spec => []IInv
BY InitHolds, NextKeeps, PTL DEF Spec

\* Every variable keeps its type; above all, what a run has loaded is of the
\* type of its path.
THEOREM TypeCorrect == Spec => []TypeOK
<1>1. IInv => TypeOK
  BY DEF IInv
<1> QED
  BY <1>1, Invariant, PTL

\* Accepted documents are signed by enough keys, unexpired, at or above the
\* floors, and under the pinned root (VerifyRoleEnvelope, VerifyRoot).
THEOREM AuthenticTheorem == Spec => []AcceptedIsAuthentic
<1>1. IInv => AcceptedIsAuthentic
  <2> SUFFICES ASSUME IInv, phase = "accepted"
               PROVE  AcceptedIsAuthentic
    BY DEF AcceptedIsAuthentic
  <2>1. RequestOK /\ at = Len(Plan) + 1
          /\ \A j \in 1..Len(Plan) : j < at => Verified(Plan[j])
    BY DEF IInv, RunOK
  <2>2. Plan \in Seq(Path)
    BY <2>1, PlanType
  <2>3. \A j \in 1..Len(Plan) : Verified(Plan[j])
    BY <2>1, <2>2
  <2>4. \A path \in Checked : Verified(path)
    BY <2>1, <2>3, PlanCovers
  <2>5. {"root", "timestamp", "snapshot", "log"} \subseteq Checked
    BY DEF Checked
  <2>6. \A path \in Checked :
          path \notin {"config", "leaves"}
            /\ ~(path \in Namespace /\ request.mode = "registry" /\ ~Listed(path))
    BY <2>1, ChainAssumption DEF Checked, RequestOK, Fixed
  <2>7. \A path \in Checked :
          /\ DigestIsNamed(path) /\ VersionHolds(path)
          /\ Cardinality(Signers(path)) >= PolicyOf(path).threshold
          /\ got[path].env.expires + Skew >= started
    BY <2>4, <2>6 DEF Verified
  <2>8. request.pin # Absent => got["root"] = request.pin
    BY <2>5, <2>7 DEF DigestIsNamed
  <2>9. got["timestamp"].version >= request.ts /\ got["snapshot"].version >= request.snap
    BY <2>5, <2>7 DEF VersionHolds
  <2> QED
    BY <2>7, <2>8, <2>9 DEF AcceptedIsAuthentic
<1> QED
  BY <1>1, Invariant, PTL

\* Accepted documents are of one publication (the digests VerifyPackageChain
\* compares), whatever was published while they were loaded.
THEOREM OneStateTheorem == Spec => []AcceptedIsOneState
<1>1. IInv => AcceptedIsOneState
  <2> SUFFICES ASSUME IInv, phase = "accepted"
               PROVE  AcceptedIsOneState
    BY DEF AcceptedIsOneState
  <2>1. RequestOK /\ at = Len(Plan) + 1 /\ Loaded /\ got["timestamp"] # Absent
          /\ \A j \in 1..Len(Plan) : j < at => Verified(Plan[j])
    BY DEF IInv, RunOK, Fixed
  <2>2. Plan \in Seq(Path)
    BY <2>1, PlanType
  <2>3. \A j \in 1..Len(Plan) : Verified(Plan[j])
    BY <2>1, <2>2
  <2>4. \A path \in Checked : Verified(path)
    BY <2>1, <2>3, PlanCovers
  <2>5. \A path \in Checked :
          path \notin {"config", "leaves"}
            /\ ~(path \in Namespace /\ request.mode = "registry" /\ ~Listed(path))
    BY <2>1, ChainAssumption DEF Checked, RequestOK, Fixed
  <2>6. \A path \in Checked : DigestIsNamed(path)
    BY <2>4, <2>5 DEF Verified
  <2>7. PICK j \in 1..Len(published) : got["timestamp"] = published[j].timestamp
    BY <2>1 DEF Loaded
  <2>8. {"root", "timestamp", "snapshot", "log"} \subseteq Checked
    BY DEF Checked
  <2>9. /\ got["snapshot"] = got["timestamp"].snapshot
        /\ got["log"] = got["snapshot"].log
    BY <2>6, <2>8 DEF DigestIsNamed
  <2>10. \A path \in Checked \ Fixed :
           path # "leaves" /\ got[path] = got["snapshot"].targets[path]
    BY <2>5, <2>6 DEF DigestIsNamed, Fixed
  <2>11. \A path \in Checked \ {"root"} : got[path] = File(published[j], path)
    <3> SUFFICES ASSUME NEW path \in Checked \ {"root"}
                 PROVE  got[path] = File(published[j], path)
      OBVIOUS
    <3>1. CASE path \in Fixed
      BY <2>5, <2>7, <2>9, <3>1 DEF File, Fixed
    <3>2. CASE path \notin Fixed
      BY <2>7, <2>9, <2>10, <3>2 DEF File, Fixed
    <3> QED
      BY <3>1, <3>2
  <2> QED
    BY <2>11 DEF AcceptedIsOneState
<1> QED
  BY <1>1, Invariant, PTL
-----------------------------------------------------------------------------
(* Nothing that is fine is refused.                                          *)

\* Documents a run has no reason to refuse.  It does not speak of what is
\* published, and only the clock can make it false.
Fine ==
  /\ got["config"].sound
  /\ HasPackage(request.ns)
  /\ \A path \in Checked :
       /\ DigestIsNamed(path)
       /\ VersionHolds(path)
       /\ got[path].env.sound
       /\ Cardinality(FirstSigners(path)) >= PolicyOf(path).threshold
       /\ Unexpired(path)

\* The keys whose first signature is good and was looked at.
Counted ==
  {k \in FirstSigners(Current) :
     \E j \in 1..(next - 1) : got[Current].env.sigs[j].key = k}

\* The keys of the role that were looked at are those seen, and each of the
\* first ones that are good counted.
Thorough ==
  /\ seen = {k \in RoleKeys(Current) :
               \E j \in 1..(next - 1) : got[Current].env.sigs[j].key = k}
  /\ valid >= Cardinality(Counted)

FairInv ==
  /\ phase = "count" => Thorough
  /\ phase = "refused" /\ request.mode = "package" =>
       ~Fine /\ \A path \in Fixed : got[path] # Absent

\* What a package is checked against: signed documents that are paths.
LEMMA CheckedType ==
  ASSUME RequestOK, request.mode = "package"
  PROVE  /\ Checked = {"root", "timestamp", "snapshot", "log", request.ns}
         /\ Checked \subseteq Path \ {"config", "leaves"}
         /\ Checked \cap Namespace = {request.ns}
<1>1. request.ns \in Namespace
  BY DEF RequestOK
<1>2. Namespace \cap (Fixed \cup {"leaves", "none"}) = {}
  BY ChainAssumption
<1>3. Checked = {"root", "timestamp", "snapshot", "log", request.ns}
  BY DEF Checked
<1> QED
  BY <1>1, <1>2, <1>3 DEF Path, Fixed

\* What a run has no reason to refuse now, it had none to refuse before.
LEMMA FineBefore ==
  ASSUME TypeOK, RequestOK, request.mode = "package",
         \A path \in Fixed : got[path] # Absent,
         got' = got, request' = request, now' \in Nat, now' >= now, Fine'
  PROVE  Fine
<1>1. Checked' = Checked /\ (HasPackage(request.ns)' <=> HasPackage(request.ns))
  BY DEF Checked, HasPackage, Listed
<1>2. \A path : /\ (DigestIsNamed(path)' <=> DigestIsNamed(path))
                /\ (VersionHolds(path)' <=> VersionHolds(path))
                /\ PolicyOf(path)' = PolicyOf(path)
                /\ FirstSigners(path)' = FirstSigners(path)
  <2>1. \A path : Signers(path)' = Signers(path)
    BY Frame
  <2>2. \A path : FirstSigners(path)' = FirstSigners(path)
    BY <2>1 DEF FirstSigners
  <2> QED
    BY <2>2, Frame
<1>3. /\ got["config"].sound
      /\ HasPackage(request.ns)
      /\ \A path \in Checked :
           /\ DigestIsNamed(path)
           /\ VersionHolds(path)
           /\ got[path].env.sound
           /\ Cardinality(FirstSigners(path)) >= PolicyOf(path).threshold
           /\ Unexpired(path)'
  BY <1>1, <1>2 DEF Fine
<1>4. \A path \in Checked : Unexpired(path)
  <2> SUFFICES ASSUME NEW path \in Checked
               PROVE  Unexpired(path)
    OBVIOUS
  <2>1. path \in Path \ {"config", "leaves"} /\ got[path] # Absent
    BY <1>3, CheckedType DEF HasPackage, Fixed
  <2>2. got[path].env.expires \in Nat
    BY <2>1, SignedTypes DEF Fixed
  <2>3. got[path].env.expires >= now' - Skew
    BY <1>3 DEF Unexpired
  <2>4. now \in Nat /\ Skew \in Nat
    BY ChainAssumption DEF TypeOK
  <2> QED
    BY <2>2, <2>3, <2>4 DEF Unexpired
<1> QED
  BY <1>3, <1>4 DEF Fine

\* A run that refuses a document has a reason: the case of each check.
LEMMA RefusedForAReason ==
  ASSUME IInv, FairInv, request.mode = "package", Verify, phase' = "refused"
  PROVE  ~Fine
<1> SUFFICES ASSUME Fine PROVE FALSE
  OBVIOUS
<1>1. phase \in {"open", "count"}
  BY DEF Verify, VerifyConfig, SkipUnlisted, OpenDocument, CountSignature,
         CloseDocument, VerifyLog
<1>2. /\ RequestOK /\ TypeOK /\ \A path \in Fixed : got[path] # Absent
      /\ at \in 1..Len(Plan)
  BY <1>1 DEF IInv, RunOK
<1>3. Current \in Checked \cup {"config"}
  <2>1. Plan = Append(Base, request.ns)
    BY DEF Plan
  <2>2. Len(Plan) = 6 /\ Plan[6] = request.ns /\ \A j \in 1..5 : Plan[j] = Base[j]
    BY <2>1 DEF Base
  <2>3. at \in 1..6 /\ (at = 6 \/ at \in 1..5)
    BY <1>2, <2>2
  <2>4. \A j \in 1..5 : Base[j] \in Fixed
    BY DEF Base, Fixed
  <2>5. CASE at = 6
    BY <1>2, <2>2, <2>5, CheckedType DEF Current
  <2>6. CASE at \in 1..5
    BY <1>2, <2>2, <2>4, <2>6, CheckedType DEF Current, Fixed
  <2> QED
    BY <2>3, <2>5, <2>6
<1>4. Current # "leaves"
  BY <1>2, <1>3, CheckedType
<1>5. ASSUME Current # "config"
      PROVE  /\ Current \in Path \ {"config", "leaves"}
             /\ got[Current] # Absent
             /\ DigestIsNamed(Current) /\ VersionHolds(Current)
             /\ Unexpired(Current) /\ got[Current].env.sound
             /\ Cardinality(FirstSigners(Current)) >= PolicyOf(Current).threshold
             /\ Current \in Namespace => HasPackage(Current)
  <2>1. Current \in Checked
    BY <1>3, <1>5
  <2>2. Current \in Path \ {"config", "leaves"} /\ got[Current] # Absent
    BY <1>2, <2>1, CheckedType DEF Fine, HasPackage, Fixed
  <2>3. Current \in Namespace => Current = request.ns
    BY <1>2, <2>1, CheckedType
  <2> QED
    BY <2>1, <2>2, <2>3 DEF Fine
<1>6. ASSUME Current # "config"
      PROVE  /\ got[Current].env.sigs \in Seq(Signature)
             /\ PolicyOf(Current).threshold \in Nat \ {0}
             /\ IsFiniteSet(FirstSigners(Current))
             /\ Cardinality(FirstSigners(Current)) \in Nat
  <2>1. got["root"] # Absent
    BY <1>2 DEF Fixed
  <2>2. /\ got[Current].env.sigs \in Seq(Signature)
        /\ PolicyOf(Current) \in RolePolicy
        /\ IsFiniteSet(Signers(Current))
    BY <1>2, <1>5, <1>6, <2>1, SignedTypes
  <2>3. FirstSigners(Current) \in SUBSET Signers(Current)
    BY DEF FirstSigners
  <2> QED
    BY <2>2, <2>3, FS_Subset, FS_CardinalityType DEF RolePolicy
<1>7. ASSUME VerifyConfig PROVE FALSE
  BY <1>7 DEF VerifyConfig, Advance, Fine
<1>8. ASSUME SkipUnlisted PROVE FALSE
  BY <1>8 DEF SkipUnlisted
<1>9. ASSUME OpenDocument PROVE FALSE
  <2>1. Current # "config"
    BY <1>9 DEF OpenDocument
  <2>2. got[Current].env.sigs # << >>
    <3> SUFFICES ASSUME got[Current].env.sigs = << >> PROVE FALSE
      OBVIOUS
    <3>1. FirstSigners(Current) = {}
      BY DEF FirstSigners, Signers
    <3> QED
      BY <1>5, <1>6, <2>1, <3>1, FS_EmptySet
  <2> QED
    BY <1>5, <1>9, <2>1, <2>2 DEF OpenDocument
<1>10. ASSUME CountSignature PROVE FALSE
  BY <1>10 DEF CountSignature
<1>11. ASSUME CloseDocument PROVE FALSE
  <2>1. phase = "count" /\ next > Len(got[Current].env.sigs) /\ Current # "config"
    BY <1>11 DEF CloseDocument, IInv, RunOK, Counting
  <2>2. Counted = FirstSigners(Current)
    <3> SUFFICES ASSUME NEW k \in FirstSigners(Current)
                 PROVE  \E j \in 1..(next - 1) : got[Current].env.sigs[j].key = k
      BY DEF Counted
    <3>1. PICK j \in 1..Len(got[Current].env.sigs) :
            got[Current].env.sigs[j] = [key |-> k, good |-> TRUE]
      BY DEF FirstSigners, Signers
    <3>2. j \in 1..(next - 1)
      BY <1>2, <1>6, <2>1, <3>1 DEF TypeOK
    <3> QED
      BY <3>1, <3>2
  <2>3. valid \in Nat /\ valid >= Cardinality(FirstSigners(Current))
    BY <1>2, <2>1, <2>2 DEF FairInv, Thorough, TypeOK
  <2>4. valid >= PolicyOf(Current).threshold
    BY <1>5, <1>6, <2>1, <2>3
  <2> QED
    BY <1>5, <1>11, <2>1, <2>4 DEF CloseDocument, Advance
<1>12. ASSUME VerifyLog PROVE FALSE
  BY <1>4, <1>12 DEF VerifyLog
<1> QED
  BY <1>7, <1>8, <1>9, <1>10, <1>11, <1>12 DEF Verify

\* The first good signature of a key counts: its key was not seen, for what
\* was seen was looked at and no bad signature comes before it.
LEMMA CountingIsThorough ==
  ASSUME IInv, FairInv, CountSignature
  PROVE  Thorough'
<1> DEFINE sigs == got[Current].env.sigs
           s == sigs[next]
           fresh == s.key \in RoleKeys(Current) /\ s.key \notin seen
           first == FirstSigners(Current)
<1>1. /\ phase = "count" /\ next <= Len(sigs)
      /\ next' = next + 1
      /\ seen' = IF fresh THEN seen \cup {s.key} ELSE seen
      /\ valid' = IF fresh /\ s.good /\ s.key \in got["root"].policy.known
                    THEN valid + 1 ELSE valid
      /\ request' = request /\ got' = got /\ at' = at
  BY DEF CountSignature
<1>2. Thorough /\ Counting /\ next \in Nat /\ next >= 1 /\ valid \in Nat
  BY <1>1 DEF IInv, TypeOK, RunOK, FairInv, Counting
<1>3. Plan' = Plan
        /\ \A path : RoleKeys(path)' = RoleKeys(path) /\ Signers(path)' = Signers(path)
  BY <1>1, Frame
<1>4. Current' = Current
  BY <1>1, <1>3 DEF Current
<1>5. FirstSigners(Current)' = first /\ RoleKeys(Current)' = RoleKeys(Current)
  BY <1>1, <1>3, <1>4 DEF FirstSigners
<1>6. \A j : j \in 1..(next' - 1) <=> j \in 1..(next - 1) \/ j = next
  BY <1>1, <1>2
<1>7. /\ Current \in Path \ {"config", "leaves"} /\ got[Current] # Absent
      /\ got["root"] # Absent
  <2>1. Current \in Path
    BY <1>1, CurrentType
  <2> QED
    BY <1>1, <1>2, <2>1 DEF Counting, IInv, RunOK, Fixed
<1>8. sigs \in Seq(Signature) /\ IsFiniteSet(Signers(Current))
  BY <1>7, SignedTypes DEF IInv
<1>9. next \in 1..Len(sigs) /\ s.good \in BOOLEAN /\ s = [key |-> s.key, good |-> s.good]
  <2>1. next \in 1..Len(sigs)
    BY <1>1, <1>2, <1>8
  <2>2. s \in Signature
    BY <1>8, <2>1
  <2> QED
    BY <2>1, <2>2 DEF Signature
<1>10. seen' = {k \in RoleKeys(Current) :
                  \E j \in 1..(next' - 1) : sigs[j].key = k}
  BY <1>1, <1>2, <1>6 DEF Thorough
<1>11. Counted' = {k \in first : \E j \in 1..(next' - 1) : sigs[j].key = k}
  BY <1>1, <1>4, <1>5 DEF Counted
<1>12. IsFiniteSet(Counted) /\ IsFiniteSet(Counted') /\ Cardinality(Counted) \in Nat
  <2>1. Counted \in SUBSET Signers(Current) /\ Counted' \in SUBSET Signers(Current)
    BY <1>11 DEF Counted, FirstSigners
  <2> QED
    BY <1>8, <2>1, FS_Subset, FS_CardinalityType
<1>13. valid' >= Cardinality(Counted')
  <2>1. CASE Counted' = Counted
    BY <1>1, <1>2, <1>12, <2>1 DEF Thorough
  <2>2. CASE Counted' # Counted
    <3>1. Counted' = Counted \cup {s.key} /\ s.key \in first /\ s.key \notin Counted
      BY <1>6, <1>11, <2>2 DEF Counted
    <3>2. s.key \in RoleKeys(Current) /\ s.key \in got["root"].policy.known
      BY <3>1 DEF FirstSigners, Signers
    <3>3. \A j \in 1..(next - 1) : sigs[j].key # s.key
      BY <3>1 DEF Counted
    <3>4. s.key \notin seen
      BY <1>2, <3>3 DEF Thorough
    <3>5. s.good
      <4> SUFFICES ASSUME ~s.good PROVE FALSE
        OBVIOUS
      <4>1. sigs[next] = [key |-> s.key, good |-> FALSE]
        BY <1>9
      <4>2. PICK i \in 1..next : sigs[i] = [key |-> s.key, good |-> TRUE]
        BY <1>9, <3>1, <4>1 DEF FirstSigners
      <4>3. i # next
        BY <4>1, <4>2
      <4>4. i \in 1..(next - 1)
        BY <1>2, <4>3
      <4> QED
        BY <3>3, <4>2, <4>4
    <3>6. valid' = valid + 1
      BY <1>1, <3>2, <3>4, <3>5
    <3>7. Cardinality(Counted') = Cardinality(Counted) + 1
      BY <1>12, <3>1, FS_AddElement
    <3>8. valid >= Cardinality(Counted)
      BY <1>2 DEF Thorough
    <3> QED
      BY <1>2, <1>12, <3>6, <3>7, <3>8
  <2> QED
    BY <2>1, <2>2
<1>14. seen' = {k \in RoleKeys(Current)' :
                  \E j \in 1..(next' - 1) : got'[Current'].env.sigs[j].key = k}
  BY <1>1, <1>4, <1>5, <1>10
<1> QED
  BY <1>13, <1>14 DEF Thorough

LEMMA NextIsFair == IInv /\ FairInv /\ [Next]_vars => FairInv'
<1> SUFFICES ASSUME IInv, FairInv, [Next]_vars PROVE FairInv'
  OBVIOUS
<1>1. TypeOK /\ now \in Nat
  BY ChainAssumption DEF IInv, TypeOK
<1>2. ASSUME UNCHANGED run, now' \in Nat, now' >= now
      PROVE  FairInv'
  <2>1. /\ got' = got /\ request' = request /\ phase' = phase /\ at' = at
        /\ next' = next /\ seen' = seen /\ valid' = valid
    BY <1>2 DEF run
  <2>2. phase = "count" => Thorough'
    <3>1. Plan' = Plan
            /\ \A path : RoleKeys(path)' = RoleKeys(path) /\ Signers(path)' = Signers(path)
      BY <2>1, Frame
    <3>2. Current' = Current
      BY <2>1, <3>1 DEF Current
    <3>3. FirstSigners(Current)' = FirstSigners(Current)
      BY <2>1, <3>1, <3>2 DEF FirstSigners
    <3>4. Counted' = Counted
      BY <2>1, <3>2, <3>3 DEF Counted
    <3>5. RoleKeys(Current)' = RoleKeys(Current)
      BY <3>1, <3>2
    <3> QED
      BY <2>1, <3>2, <3>4, <3>5 DEF Thorough, FairInv
  <2>3. phase = "refused" /\ request.mode = "package" =>
          ~Fine' /\ \A path \in Fixed : got'[path] # Absent
    <3> SUFFICES ASSUME phase = "refused", request.mode = "package"
                 PROVE  ~Fine' /\ \A path \in Fixed : got'[path] # Absent
      OBVIOUS
    <3>1. ~Fine /\ RequestOK /\ \A path \in Fixed : got[path] # Absent
      BY DEF FairInv, IInv, RunOK
    <3> QED
      BY <1>1, <1>2, <2>1, <3>1, FineBefore
  <2> QED
    BY <2>1, <2>2, <2>3 DEF FairInv
<1>3. ASSUME phase' \notin {"count", "refused"}
      PROVE  FairInv'
  BY <1>3 DEF FairInv
<1>4. CASE Publish
  <2>1. UNCHANGED run /\ now' = now
    BY <1>4, PublishFrame
  <2> QED
    BY <1>1, <1>2, <2>1
<1>5. CASE Tick
  <2>1. UNCHANGED run /\ now' = now + 1
    BY <1>5 DEF Tick
  <2> QED
    BY <1>1, <1>2, <2>1
<1>6. CASE Import \/ UNCHANGED vars
  <2>1. UNCHANGED run /\ now' = now
    BY <1>6 DEF Import, vars, registry
  <2> QED
    BY <1>1, <1>2, <2>1
<1>7. CASE \E mode \in Modes, n \in Namespace, pinned \in BOOLEAN :
             Start(mode, n, pinned)
  BY <1>3, <1>7 DEF Start
<1>8. CASE Load
  <2>1. phase' \in {"idle", "load"}
    BY <1>8 DEF Load, End
  <2> QED
    BY <1>3, <2>1
<1>9. CASE BeginVerification \/ Finish
  BY <1>3, <1>9 DEF BeginVerification, Finish, End
<1>10. CASE Verify
  <2>1. got' = got /\ request' = request /\ now' = now
    BY <1>10 DEF Verify, VerifyConfig, SkipUnlisted, OpenDocument, CountSignature,
                 CloseDocument, VerifyLog, Advance, Refuse, registry
  <2>2. phase \in {"open", "count"}
    BY <1>10 DEF Verify, VerifyConfig, SkipUnlisted, OpenDocument, CountSignature,
                 CloseDocument, VerifyLog
  <2>3. CASE phase' = "refused"
    <3>1. (\A path \in Fixed : got[path] # Absent) /\ RequestOK
      BY <2>2 DEF IInv, RunOK
    <3> SUFFICES ASSUME request'.mode = "package", Fine'
                 PROVE  FALSE
      BY <2>1, <2>3, <3>1 DEF FairInv
    <3>2. Fine
      BY <1>1, <2>1, <3>1, FineBefore
    <3> QED
      BY <1>10, <2>1, <2>3, <3>2, RefusedForAReason
  <2>4. CASE phase' = "count" /\ CountSignature
    BY <2>4, CountingIsThorough DEF FairInv
  <2>5. CASE phase' = "count" /\ ~CountSignature
    <3>1. phase = "open" /\ at' = at /\ UNCHANGED count
      BY <1>10, <2>5 DEF Verify, VerifyConfig, SkipUnlisted, OpenDocument,
                         CloseDocument, VerifyLog, Advance, Refuse
    <3>2. next' = 1 /\ seen' = {} /\ valid' = 0
      BY <3>1 DEF IInv, RunOK, count
    <3>3. 1..(next' - 1) = {}
      BY <3>2
    <3>4. Counted' = {}
      BY <3>3 DEF Counted
    <3>5. Thorough'
      BY <3>2, <3>3, <3>4, FS_EmptySet DEF Thorough
    <3> QED
      BY <2>5, <3>5 DEF FairInv
  <2> QED
    BY <1>3, <2>3, <2>4, <2>5
<1> QED
  BY <1>4, <1>5, <1>6, <1>7, <1>8, <1>9, <1>10 DEF Next

\* Documents of one publication that are sound, signed, unexpired and not
\* below the floors are never refused (VerifyPackageChain): neither a
\* signature that does not count nor one of a key seen before hides a signer.
THEOREM FineIsAccepted == Spec => []CurrentIsAccepted
<1>1. Init => FairInv
  BY DEF Init, FairInv
<1>2. IInv /\ FairInv => CurrentIsAccepted
  <2> SUFFICES ASSUME IInv, ~Fine, phase = "refused", request.mode = "package",
                      got["config"].sound,
                      request.pin # Absent => got["root"] = request.pin,
                      NEW j \in 1..Len(published),
                      \A path \in Checked \ {"root"} :
                        got[path] = File(published[j], path),
                      \A path \in Checked :
                        /\ got[path].env.sound
                        /\ Cardinality(FirstSigners(path)) >= PolicyOf(path).threshold
                        /\ Unexpired(path),
                      got["timestamp"].version >= request.ts,
                      got["snapshot"].version >= request.snap,
                      HasPackage(request.ns)
               PROVE  FALSE
    BY DEF CurrentIsAccepted, FairInv
  <2>1. RequestOK
    BY DEF IInv, RunOK
  <2>2. Checked = {"root", "timestamp", "snapshot", "log", request.ns}
          /\ request.ns \notin Fixed \cup {"leaves"}
    BY <2>1, CheckedType, ChainAssumption DEF RequestOK
  <2>3. /\ got["timestamp"] = published[j].timestamp
        /\ got["snapshot"] = published[j].timestamp.snapshot
        /\ got["log"] = published[j].timestamp.snapshot.log
        /\ got[request.ns] = published[j].timestamp.snapshot.targets[request.ns]
    BY <2>2 DEF File, Fixed
  <2>4. \A path \in Checked : DigestIsNamed(path)
    BY <2>2, <2>3 DEF DigestIsNamed, HasPackage
  <2>5. \A path \in Checked : VersionHolds(path)
    BY DEF VersionHolds
  <2> QED
    BY <2>4, <2>5 DEF Fine
<1>3. Spec => []FairInv
  <2>1. IInv /\ FairInv /\ [Next]_vars => FairInv'
    BY NextIsFair
  <2> QED
    BY <1>1, <2>1, Invariant, PTL DEF Spec
<1> QED
  BY <1>2, <1>3, Invariant, PTL
=============================================================================
