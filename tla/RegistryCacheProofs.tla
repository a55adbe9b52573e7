------------------------- MODULE RegistryCacheProofs -------------------------
(***************************************************************************)
(* Proofs about RegistryCache, whatever may fail.  TypeOK holds always, the *)
(* other properties when the digest is declared for one package version.   *)
(***************************************************************************)
EXTENDS RegistryCache, TLAPS

LEMMA InitTypeOK == Init => TypeOK
  BY CacheAssumption DEF Init, TypeOK, Phases, Locked, FaultKinds

LEMMA NextTypeOK == TypeOK /\ [Next]_vars => TypeOK'
<1> USE CacheAssumption
    DEF TypeOK, Phases, Locked, FaultKinds, Happens, store, request, history
<1> SUFFICES ASSUME TypeOK, [Next]_vars PROVE TypeOK'
    OBVIOUS
<1>1. ASSUME NEW p \in Proc, NEW k \in Package, NEW off \in BOOLEAN, Start(p, k, off)
      PROVE  TypeOK'
      BY <1>1 DEF Start, Goto, store
<1>2. ASSUME NEW p \in Proc, Acquire(p) PROVE TypeOK'
  <2>1. phase[p] \in {"lockEarly", "lock"}
        BY <1>2 DEF Acquire, LockPhase
  <2>2. LockPhase[phase[p]] \in {"inspectEarly", "inspect"}
        BY <2>1 DEF LockPhase
  <2>3. QED
        BY <1>2, <2>1, <2>2 DEF Acquire, Goto, store, request
<1>3. ASSUME NEW p \in Proc, LockTimeout(p) PROVE TypeOK'
  <2>1. phase[p] \in {"lockEarly", "lock"}
        BY <1>3 DEF LockTimeout, LockPhase
  <2>2. QED
        BY <1>3, <2>1 DEF LockTimeout, End, Goto, Release, store, request
<1>4. ASSUME NEW p \in Proc, InspectEarly(p) PROVE TypeOK'
      BY <1>4 DEF InspectEarly, Goto, Release, store, request
<1>5. ASSUME NEW p \in Proc, LoadMetadata(p) PROVE TypeOK'
      BY ZenonT(120), <1>5 DEF LoadMetadata, Goto, store, request
<1>6. ASSUME NEW p \in Proc, Inspect(p) PROVE TypeOK'
      BY <1>6 DEF Inspect, End, Goto, Release, store, request
<1>7. ASSUME NEW p \in Proc, RemoveBlob(p) PROVE TypeOK'
      BY <1>7 DEF RemoveBlob, Goto, request
<1>8. ASSUME NEW p \in Proc, RemoveSome(p) PROVE TypeOK'
      BY <1>8 DEF RemoveSome, request
<1>9. ASSUME NEW p \in Proc, RemoveRest(p) PROVE TypeOK'
      BY ZenonT(120), <1>9 DEF RemoveRest, Goto, request
<1>10. ASSUME NEW p \in Proc, Fetch(p) PROVE TypeOK'
  <2>1. fetches' \in 0..MaxFetches
        BY <1>10 DEF Fetch
  <2>2. QED
        BY <1>10, <2>1 DEF Fetch, Goto, store, request
<1>11. ASSUME NEW p \in Proc, Unpack(p) PROVE TypeOK'
       BY <1>11 DEF Unpack, Goto, store, request
<1>12. ASSUME NEW p \in Proc, RenameBlob(p) PROVE TypeOK'
       BY <1>12 DEF RenameBlob, Goto, request
<1>13. ASSUME NEW p \in Proc, RenameCheckout(p) PROVE TypeOK'
       BY <1>13 DEF RenameCheckout, Goto, Release, request
<1>14. ASSUME NEW p \in Proc, Fail(p) PROVE TypeOK'
       BY <1>14 DEF Fail, End, Goto, Release, store, request
<1>15. ASSUME NEW p \in Proc, Finish(p) PROVE TypeOK'
       BY <1>15 DEF Finish, End, Goto, Release, store, request
<1>16. ASSUME NEW p \in Proc, Crash(p) PROVE TypeOK'
       BY <1>16 DEF Crash, End, Goto, Release, store, request
<1>17. ASSUME Damage PROVE TypeOK'
       BY <1>17 DEF Damage, request
<1>18. ASSUME PowerLoss PROVE TypeOK'
       BY <1>18 DEF PowerLoss, request
<1>19. ASSUME UNCHANGED vars PROVE TypeOK'
       BY <1>19 DEF vars, store, request
<1>20. QED
  BY <1>1, <1>2, <1>3, <1>4, <1>5, <1>6, <1>7, <1>8, <1>9, <1>10, <1>11,
     <1>12, <1>13, <1>14, <1>15, <1>16, <1>17, <1>18, <1>19 DEF Next

\* The state is well-formed; a run holds the digest's lock exactly while it is
\* between an acquisition and the release of its guard.
THEOREM TypeCorrect == Spec => []TypeOK
<1>1. QED
  BY InitTypeOK, NextTypeOK, PTL DEF Spec

-----------------------------------------------------------------------------
(* One package version.                                                     *)

OnePackage == \A k, l \in Package : k = l

\* What has not happened by a step had not happened before it.
LEMMA FaultsStay ==
  ASSUME [Next]_vars, NEW kind, kind \notin happened'
  PROVE  kind \notin happened
BY DEF Next, vars, history, Happens, Start, Acquire, LockTimeout, InspectEarly,
       LoadMetadata, Inspect, RemoveBlob, RemoveSome, RemoveRest, Fetch, Unpack,
       RenameBlob, RenameCheckout, Fail, Finish, Crash, Damage, PowerLoss

LEMMA CalmBefore == ASSUME [Next]_vars, Calm' PROVE Calm
BY FaultsStay DEF Calm

\* A step before which and after which it is calm.
LEMMA CalmSteps ==
  ASSUME Calm', NEW kind \in {"remove", "power"} PROVE ~Happens(kind)
BY DEF Calm, Happens

\* What the phases of a commit know of the store while it is calm.  The archive goes first and
\* comes back before the checkout, so a checkout that lost files, be it to a kill,
\* never stands beside a good archive.
CommitInv ==
  /\ blob = "good" => \A k \in Package : checkout[k] # "holed"
  /\ \A p \in Proc : phase[p] = "removeBlob" => ~Verified(package[p])
  /\ \A p \in Proc :
       phase[p] \in {"removeCheckout", "fetch", "unpack", "renameBlob"} =>
         blob = "none"
  /\ \A p \in Proc :
       phase[p] \in {"fetch", "unpack", "renameBlob", "renameCheckout"} =>
         checkout[package[p]] = "none"

\* While one run is in a commit, no other holds the lock.
LEMMA Alone ==
  ASSUME TypeOK, NEW p \in Proc, NEW q \in Proc, phase[p] \in Locked, q # p
  PROVE  phase[q] \notin Locked
BY DEF TypeOK

LEMMA InitCommitInv == Init => CommitInv
BY CacheAssumption DEF Init, CommitInv, Verified

LEMMA NextCommitInv ==
  ASSUME OnePackage, TypeOK, CommitInv, [Next]_vars, Calm'
  PROVE  CommitInv'
<1> USE DEF CommitInv
<1>1. ASSUME NEW p \in Proc, NEW next \in Phases, Goto(p, next), UNCHANGED store,
             UNCHANGED package \/ phase[p] = "idle",
             \A q \in Proc \ {p} : package'[q] = package[q],
             next \notin {"removeBlob", "removeCheckout", "fetch", "unpack",
                          "renameBlob", "renameCheckout"}
      PROVE  CommitInv'
  <2>1. phase'[p] = next /\ \A q \in Proc \ {p} : phase'[q] = phase[q]
        BY <1>1 DEF Goto, TypeOK
  <2>2. QED
        BY <1>1, <2>1 DEF store, Verified
<1>2. ASSUME NEW p \in Proc, End(p), UNCHANGED <<store, request>>
      PROVE  CommitInv'
      BY <1>1, <1>2 DEF End, request, Phases
<1>3. ASSUME NEW p \in Proc, NEW k \in Package, NEW off \in BOOLEAN, Start(p, k, off)
      PROVE  CommitInv'
  <2>1. \A q \in Proc \ {p} : package'[q] = package[q]
        BY <1>3 DEF Start, TypeOK
  <2>2. QED
        BY <1>1, <1>3, <2>1 DEF Start, Phases, store
<1>4. ASSUME NEW p \in Proc, Acquire(p) PROVE CommitInv'
      BY <1>1, <1>4 DEF Acquire, LockPhase, Phases, request
<1>5. ASSUME NEW p \in Proc, InspectEarly(p) PROVE CommitInv'
      BY <1>1, <1>5 DEF InspectEarly, Phases, request
<1>6. ASSUME NEW p \in Proc, LoadMetadata(p) PROVE CommitInv'
      BY <1>1, <1>6 DEF LoadMetadata, Phases, request
<1>7. ASSUME NEW p \in Proc, Inspect(p) PROVE CommitInv'
  <2>1. CASE Goto(p, "using") \/ End(p)
        BY <1>1, <1>2, <1>7, <2>1 DEF Inspect, Phases, request
  <2>2. CASE ~Verified(package[p]) /\ Goto(p, "removeBlob")
        BY <1>7, <2>2 DEF Inspect, Goto, TypeOK, store, request, Verified
  <2>3. QED
        BY <1>7, <2>1, <2>2 DEF Inspect
<1>8. ASSUME NEW p \in Proc, RemoveBlob(p) PROVE CommitInv'
  <2>1. blob' = "none" /\ checkout' = checkout /\ package' = package
        BY <1>8, CalmSteps DEF RemoveBlob, request
  <2>2. phase' = [phase EXCEPT ![p] = "removeCheckout"]
        BY <1>8 DEF RemoveBlob, Goto
  <2>3. \A q \in Proc : q # p => phase[q] \notin Locked
        BY <1>8, Alone DEF RemoveBlob, Locked
  <2>4. QED
        BY <2>1, <2>2, <2>3 DEF TypeOK, Locked, Verified
<1>9. ASSUME NEW p \in Proc, RemoveSome(p) PROVE CommitInv'
  <2>1. blob = "none" /\ blob' = blob /\ phase' = phase /\ package' = package
        BY <1>9 DEF RemoveSome, request
  <2>2. \A q \in Proc : q # p => phase[q] \notin Locked
        BY <1>9, Alone DEF RemoveSome, Locked
  <2>3. QED
        BY <1>9, <2>1, <2>2 DEF RemoveSome, Locked, Verified
<1>10. ASSUME NEW p \in Proc, RemoveRest(p) PROVE CommitInv'
  <2>1. blob = "none" /\ blob' = blob /\ package' = package
        BY <1>10 DEF RemoveRest, request
  <2>2. checkout' = [checkout EXCEPT ![package[p]] = "none"]
        BY <1>10, CalmSteps DEF RemoveRest
  <2>3. \A q \in Proc : q # p => phase[q] \notin Locked
        BY <1>10, Alone DEF RemoveRest, Locked
  <2>4. phase' = [phase EXCEPT ![p] = "fetch"] /\ package[p] \in Package
        BY <1>10 DEF RemoveRest, Goto, TypeOK
  <2>5. QED
        BY <2>1, <2>2, <2>3, <2>4 DEF TypeOK, Locked, Verified
<1>11. ASSUME NEW p \in Proc, Fetch(p) \/ Unpack(p) PROVE CommitInv'
       BY <1>11 DEF Fetch, Unpack, Goto, TypeOK, store, request, Verified
<1>12. ASSUME NEW p \in Proc, RenameBlob(p) PROVE CommitInv'
  <2>1. \A k \in Package : checkout[k] = "none"
        BY <1>12 DEF RenameBlob, OnePackage, TypeOK
  <2>2. \A q \in Proc : q # p => phase[q] \notin Locked
        BY <1>12, Alone DEF RenameBlob, Locked
  <2>3. checkout' = checkout /\ package' = package
        /\ phase' = [phase EXCEPT ![p] = "renameCheckout"]
        BY <1>12 DEF RenameBlob, Goto, request
  <2>4. package[p] \in Package
        BY <1>12 DEF RenameBlob, TypeOK
  <2>5. QED
        BY <2>1, <2>2, <2>3, <2>4 DEF TypeOK, Locked, Verified
<1>13. ASSUME NEW p \in Proc, RenameCheckout(p) PROVE CommitInv'
  <2>1. \A q \in Proc : q # p => phase[q] \notin Locked
        BY <1>13, Alone DEF RenameCheckout, Locked
  <2>2. blob' = blob /\ package' = package
        /\ checkout' = [checkout EXCEPT ![package[p]] = "whole"]
        /\ phase' = [phase EXCEPT ![p] = "using"]
        BY <1>13 DEF RenameCheckout, Goto, request
  <2>3. QED
        BY <2>1, <2>2 DEF TypeOK, Locked, Verified
<1>14. ASSUME Damage PROVE CommitInv'
       BY <1>14 DEF Damage, request, Verified
<1>15. ASSUME UNCHANGED vars PROVE CommitInv'
       BY <1>15 DEF vars, store, request, Verified
<1>16. QED
  BY <1>2, <1>3, <1>4, <1>5, <1>6, <1>7, <1>8, <1>9, <1>10, <1>11, <1>12,
     <1>13, <1>14, <1>15, CalmSteps
  DEF Next, LockTimeout, Fail, Finish, Crash, PowerLoss

CalmInv == TypeOK /\ (Calm => CommitInv)

LEMMA CommitInvariant ==
  ASSUME OnePackage
  PROVE  Spec => []CalmInv
<1>1. Init => CalmInv
      BY InitTypeOK, InitCommitInv DEF CalmInv
<1>2. CalmInv /\ [Next]_vars => CalmInv'
      BY NextTypeOK, NextCommitInv, CalmBefore, OnePackage DEF CalmInv
<1>3. QED
  BY <1>1, <1>2, PTL DEF Spec

\* What a step hands to its run is the whole archive, unpacked.
HandOver ==
  Calm' =>
    \A p \in Proc :
      phase[p] # "using" /\ phase'[p] = "using" =>
        checkout'[package[p]] = "whole"

LEMMA HandOverSteps ==
  ASSUME TypeOK, [Next]_vars, NEW p \in Proc, phase[p] # "using", phase'[p] = "using"
  PROVE  \E q \in Proc : InspectEarly(q) \/ Inspect(q) \/ RenameCheckout(q)
<1>1. ASSUME NEW q \in Proc, NEW next \in Phases, Goto(q, next), next # "using"
      PROVE  FALSE
      BY <1>1 DEF Goto, TypeOK
<1>2. ASSUME NEW q \in Proc, NEW k \in Package, NEW off \in BOOLEAN, Start(q, k, off)
      PROVE  FALSE
      BY <1>1, <1>2 DEF Start, Phases
<1>3. ASSUME NEW q \in Proc, Acquire(q) PROVE FALSE
      BY <1>1, <1>3 DEF Acquire, LockPhase, Phases
<1>4. ASSUME NEW q \in Proc,
             LockTimeout(q) \/ LoadMetadata(q) \/ RemoveBlob(q) \/ RemoveRest(q)
               \/ Fetch(q) \/ Unpack(q) \/ RenameBlob(q) \/ Fail(q) \/ Finish(q)
               \/ Crash(q)
      PROVE  FALSE
      BY <1>1, <1>4 DEF LockTimeout, LoadMetadata, RemoveBlob, RemoveRest, Fetch,
         Unpack, RenameBlob, Fail, Finish, Crash, End, Phases
<1>5. ASSUME NEW q \in Proc, RemoveSome(q) PROVE FALSE
      BY <1>5 DEF RemoveSome
<1>6. ASSUME Damage \/ PowerLoss \/ UNCHANGED vars PROVE FALSE
      BY <1>6 DEF Damage, PowerLoss, vars
<1>7. QED
  BY <1>2, <1>3, <1>4, <1>5, <1>6 DEF Next

LEMMA StepHandOver ==
  ASSUME CalmInv, [Next]_vars
  PROVE  HandOver
<1> SUFFICES ASSUME TypeOK, CommitInv,
                    NEW p \in Proc, phase[p] # "using", phase'[p] = "using"
             PROVE  checkout'[package[p]] = "whole"
    BY CalmBefore DEF HandOver, CalmInv
<1>1. ASSUME NEW q \in Proc, NEW next \in Phases, Goto(q, next), next # "using"
      PROVE  FALSE
      BY <1>1 DEF Goto, TypeOK
<1>2. ASSUME NEW q \in Proc, Goto(q, "using") PROVE q = p
      BY <1>2 DEF Goto, TypeOK
<1>3. ASSUME NEW q \in Proc, InspectEarly(q) \/ Inspect(q)
      PROVE  checkout'[package[p]] = "whole"
  <2>1. Verified(package[q]) /\ Goto(q, "using") /\ UNCHANGED store
        BY <1>1, <1>3 DEF InspectEarly, Inspect, End, Phases
  <2>2. QED
        BY <1>2, <2>1, <1>3 DEF Verified, CommitInv, TypeOK, store, InspectEarly, Inspect, Phases
<1>4. ASSUME NEW q \in Proc, RenameCheckout(q)
      PROVE  checkout'[package[p]] = "whole"
  <2>1. Goto(q, "using") /\ checkout' = [checkout EXCEPT ![package[q]] = "whole"]
        BY <1>4 DEF RenameCheckout, CommitInv
  <2>2. q = p /\ package[q] \in Package
        BY <1>2, <1>4, <2>1 DEF RenameCheckout, TypeOK
  <2>3. QED
        BY <2>1, <2>2 DEF TypeOK
<1>5. QED
  BY <1>3, <1>4, HandOverSteps

\* No run is handed an incomplete checkout: not after a kill in the middle of a
\* removal or between the two renames, nor after damage to the archive.
THEOREM HandsOutWhole ==
  ASSUME OnePackage
  PROVE  Spec => HandedIsWhole
<1>1. CalmInv /\ [Next]_vars => [HandOver]_vars
      BY StepHandOver
<1>2. Spec => []CalmInv
      BY CommitInvariant, OnePackage
<1>3. QED
  BY <1>1, <1>2, PTL DEF Spec, HandedIsWhole, HandOver

\* A step keeps the verified entries unless it changes the archive alone.
Keeping ==
  Calm' =>
    \A k \in Package : Verified(k) /\ ~Verified(k)' =>
      UNCHANGED <<checkout, holder, phase>>

LEMMA StepKeeping ==
  ASSUME OnePackage, CalmInv, [Next]_vars
  PROVE  Keeping
<1> SUFFICES ASSUME Calm', TypeOK, CommitInv,
                    NEW k \in Package, Verified(k), ~Verified(k)'
             PROVE  UNCHANGED <<checkout, holder, phase>>
    BY CalmBefore DEF Keeping, CalmInv
<1>1. ASSUME UNCHANGED store PROVE FALSE
      BY <1>1 DEF store, Verified
<1>2. ASSUME NEW p \in Proc, RemoveBlob(p) PROVE FALSE
      BY <1>2 DEF RemoveBlob, CommitInv, OnePackage, TypeOK
<1>3. ASSUME NEW p \in Proc, RemoveSome(p) \/ RemoveRest(p) \/ RenameBlob(p)
      PROVE  FALSE
      BY <1>3 DEF RemoveSome, RemoveRest, RenameBlob, CommitInv, Verified
<1>4. ASSUME NEW p \in Proc, RenameCheckout(p) PROVE FALSE
      BY <1>4 DEF RenameCheckout, CommitInv, Verified, TypeOK
<1>5. ASSUME Damage PROVE UNCHANGED <<checkout, holder, phase>>
      BY <1>5 DEF Damage
<1>6. QED
  BY <1>1, <1>2, <1>3, <1>4, <1>5, CalmSteps
  DEF Next, Start, Acquire, LockTimeout, InspectEarly, LoadMetadata, Inspect,
      Fetch, Unpack, Fail, Finish, Crash, PowerLoss, vars, store

\* No step of a run takes a verified entry away.
THEOREM KeepsVerified ==
  ASSUME OnePackage
  PROVE  Spec => VerifiedStays
<1>1. CalmInv /\ [Next]_vars => [Keeping]_vars
      BY StepKeeping, OnePackage
<1>2. Spec => []CalmInv
      BY CommitInvariant, OnePackage
<1>3. QED
  BY <1>1, <1>2, PTL DEF Spec, VerifiedStays, Keeping

-----------------------------------------------------------------------------
(* With no damage either, what is used stays verified.                      *)

Quiet == Calm /\ "damage" \notin happened

LEMMA QuietBefore == ASSUME [Next]_vars, Quiet' PROVE Quiet /\ Calm'
BY FaultsStay, CalmBefore DEF Quiet

LEMMA QuietSteps ==
  ASSUME Quiet', NEW kind \in {"remove", "power", "damage"} PROVE ~Happens(kind)
BY DEF Quiet, Calm, Happens

UsedInv ==
  /\ \A p \in Proc : phase[p] = "using" => Verified(package[p])
  /\ \A p \in Proc : phase[p] = "renameCheckout" => blob = "good"

\* Between the two renames the lock keeps every other run from the archive.
LEMMA BlobStays ==
  ASSUME Quiet', TypeOK, [Next]_vars,
         NEW p \in Proc, phase[p] = "renameCheckout", blob = "good"
  PROVE  blob' = "good"
<1>1. ASSUME NEW q \in Proc, RemoveBlob(q) PROVE FALSE
      BY <1>1, Alone DEF RemoveBlob, Locked
<1>2. QED
  BY <1>1, QuietSteps
  DEF Next, vars, Start, Acquire, LockTimeout, InspectEarly, LoadMetadata,
     Inspect, RemoveSome, RemoveRest, Fetch, Unpack, RenameBlob, RenameCheckout,
     Fail, Finish, Crash, Damage, PowerLoss, store

\* Only RenameBlob leads between the two renames.
LEMMA BetweenRenames ==
  ASSUME TypeOK, [Next]_vars, NEW p \in Proc,
         phase[p] # "renameCheckout", phase'[p] = "renameCheckout"
  PROVE  blob' = "good"
<1>1. ASSUME NEW q \in Proc, NEW next \in Phases, Goto(q, next),
             next # "renameCheckout"
      PROVE  FALSE
      BY <1>1 DEF Goto, TypeOK
<1>2. ASSUME NEW q \in Proc, RenameBlob(q) PROVE blob' = "good"
      BY <1>2 DEF RenameBlob
<1>3. ASSUME NEW q \in Proc, NEW k \in Package, NEW off \in BOOLEAN, Start(q, k, off)
      PROVE  FALSE
      BY <1>1, <1>3 DEF Start, Phases
<1>4. ASSUME NEW q \in Proc, Acquire(q) PROVE FALSE
      BY <1>1, <1>4 DEF Acquire, LockPhase, Phases
<1>5. ASSUME NEW q \in Proc,
             LockTimeout(q) \/ InspectEarly(q) \/ LoadMetadata(q) \/ Inspect(q)
               \/ RemoveBlob(q) \/ RemoveRest(q) \/ Fetch(q) \/ Unpack(q)
               \/ RenameCheckout(q) \/ Fail(q) \/ Finish(q) \/ Crash(q)
      PROVE  FALSE
      BY <1>1, <1>5 DEF LockTimeout, InspectEarly, LoadMetadata, Inspect,
         RemoveBlob, RemoveRest, Fetch, Unpack, RenameCheckout, Fail, Finish, Crash,
         End, Phases
<1>6. ASSUME NEW q \in Proc, RemoveSome(q) PROVE FALSE
      BY <1>6 DEF RemoveSome
<1>7. ASSUME Damage \/ PowerLoss \/ UNCHANGED vars PROVE FALSE
      BY <1>7 DEF Damage, PowerLoss, vars
<1>8. QED
  BY <1>2, <1>3, <1>4, <1>5, <1>6, <1>7 DEF Next

LEMMA NextUsedInv ==
  ASSUME OnePackage, Quiet', CalmInv, UsedInv, [Next]_vars
  PROVE  UsedInv'
<1> USE QuietBefore
<1> TypeOK /\ CommitInv /\ Calm'
    BY DEF CalmInv, Quiet
<1> SUFFICES ASSUME NEW p \in Proc, phase'[p] = "using"
             PROVE  Verified(package[p])'
    BY BlobStays, BetweenRenames DEF UsedInv
<1>1. CASE phase[p] = "using"
  <2>1. Verified(package[p]) /\ package[p] \in Package
        BY <1>1 DEF UsedInv, TypeOK
  <2>2. Keeping
        BY StepKeeping
  <2>3. package'[p] = package[p]
        BY <1>1 DEF Next, vars, Start, Acquire, LockTimeout, InspectEarly,
           LoadMetadata, Inspect, RemoveBlob, RemoveSome, RemoveRest, Fetch, Unpack,
           RenameBlob, RenameCheckout, Fail, Finish, Crash, Damage, PowerLoss,
           request, TypeOK
  <2>4. CASE UNCHANGED <<checkout, holder, phase>>
    <3>1. ~Damage /\ ~PowerLoss
          BY QuietSteps DEF Damage, PowerLoss
    <3>2. blob' = blob
      <4>1. ASSUME NEW q \in Proc, RemoveBlob(q) \/ RenameBlob(q) PROVE FALSE
            BY <2>4, <4>1 DEF RemoveBlob, RenameBlob, Goto, TypeOK
      <4>2. QED
            BY <3>1, <4>1 DEF Next, vars, Start, Acquire, LockTimeout,
               InspectEarly, LoadMetadata, Inspect, RemoveSome, RemoveRest, Fetch,
               Unpack, RenameCheckout, Fail, Finish, Crash, store
    <3>3. QED
          BY <2>1, <2>3, <2>4, <3>2 DEF Verified
  <2>5. CASE ~UNCHANGED <<checkout, holder, phase>>
        BY <2>1, <2>2, <2>3, <2>5 DEF Keeping, Verified
  <2>6. QED
        BY <2>4, <2>5
<1>2. CASE phase[p] # "using"
  <2>1. checkout'[package[p]] = "whole"
        BY <1>2, StepHandOver DEF HandOver
  <2>2. package'[p] = package[p] /\ blob' = "good"
    <3>1. ASSUME NEW q \in Proc, NEW next \in Phases, Goto(q, next), next # "using"
          PROVE  FALSE
          BY <1>2, <3>1 DEF Goto, TypeOK
    <3>2. ASSUME NEW q \in Proc, InspectEarly(q) \/ Inspect(q)
          PROVE  package' = package /\ blob' = "good"
          BY <3>1, <3>2 DEF InspectEarly, Inspect, End, Phases, Verified, store, request
    <3>3. ASSUME NEW q \in Proc, RenameCheckout(q)
          PROVE  package' = package /\ blob' = "good"
          BY <3>3 DEF RenameCheckout, request, UsedInv
    <3>4. QED
          BY <1>2, <3>2, <3>3, HandOverSteps
  <2>3. QED
        BY <2>1, <2>2 DEF Verified
<1>3. QED
  BY <1>1, <1>2

\* What a run uses without the lock stays the whole archive: no other run, however
\* the kills and the failures fall, removes or replaces it meanwhile.
THEOREM UsedIsWhole ==
  ASSUME OnePackage
  PROVE  Spec => []UsedStaysWhole
<1> DEFINE QuietInv == Quiet => UsedInv
<1>1. Init => QuietInv
      BY CacheAssumption DEF Init, UsedInv
<1>2. CalmInv /\ QuietInv /\ [Next]_vars => QuietInv'
      BY NextUsedInv, QuietBefore, OnePackage
<1>3. CalmInv /\ QuietInv => UsedStaysWhole
      BY DEF CalmInv, TypeOK, CommitInv, UsedInv, UsedStaysWhole, Verified, Quiet
<1>4. Spec => []CalmInv
      BY CommitInvariant, OnePackage
<1>5. QED
  <2> HIDE DEF QuietInv
  <2>1. QED
    BY <1>1, <1>2, <1>3, <1>4, PTL DEF Spec

-----------------------------------------------------------------------------
(* With no fault at all, one download serves everybody.                     *)

Smooth == happened = {}
Committing == {"unpack", "renameBlob", "renameCheckout"}

\* What was downloaded is on its way into the store, or is there.
FetchInv ==
  /\ fetches <= 1
  /\ fetches = 1 =>
       \/ \E p \in Proc : phase[p] \in Committing
       \/ \A k \in Package : Verified(k)
  /\ \A p \in Proc : phase[p] = "renameCheckout" => blob = "good"

LEMMA SmoothBefore == ASSUME [Next]_vars, Smooth' PROVE Smooth /\ Quiet'
BY FaultsStay DEF Smooth, Quiet, Calm

LEMMA SmoothSteps == ASSUME Smooth', NEW kind PROVE ~Happens(kind)
BY DEF Smooth, Happens

\* Between the download and its place in the store there is one run.
LEMMA NextFetchInv ==
  ASSUME OnePackage, Smooth', CalmInv, FetchInv, [Next]_vars
  PROVE  FetchInv'
<1> TypeOK /\ CommitInv
    BY SmoothBefore, QuietBefore, CalmBefore DEF CalmInv, Smooth, Calm
<1>1. \A p \in Proc : phase'[p] = "renameCheckout" => blob' = "good"
      BY SmoothBefore, BlobStays, BetweenRenames DEF FetchInv
<1> SUFFICES /\ fetches' <= 1
             /\ fetches' = 1 => \/ \E p \in Proc : phase'[p] \in Committing
                                \/ \A k \in Package : Verified(k)'
    BY <1>1 DEF FetchInv
<1>2. fetches \in Nat
      BY CacheAssumption DEF TypeOK
<1>3. ASSUME NEW p \in Proc, Fetch(p)
      PROVE  fetches' = 1 /\ phase'[p] \in Committing
  <2>1. phase[p] = "fetch" /\ blob = "none" /\ package[p] \in Package
        BY <1>3 DEF Fetch, CommitInv, TypeOK
  <2>2. \A q \in Proc : phase[q] \notin Committing
        BY <2>1, Alone DEF Committing, Locked
  <2>3. ~Verified(package[p])
        BY <2>1 DEF Verified
  <2>4. fetches = 0
        BY <1>2, <2>1, <2>2, <2>3 DEF FetchInv
  <2>5. QED
        BY <1>3, <2>4 DEF Fetch, Goto, TypeOK, Committing
<1>4. ASSUME NEW p \in Proc, Unpack(p) \/ RenameBlob(p)
      PROVE  fetches' = fetches /\ phase'[p] \in Committing
      BY <1>4 DEF Unpack, RenameBlob, Goto, TypeOK, Committing, history
<1>5. ASSUME NEW p \in Proc, RenameCheckout(p)
      PROVE  fetches' = fetches /\ \A k \in Package : Verified(k)'
  <2>1. checkout' = [checkout EXCEPT ![package[p]] = "whole"] /\ package[p] \in Package
        BY <1>5 DEF RenameCheckout, CommitInv, TypeOK
  <2>2. \A k \in Package : checkout'[k] = "whole"
        BY <2>1 DEF OnePackage, TypeOK
  <2>3. blob' = "good" /\ fetches' = fetches
        BY <1>5 DEF RenameCheckout, FetchInv, history
  <2>4. QED
        BY <2>2, <2>3 DEF Verified
\* The removals are of an entry that is not verified.
<1>6. ASSUME NEW p \in Proc, RemoveBlob(p) \/ RemoveSome(p) \/ RemoveRest(p)
      PROVE  fetches' = fetches /\ fetches = 0
  <2>1. /\ phase[p] \in {"removeBlob", "removeCheckout"} /\ package[p] \in Package
        /\ fetches' = fetches
        BY <1>6 DEF RemoveBlob, RemoveSome, RemoveRest, TypeOK, history
  <2>2. ~Verified(package[p])
        BY <2>1 DEF CommitInv, Verified
  <2>3. \A q \in Proc : phase[q] \notin Committing
        BY <2>1, Alone DEF Committing, Locked
  <2>4. QED
        BY <1>2, <2>1, <2>2, <2>3 DEF FetchInv
\* The steps that leave the store alone, by a run that is not committing.
<1>7. ASSUME UNCHANGED <<store, fetches>>,
             \A q \in Proc : phase[q] \in Committing => phase'[q] = phase[q]
      PROVE  /\ fetches' = fetches
             /\ fetches' = 1 => \/ \E q \in Proc : phase'[q] \in Committing
                                \/ \A k \in Package : Verified(k)'
      BY <1>7 DEF FetchInv, store, Verified
<1>8. ASSUME NEW p \in Proc, NEW k \in Package, NEW off \in BOOLEAN, Start(p, k, off)
      PROVE  \A q \in Proc : phase[q] \in Committing => phase'[q] = phase[q]
      BY <1>8 DEF Start, Goto, TypeOK, Committing
<1>9. ASSUME NEW p \in Proc,
             Acquire(p) \/ LockTimeout(p) \/ InspectEarly(p) \/ LoadMetadata(p)
               \/ Inspect(p) \/ Finish(p)
      PROVE  \A q \in Proc : phase[q] \in Committing => phase'[q] = phase[q]
      BY <1>9 DEF Acquire, LockTimeout, InspectEarly, LoadMetadata, Inspect, Finish,
         LockPhase, End, Goto, TypeOK, Committing
<1>10. CASE \E p \in Proc : Fetch(p) \/ Unpack(p) \/ RenameBlob(p) \/ RenameCheckout(p)
                             \/ RemoveBlob(p) \/ RemoveSome(p) \/ RemoveRest(p)
  <2>1. fetches <= 1 /\ 0 <= 1 /\ 0 # 1
        BY DEF FetchInv
  <2>2. QED
        BY <1>3, <1>4, <1>5, <1>6, <1>10, <2>1
<1>11. CASE \/ \E p \in Proc :
                \/ \E k \in Package, off \in BOOLEAN : Start(p, k, off)
                \/ Acquire(p) \/ LockTimeout(p) \/ InspectEarly(p)
                \/ LoadMetadata(p) \/ Inspect(p) \/ Finish(p)
            \/ UNCHANGED vars
  <2>1. UNCHANGED <<store, fetches>>
        BY <1>11 DEF Start, Acquire, LockTimeout, InspectEarly, LoadMetadata, Inspect,
           Finish, vars, history
  <2>2. \A q \in Proc : phase[q] \in Committing => phase'[q] = phase[q]
        BY <1>8, <1>9, <1>11 DEF vars
  <2>3. fetches <= 1
        BY DEF FetchInv
  <2>4. QED
        BY <1>7, <2>1, <2>2, <2>3
<1>12. QED
  BY <1>10, <1>11, SmoothSteps DEF Next, Fail, Crash, Damage, PowerLoss

\* Of one digest there is one fetch ("single-flight"): whoever wins the lock
\* downloads, and every other run finds what it left.
THEOREM FetchesOnce ==
  ASSUME OnePackage
  PROVE  Spec => []SingleFetch
<1> DEFINE SmoothInv == Smooth => FetchInv
<1>1. Init => SmoothInv
      BY DEF Init, FetchInv
<1>2. CalmInv /\ SmoothInv /\ [Next]_vars => SmoothInv'
      BY NextFetchInv, SmoothBefore, OnePackage
<1>3. SmoothInv => SingleFetch
      BY DEF FetchInv, SingleFetch, Smooth
<1>4. Spec => []CalmInv
      BY CommitInvariant, OnePackage
<1>5. QED
  <2> HIDE DEF SmoothInv
  <2>1. QED
    BY <1>1, <1>2, <1>3, <1>4, PTL DEF Spec
=============================================================================
