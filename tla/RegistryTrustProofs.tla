------------------------- MODULE RegistryTrustProofs -------------------------
(***************************************************************************)
(* Proofs about RegistryTrust for any number of processes, registries,     *)
(* anchors and versions, and any history the registries serve.             *)
(*                                                                         *)
(* The argument: whoever holds the trust lock and is about to write has    *)
(* read what the store still holds (CopyIsCurrent), because nobody else    *)
(* writes.  So a write changes one entry, relative to its present value.   *)
(* The floors then dominate every acknowledged acceptance (FloorsCover),   *)
(* a pin read from the store dominates what had been acknowledged by then  *)
(* (PinCovers), and the chain check compares with that pin.  By the same   *)
(* invariant the store implements TrustLedger: the write is the instant    *)
(* at which a call takes effect.                                           *)
(***************************************************************************)
EXTENDS RegistryTrust, TLAPS

LockIsHeld ==
  \A p \in Proc : phase[p] \in HoldPhases <=> trustLock = p

CopyIsCurrent == \A p \in Proc : phase[p] \in WritePhases => copy[p] = pins

\* What a command in a given phase is and has.
CommandOK(p) ==
  /\ phase[p] # "idle" => command[p].registry \in Registry
  /\ phase[p] \in {"lockImport", "loadImport", "writeImport"} =>
       IsImport(p) /\ pin[p] \in Pin
  /\ phase[p] \in {"load", "readBack"} => pin[p] \in Pin
  /\ phase[p] \in AcceptedPhases =>
       /\ pin[p] \in Pin
       /\ got[p].timestamp \in Timestamp
       /\ got[p].snapshot \in Snapshot
       /\ got[p].timestamp.ts >= pin[p].ts
       /\ got[p].snapshot.snap >= pin[p].snap

FloorsCover ==
  \A r \in Registry :
    /\ pins[r] = Absent => learned[r] = Zero
    /\ pins[r] # Absent => /\ pins[r].ts >= learned[r].ts
                           /\ pins[r].snap >= learned[r].snap

PinCovers ==
  \A p \in Proc :
    phase[p] \in {"load", "readBack"} \cup AcceptedPhases =>
      /\ pin[p].ts >= seen[p].ts
      /\ pin[p].snap >= seen[p].snap

IInv == /\ TypeOK
        /\ LockIsHeld
        /\ CopyIsCurrent
        /\ \A p \in Proc : CommandOK(p)
        /\ FloorsCover
        /\ PinCovers

LEMMA ConstantFacts ==
  /\ Absent \notin Pin /\ Absent \notin Timestamp /\ Absent \notin Snapshot
  /\ Absent \notin Registry /\ Absent \notin Anchor
  /\ Absent \notin Commands /\ NoOne \notin Proc
  /\ Zero \in Floors
  /\ NoObjects \in Objects
  /\ NoCopy \in [Registry -> Pin \cup {Absent}]
  /\ \A m, n \in 0..MaxVersion :
       MaxOf(m, n) \in 0..MaxVersion /\ MaxOf(m, n) >= m /\ MaxOf(m, n) >= n
<1>1. Absent \notin Pin /\ Absent \notin Timestamp /\ Absent \notin Snapshot
  BY ObjectsAssumption
<1>2. Absent \notin Commands
  BY TrustAssumption
<1>3. Zero \in Floors
  BY TrustAssumption DEF Zero, Floors
<1>4. NoObjects \in Objects
  BY DEF NoObjects, Objects
<1>5. NoCopy \in [Registry -> Pin \cup {Absent}]
  BY DEF NoCopy
<1>6. \A m, n \in 0..MaxVersion :
        MaxOf(m, n) \in 0..MaxVersion /\ MaxOf(m, n) >= m /\ MaxOf(m, n) >= n
  BY TrustAssumption DEF MaxOf
<1> QED BY <1>1, <1>2, <1>3, <1>4, <1>5, <1>6, TrustAssumption

LEMMA InitIInv == ASSUME Init PROVE IInv
<1>1. TypeOK
  BY ConstantFacts DEF Init, TypeOK, Phases, NoCommand
<1>2. LockIsHeld /\ CopyIsCurrent /\ FloorsCover /\ PinCovers
  BY ConstantFacts, TrustAssumption
     DEF Init, LockIsHeld, CopyIsCurrent, FloorsCover, PinCovers, HoldPhases,
         WritePhases, AcceptedPhases, Zero
<1>3. \A p \in Proc : CommandOK(p)
  BY DEF Init, CommandOK, AcceptedPhases
<1> QED BY <1>1, <1>2, <1>3 DEF IInv

\* A command that ends without writing the store.
LEMMA EndStep ==
  ASSUME IInv, NEW p \in Proc, End(p), UNCHANGED <<pins, cache, learned>>
  PROVE  IInv'
<1>1. TypeOK'
  BY ConstantFacts DEF IInv, TypeOK, End, Goto, Phases, NoCommand
<1>2. LockIsHeld'
  BY ConstantFacts DEF IInv, TypeOK, LockIsHeld, End, Goto, HoldPhases
<1>3. CopyIsCurrent' /\ PinCovers' /\ FloorsCover'
  BY DEF IInv, TypeOK, CopyIsCurrent, PinCovers, FloorsCover, End, Goto,
         WritePhases, AcceptedPhases
<1>4. (\A q \in Proc : CommandOK(q))'
  BY DEF IInv, TypeOK, CommandOK, IsImport, End, Goto, AcceptedPhases
<1> QED BY <1>1, <1>2, <1>3, <1>4 DEF IInv

\* The one who is about to write is alone and has the present pins.
LEMMA WriterIsAlone ==
  ASSUME IInv, NEW p \in Proc, phase[p] \in WritePhases
  PROVE  /\ copy[p] = pins
         /\ trustLock = p
         /\ \A q \in Proc \ {p} : phase[q] \notin HoldPhases
BY DEF IInv, LockIsHeld, CopyIsCurrent, HoldPhases, WritePhases

LEMMA ImportStep == ASSUME IInv, NEW p \in Proc, WriteImport(p) PROVE IInv'
<1> DEFINE r == command[p].registry
           new == [copy[p] EXCEPT ![r] = ImportedPin(p, @)]
<1>1. /\ r \in Registry /\ copy[p] = pins
      /\ \A q \in Proc \ {p} : phase[q] \notin HoldPhases
      /\ trustLock = p
  BY WriterIsAlone, ConstantFacts DEF IInv, CommandOK, WriteImport, WritePhases
<1>2. ImportedPin(p, pins[r]) \in Pin
  BY <1>1 DEF IInv, TypeOK, CommandOK, WriteImport, ImportedPin, Pin
<1>3. new \in [Registry -> Pin \cup {Absent}]
  BY <1>1, <1>2 DEF IInv, TypeOK
<1>4. pins' \in {pins, new} /\ End(p) /\ cache' = cache
  BY DEF WriteImport
<1>5. learned' \in {learned, [learned EXCEPT ![r] = Zero]}
  BY DEF WriteImport
<1>6. TypeOK'
  <2>1. learned' \in [Registry -> Floors]
    BY <1>1, <1>5, ConstantFacts DEF IInv, TypeOK
  <2>2. pins' \in [Registry -> Pin \cup {Absent}]
    BY <1>3, <1>4 DEF IInv, TypeOK
  <2> QED BY <1>4, <2>1, <2>2, ConstantFacts
          DEF IInv, TypeOK, End, Goto, Phases, NoCommand
<1>7. LockIsHeld'
  BY <1>1, <1>4, ConstantFacts DEF IInv, TypeOK, LockIsHeld, End, Goto, HoldPhases
<1>8. CopyIsCurrent' /\ PinCovers'
  BY <1>1, <1>4
     DEF IInv, TypeOK, CopyIsCurrent, PinCovers, End, Goto, WritePhases,
         HoldPhases, AcceptedPhases
<1>9. FloorsCover'
  <2>1. CASE pins' = pins /\ learned' = learned
    BY <2>1 DEF IInv, FloorsCover
  <2>2. CASE /\ pins' = new
             /\ pins[r] # Absent /\ pins[r].anchor = new[r].anchor
             /\ learned' = learned
    <3>1. new[r] = ImportedPin(p, pins[r])
      BY <1>1 DEF IInv, TypeOK
    <3>2. new[r].ts = pins[r].ts /\ new[r].snap = pins[r].snap
      BY <2>2, <3>1 DEF IInv, CommandOK, WriteImport, ImportedPin, Pin
    <3>3. \A q \in Registry \ {r} : new[q] = pins[q]
      BY <1>1 DEF IInv, TypeOK
    <3> QED BY <1>1, <1>2, <2>2, <3>1, <3>2, <3>3, ConstantFacts
            DEF IInv, FloorsCover
  <2>3. CASE pins' = new /\ learned' = [learned EXCEPT ![r] = Zero]
    <3>1. new[r] \in Pin
      BY <1>1, <1>2 DEF IInv, TypeOK
    <3>2. new[r].ts >= 0 /\ new[r].snap >= 0 /\ new[r] # Absent
      BY <3>1, ConstantFacts, TrustAssumption DEF Pin
    <3>3. \A q \in Registry \ {r} : new[q] = pins[q]
      BY <1>1 DEF IInv, TypeOK
    <3> QED BY <1>1, <2>3, <3>2, <3>3 DEF IInv, TypeOK, FloorsCover, Zero
  <2> QED
    BY <1>1, <2>1, <2>2, <2>3 DEF WriteImport
<1>10. (\A q \in Proc : CommandOK(q))'
  BY <1>4 DEF IInv, TypeOK, CommandOK, IsImport, End, Goto, AcceptedPhases
<1> QED BY <1>6, <1>7, <1>8, <1>9, <1>10 DEF IInv

\* The pin a raise writes is of the same anchor and dominates both.
LEMMA RaisedFacts ==
  ASSUME IInv, NEW p \in Proc, phase[p] = "writeRaise", NEW old \in Pin
  PROVE  /\ RaisedPin(p, old) \in Pin
         /\ RaisedPin(p, old).anchor = old.anchor
         /\ RaisedPin(p, old).ts = MaxOf(old.ts, Versions(p).ts)
         /\ RaisedPin(p, old).snap = MaxOf(old.snap, Versions(p).snap)
         /\ RaisedPin(p, old).ts >= old.ts
         /\ RaisedPin(p, old).snap >= old.snap
         /\ Versions(p) \in Floors
<1>1. Versions(p) \in Floors
  BY TrustAssumption
     DEF IInv, CommandOK, AcceptedPhases, Versions, Floors, Timestamp, Snapshot,
         Version
<1>2. old.ts \in 0..MaxVersion /\ old.snap \in 0..MaxVersion /\ old.anchor \in Anchor
  BY DEF Pin
<1>3. Versions(p).ts \in 0..MaxVersion /\ Versions(p).snap \in 0..MaxVersion
  BY <1>1 DEF Floors
<1>4. RaisedPin(p, old) =
        [anchor |-> old.anchor, ts |-> MaxOf(old.ts, Versions(p).ts),
         snap |-> MaxOf(old.snap, Versions(p).snap)]
  BY DEF RaisedPin, Raised
<1>5. RaisedPin(p, old) \in Pin
  BY <1>2, <1>3, <1>4, ConstantFacts DEF Pin
<1> QED BY <1>1, <1>2, <1>3, <1>4, <1>5, ConstantFacts

LEMMA RaiseStep == ASSUME IInv, NEW p \in Proc, WriteRaise(p) PROVE IInv'
<1> DEFINE r == command[p].registry
           old == pins[r]
           new == IF old = Absent THEN pins
                  ELSE [pins EXCEPT ![r] = RaisedPin(p, old)]
           acknowledged ==
             IF old # Absent /\ old.anchor = pin[p].anchor
               THEN [learned EXCEPT ![r] = Raised(@, Versions(p))] ELSE learned
           Commits == /\ phase' = [phase EXCEPT ![p] = "commit"]
                      /\ trustLock' = NoOne
                      /\ copy' = [copy EXCEPT ![p] = NoCopy]
                      /\ UNCHANGED <<command, pin, got, seen>>
<1>1. /\ r \in Registry /\ copy[p] = pins /\ phase[p] = "writeRaise"
      /\ \A q \in Proc \ {p} : phase[q] \notin HoldPhases
      /\ trustLock = p
  BY WriterIsAlone, ConstantFacts DEF IInv, CommandOK, WriteRaise, WritePhases
<1>2. /\ pins' \in {pins, new}
      /\ learned' \in {learned, acknowledged}
      /\ pins' = pins /\ pins # new => learned' = learned
      /\ cache' = cache
  BY <1>1 DEF WriteRaise
<1>3. Commits \/ End(p)
  BY DEF WriteRaise, Goto
<1>4. /\ learned[r] \in Floors /\ Versions(p) \in Floors
      /\ Raised(learned[r], Versions(p)) \in Floors
  <2>1. Versions(p) \in Floors
    BY <1>1, TrustAssumption
       DEF IInv, CommandOK, AcceptedPhases, Versions, Floors, Timestamp,
           Snapshot, Version
  <2>2. learned[r] \in Floors
    BY <1>1 DEF IInv, TypeOK
  <2> QED BY <2>1, <2>2, ConstantFacts DEF Raised, Floors
<1>5. new \in [Registry -> Pin \cup {Absent}]
  BY <1>1, RaisedFacts DEF IInv, TypeOK
<1>6. acknowledged \in [Registry -> Floors]
  BY <1>1, <1>4 DEF IInv, TypeOK
<1>7. TypeOK'
  <2>1. learned' \in [Registry -> Floors] /\ pins' \in [Registry -> Pin \cup {Absent}]
    BY <1>2, <1>5, <1>6 DEF IInv, TypeOK
  <2>2. CASE End(p)
    BY <1>2, <2>1, <2>2, ConstantFacts
       DEF IInv, TypeOK, End, Goto, Phases, NoCommand
  <2>3. CASE Commits
    BY <1>2, <2>1, <2>3, ConstantFacts DEF IInv, TypeOK, Phases
  <2> QED BY <1>3, <2>2, <2>3
<1>8. LockIsHeld'
  <2>1. CASE End(p)
    BY <1>1, <2>1, ConstantFacts
       DEF IInv, TypeOK, LockIsHeld, End, Goto, HoldPhases
  <2>2. CASE Commits
    BY <1>1, <2>2, ConstantFacts DEF IInv, TypeOK, LockIsHeld, HoldPhases
  <2> QED BY <1>3, <2>1, <2>2
<1>9. CopyIsCurrent' /\ PinCovers'
  <2>1. \A q \in Proc : q # p => phase'[q] = phase[q]
    BY <1>3 DEF IInv, TypeOK, End, Goto
  <2>2. phase'[p] \in {"idle", "commit"}
    BY <1>3 DEF IInv, TypeOK, End, Goto
  <2>3. CopyIsCurrent'
    BY <1>1, <2>1, <2>2 DEF CopyIsCurrent, WritePhases, HoldPhases
  <2>4. CASE End(p)
    BY <2>3, <2>4 DEF IInv, TypeOK, PinCovers, End, Goto, AcceptedPhases
  <2>5. CASE Commits
    BY <1>1, <2>3, <2>5 DEF IInv, TypeOK, PinCovers, AcceptedPhases
  <2> QED BY <1>3, <2>4, <2>5
<1>10. FloorsCover'
  <2>1. CASE pins' = pins /\ learned' = learned
    BY <2>1 DEF IInv, FloorsCover
  <2>2. CASE pins' = new /\ old = Absent
    BY <1>2, <2>2 DEF IInv, FloorsCover
  <2>3. CASE pins' = new /\ old # Absent
    <3>1. /\ new[r] = RaisedPin(p, old)
          /\ \A q \in Registry \ {r} : new[q] = pins[q]
      BY <1>1, <2>3 DEF IInv, TypeOK
    <3>2. old \in Pin
      BY <1>1, <2>3 DEF IInv, TypeOK
    <3>3. old.ts >= learned[r].ts /\ old.snap >= learned[r].snap
      BY <1>1, <2>3 DEF IInv, FloorsCover
    <3>4. learned'[r] \in {learned[r], Raised(learned[r], Versions(p))}
      BY <1>1, <1>2 DEF IInv, TypeOK
    <3>5. new[r] # Absent
      BY <1>1, <3>1, <3>2, RaisedFacts, ConstantFacts
    <3>6. /\ learned[r].ts \in Int /\ learned[r].snap \in Int
          /\ old.ts \in Int /\ old.snap \in Int
          /\ Versions(p).ts \in Int /\ Versions(p).snap \in Int
      BY <1>4, <3>2 DEF Floors, Pin
    <3>7. new[r].ts >= learned'[r].ts /\ new[r].snap >= learned'[r].snap
      BY <1>1, <3>1, <3>2, <3>3, <3>4, <3>6, RaisedFacts DEF Raised, MaxOf
    <3>8. \A q \in Registry \ {r} : learned'[q] = learned[q]
      BY <1>1, <1>2 DEF IInv, TypeOK
    <3> QED BY <2>3, <3>1, <3>5, <3>7, <3>8 DEF IInv, FloorsCover
  <2>4. CASE pins' = pins /\ pins = new
    BY <2>2, <2>3, <2>4
  <2> QED BY <1>2, <2>1, <2>2, <2>3, <2>4
<1>11. (\A q \in Proc : CommandOK(q))'
  <2>1. CASE End(p)
    BY <2>1 DEF IInv, TypeOK, CommandOK, IsImport, End, Goto, AcceptedPhases
  <2>2. CASE Commits
    BY <1>1, <2>2 DEF IInv, TypeOK, CommandOK, IsImport, AcceptedPhases
  <2> QED BY <1>3, <2>1, <2>2
<1> QED BY <1>7, <1>8, <1>9, <1>10, <1>11 DEF IInv

\* Steps that leave the store, the lock and the copies alone.
LEMMA QuietStep ==
  ASSUME IInv, NEW p \in Proc, NEW next \in Phases \ HoldPhases,
         Goto(p, next), phase[p] \notin HoldPhases,
         UNCHANGED <<pins, trustLock, copy, learned>>
  PROVE  LockIsHeld' /\ CopyIsCurrent' /\ FloorsCover'
<1>1. LockIsHeld'
  BY DEF IInv, TypeOK, LockIsHeld, Goto
<1>2. CopyIsCurrent'
  BY DEF IInv, TypeOK, CopyIsCurrent, Goto, WritePhases, HoldPhases
<1>3. FloorsCover'
  BY DEF IInv, FloorsCover
<1> QED BY <1>1, <1>2, <1>3

LEMMA StartStep ==
  ASSUME IInv, NEW p \in Proc, NEW r \in Registry,
         \/ \E a \in Anchor : StartImport(p, r, a)
         \/ \E name \in Commands : StartMaterialize(p, r, name)
  PROVE  IInv'
<1>1. PICK next \in {"lockImport", "readPin"} : Goto(p, next)
  BY DEF StartImport, StartMaterialize
<1>2. LockIsHeld' /\ CopyIsCurrent' /\ FloorsCover'
  BY <1>1, QuietStep
     DEF StartImport, StartMaterialize, store, history, Phases, HoldPhases
<1>3. CASE \E a \in Anchor : StartImport(p, r, a)
  <2> PICK a \in Anchor : StartImport(p, r, a)
    BY <1>3
  <2>1. [anchor |-> a, ts |-> 0, snap |-> 0] \in Pin
    BY TrustAssumption DEF Pin
  <2>2. TypeOK'
    BY <2>1 DEF IInv, TypeOK, StartImport, Goto, store, history, Phases
  <2>3. (\A q \in Proc : CommandOK(q))'
    BY <2>1 DEF IInv, TypeOK, CommandOK, IsImport, StartImport, Goto,
                AcceptedPhases
  <2>4. PinCovers'
    BY DEF IInv, TypeOK, PinCovers, StartImport, Goto, AcceptedPhases, history
  <2> QED BY <1>2, <2>2, <2>3, <2>4 DEF IInv
<1>4. CASE \E name \in Commands : StartMaterialize(p, r, name)
  <2> PICK name \in Commands : StartMaterialize(p, r, name)
    BY <1>4
  <2>2. TypeOK'
    BY DEF IInv, TypeOK, StartMaterialize, Goto, store, history, Phases
  <2>3. (\A q \in Proc : CommandOK(q))'
    BY DEF IInv, TypeOK, CommandOK, IsImport, StartMaterialize, Goto,
           AcceptedPhases
  <2>4. PinCovers'
    BY DEF IInv, TypeOK, PinCovers, StartMaterialize, Goto, AcceptedPhases,
           history
  <2> QED BY <1>2, <2>2, <2>3, <2>4 DEF IInv
<1> QED BY <1>3, <1>4

LEMMA LockStep ==
  ASSUME IInv, NEW p \in Proc, AcquireTrustLock(p) \/ LoadStore(p) PROVE IInv'
<1> USE DEF locals, history, store
<1>1. CASE AcquireTrustLock(p)
  <2>1. TypeOK'
    BY <1>1 DEF IInv, TypeOK, AcquireTrustLock, Goto, Phases
  <2>2. LockIsHeld'
    BY <1>1, TrustAssumption
       DEF IInv, TypeOK, LockIsHeld, AcquireTrustLock, Goto, HoldPhases
  <2>3. CopyIsCurrent' /\ FloorsCover' /\ PinCovers'
    BY <1>1 DEF IInv, TypeOK, CopyIsCurrent, FloorsCover, PinCovers,
                AcquireTrustLock, Goto, WritePhases, AcceptedPhases
  <2>4. (\A q \in Proc : CommandOK(q))'
    BY <1>1 DEF IInv, TypeOK, CommandOK, IsImport, AcquireTrustLock, Goto,
                AcceptedPhases
  <2> QED BY <2>1, <2>2, <2>3, <2>4 DEF IInv
<1>2. CASE LoadStore(p)
  <2>1. TypeOK'
    BY <1>2 DEF IInv, TypeOK, LoadStore, Goto, Phases
  <2>2. LockIsHeld'
    BY <1>2 DEF IInv, TypeOK, LockIsHeld, LoadStore, Goto, HoldPhases
  <2>3. CopyIsCurrent' /\ FloorsCover' /\ PinCovers'
    BY <1>2 DEF IInv, TypeOK, CopyIsCurrent, FloorsCover, PinCovers,
                LoadStore, Goto, WritePhases, AcceptedPhases
  <2>4. (\A q \in Proc : CommandOK(q))'
    BY <1>2 DEF IInv, TypeOK, CommandOK, IsImport, LoadStore, Goto,
                AcceptedPhases
  <2> QED BY <2>1, <2>2, <2>3, <2>4 DEF IInv
<1> QED BY <1>1, <1>2

LEMMA ReadPinStep == ASSUME IInv, NEW p \in Proc, ReadPin(p) PROVE IInv'
<1> DEFINE r == command[p].registry
<1>1. r \in Registry
  BY DEF IInv, CommandOK, ReadPin
<1>2. CASE pins[r] = Absent
  BY <1>2, EndStep DEF ReadPin
<1>3. CASE pins[r] # Absent
  <2>1. pins[r] \in Pin /\ learned[r] \in Floors
    BY <1>1, <1>3 DEF IInv, TypeOK
  <2>2. LockIsHeld' /\ CopyIsCurrent' /\ FloorsCover'
    BY <1>3, QuietStep DEF ReadPin, Phases, HoldPhases
  <2>3. TypeOK'
    BY <1>3, <2>1 DEF IInv, TypeOK, ReadPin, Goto, Phases
  <2>4. (\A q \in Proc : CommandOK(q))'
    BY <1>3, <2>1
       DEF IInv, TypeOK, CommandOK, IsImport, ReadPin, Goto, AcceptedPhases
  <2>5. PinCovers'
    BY <1>1, <1>3, <2>1
       DEF IInv, TypeOK, PinCovers, FloorsCover, ReadPin, Goto, AcceptedPhases
  <2> QED BY <2>2, <2>3, <2>4, <2>5 DEF IInv
<1> QED BY <1>2, <1>3

LEMMA FetchStep ==
  ASSUME IInv, NEW p \in Proc, NEW o \in {"root", "timestamp", "snapshot"},
         Fetch(p, o)
  PROVE  IInv'
<1> USE DEF locals, history
<1> DEFINE r == command[p].registry
<1>1. r \in Registry
  BY DEF IInv, CommandOK, Fetch
<1>2. PICK d \in Document(o) : cache' = [cache EXCEPT ![r] = [@ EXCEPT ![o] = d]]
  BY DEF Fetch
<1>3. \/ o = "root" /\ d \in Anchor
      \/ o = "timestamp" /\ d \in Timestamp
      \/ o = "snapshot" /\ d \in Snapshot
  <2>1. CASE o = "root"
    BY <2>1 DEF Document
  <2>2. CASE o = "timestamp"
    BY <2>2, ServedAssumption DEF Document
  <2>3. CASE o = "snapshot"
    BY <2>3, ServedAssumption DEF Document, Timestamp, Snapshot
  <2> QED BY <2>1, <2>2, <2>3
<1>4. [cache[r] EXCEPT ![o] = d] \in Objects
  <2>1. cache[r] \in Objects
    BY <1>1 DEF IInv, TypeOK
  <2>2. CASE o = "root" /\ d \in Anchor
    BY <2>1, <2>2 DEF Objects
  <2>3. CASE o = "timestamp" /\ d \in Timestamp
    BY <2>1, <2>3 DEF Objects
  <2>4. CASE o = "snapshot" /\ d \in Snapshot
    BY <2>1, <2>4 DEF Objects
  <2> QED BY <1>3, <2>2, <2>3, <2>4
<1>5. TypeOK'
  BY <1>1, <1>2, <1>4 DEF IInv, TypeOK, Fetch, Goto, Phases
<1>6. LockIsHeld' /\ CopyIsCurrent' /\ FloorsCover'
  BY QuietStep DEF Fetch, Phases, HoldPhases
<1>7. (\A q \in Proc : CommandOK(q))' /\ PinCovers'
  BY DEF IInv, TypeOK, CommandOK, IsImport, PinCovers, Fetch, Goto,
         AcceptedPhases
<1> QED BY <1>5, <1>6, <1>7 DEF IInv

LEMMA ReadCachedStep ==
  ASSUME IInv, NEW p \in Proc, NEW o \in {"root", "timestamp", "snapshot"},
         ReadCached(p, o)
  PROVE  IInv'
<1> DEFINE d == cache[command[p].registry][o]
<1>0. phase[p] \in {"load", "readBack"}
  BY DEF ReadCached
<1>1. command[p].registry \in Registry
  BY <1>0 DEF IInv, CommandOK
<1>2. CASE d = Absent
  BY <1>2, EndStep DEF ReadCached
<1>3. CASE d # Absent
  <2>1. [got[p] EXCEPT ![o] = d] \in Objects
    BY ZenonT(120), <1>1 DEF IInv, TypeOK, Objects
  <2>2. LockIsHeld' /\ CopyIsCurrent' /\ FloorsCover'
    BY <1>0, <1>3, QuietStep DEF ReadCached, Phases, HoldPhases
  <2>3. TypeOK'
    BY ZenonT(120), <1>3, <2>1 DEF IInv, TypeOK, ReadCached, Goto, Phases
  <2>4. (\A q \in Proc : CommandOK(q))' /\ PinCovers'
    BY <1>0, <1>3 DEF IInv, TypeOK, CommandOK, IsImport, PinCovers, ReadCached,
                      Goto, AcceptedPhases
  <2> QED BY <2>2, <2>3, <2>4 DEF IInv
<1> QED BY <1>2, <1>3

LEMMA VerifyStep == ASSUME IInv, NEW p \in Proc, Verify(p) PROVE IInv'
<1> USE DEF locals
<1>1. CASE ~ChainIsGood(p)
  BY <1>1, EndStep DEF Verify
<1>2. CASE ChainIsGood(p)
  <2>1. /\ got[p].timestamp \in Timestamp /\ got[p].snapshot \in Snapshot
        /\ got[p].timestamp.ts >= pin[p].ts
        /\ got[p].snapshot.snap >= pin[p].snap
    BY <1>2 DEF IInv, TypeOK, Objects, Verify, ChainIsGood
  <2>2. LockIsHeld' /\ CopyIsCurrent' /\ FloorsCover'
    BY <1>2, QuietStep DEF Verify, Phases, HoldPhases
  <2>3. TypeOK'
    BY <1>2 DEF IInv, TypeOK, Verify, Goto, Phases
  <2>4. (\A q \in Proc : CommandOK(q))' /\ PinCovers'
    BY <1>2, <2>1 DEF IInv, TypeOK, CommandOK, IsImport, PinCovers, Verify,
                      Goto, AcceptedPhases
  <2> QED BY <2>2, <2>3, <2>4 DEF IInv
<1> QED BY <1>1, <1>2

LEMMA NextPackageStep == ASSUME IInv, NEW p \in Proc, NextPackage(p) PROVE IInv'
<1> USE DEF store
<1>1. LockIsHeld' /\ CopyIsCurrent' /\ FloorsCover'
  BY QuietStep DEF NextPackage, Phases, HoldPhases
<1>2. TypeOK'
  BY ConstantFacts DEF IInv, TypeOK, NextPackage, Goto, Phases
<1>3. (\A q \in Proc : CommandOK(q))' /\ PinCovers'
  BY DEF IInv, TypeOK, CommandOK, IsImport, PinCovers, NextPackage, Goto,
         AcceptedPhases
<1> QED BY <1>1, <1>2, <1>3 DEF IInv

LEMMA NextIInv == ASSUME IInv, [Next]_vars PROVE IInv'
<1>1. CASE UNCHANGED vars
  BY <1>1 DEF vars, store, locals, history, IInv, TypeOK, LockIsHeld,
              CopyIsCurrent, CommandOK, IsImport, FloorsCover, PinCovers
<1>2. ASSUME NEW p \in Proc,
             LockTimeout(p) \/ Refused(p) \/ Finish(p) \/ Crash(p)
      PROVE  IInv'
  BY <1>2, EndStep DEF LockTimeout, Refused, Finish, Crash
<1> QED
  BY <1>1, <1>2, StartStep, LockStep, ImportStep, RaiseStep, ReadPinStep,
     FetchStep, ReadCachedStep, VerifyStep, NextPackageStep
     DEF Next, Step

-----------------------------------------------------------------------------
(* The theorems.                                                            *)

\* Every variable has its type, and the lock and the copies are as described.
THEOREM TypeCorrect == Spec => []TypeOK
BY InitIInv, NextIInv, PTL DEF Spec, IInv

\* What a write does to the store.
LEMMA WritesAreLocal ==
  ASSUME IInv, [Next]_vars
  PROVE  \/ UNCHANGED pins
         \/ \E p \in Proc :
              /\ command[p].registry \in Registry
              /\ \A q \in Registry \ {command[p].registry} : pins'[q] = pins[q]
              /\ \/ /\ phase[p] = "writeImport" /\ IsImport(p)
                    /\ pin[p] \in Pin
                    /\ pins'[command[p].registry] =
                         ImportedPin(p, pins[command[p].registry])
                 \/ /\ phase[p] = "writeRaise"
                    /\ pins[command[p].registry] \in Pin
                    /\ pins'[command[p].registry] =
                         RaisedPin(p, pins[command[p].registry])
<1>1. ASSUME NEW p \in Proc, WriteImport(p) PROVE
        \/ UNCHANGED pins
        \/ /\ command[p].registry \in Registry
           /\ \A q \in Registry \ {command[p].registry} : pins'[q] = pins[q]
           /\ phase[p] = "writeImport" /\ IsImport(p) /\ pin[p] \in Pin
           /\ pins'[command[p].registry] =
                ImportedPin(p, pins[command[p].registry])
  <2>1. copy[p] = pins /\ command[p].registry \in Registry
    BY <1>1, WriterIsAlone DEF IInv, CommandOK, WriteImport, WritePhases
  <2> QED BY <1>1, <2>1 DEF IInv, TypeOK, CommandOK, WriteImport
<1>2. ASSUME NEW p \in Proc, WriteRaise(p) PROVE
        \/ UNCHANGED pins
        \/ /\ command[p].registry \in Registry
           /\ \A q \in Registry \ {command[p].registry} : pins'[q] = pins[q]
           /\ phase[p] = "writeRaise"
           /\ pins[command[p].registry] \in Pin
           /\ pins'[command[p].registry] =
                RaisedPin(p, pins[command[p].registry])
  <2>1. copy[p] = pins /\ command[p].registry \in Registry
    BY <1>2, WriterIsAlone DEF IInv, CommandOK, WriteRaise, WritePhases
  <2> QED BY <1>2, <2>1 DEF IInv, TypeOK, WriteRaise
<1> QED
  BY <1>1, <1>2
     DEF Next, Step, vars, store, StartImport, StartMaterialize,
         AcquireTrustLock, LockTimeout, LoadStore, ReadPin, Refused, Verify,
         NextPackage, Finish, Fetch, ReadCached, Crash

\* While a registry keeps its anchor its floors only rise.
THEOREM FloorsOnlyRise == Spec => FloorsNeverFall
<1> DEFINE Rise ==
      \A r \in Registry :
       /\ pins[r] # Absent
       /\ pins'[r] # Absent => pins'[r].anchor = pins[r].anchor
       => /\ pins'[r] # Absent
          /\ pins'[r].ts >= pins[r].ts
          /\ pins'[r].snap >= pins[r].snap
<1>1. ASSUME IInv, [Next]_vars PROVE [Rise]_vars
  <2> SUFFICES ASSUME NEW r \in Registry, pins[r] # Absent,
                      pins'[r] # Absent => pins'[r].anchor = pins[r].anchor
               PROVE  /\ pins'[r] # Absent
                      /\ pins'[r].ts >= pins[r].ts
                      /\ pins'[r].snap >= pins[r].snap
    OBVIOUS
  <2>1. /\ pins[r] \in Pin /\ pins[r].ts \in Int /\ pins[r].snap \in Int
    BY <1>1 DEF IInv, TypeOK, Pin
  <2>2. CASE pins'[r] = pins[r]
    BY <2>1, <2>2
  <2>3. CASE pins'[r] # pins[r]
    <3> PICK p \in Proc :
          /\ command[p].registry = r
          /\ \/ /\ phase[p] = "writeImport" /\ pin[p] \in Pin
                /\ pins'[r] = ImportedPin(p, pins[r])
             \/ phase[p] = "writeRaise" /\ pins'[r] = RaisedPin(p, pins[r])
      BY <1>1, <2>3, WritesAreLocal
    <3>1. CASE pins'[r] = ImportedPin(p, pins[r]) /\ pin[p] \in Pin
      <4>1. ImportedPin(p, pins[r]) \in Pin
        BY <2>1, <3>1 DEF ImportedPin, Pin
      <4>2. pins'[r] # Absent
        BY <3>1, <4>1, ConstantFacts
      <4>3. pins[r].anchor = pin[p].anchor
        BY <3>1, <4>2 DEF ImportedPin
      <4>4. ImportedPin(p, pins[r]) =
              [anchor |-> pin[p].anchor, ts |-> pins[r].ts,
               snap |-> pins[r].snap]
        BY <4>3 DEF ImportedPin
      <4> QED BY <2>1, <3>1, <4>2, <4>4
    <3>2. CASE phase[p] = "writeRaise" /\ pins'[r] = RaisedPin(p, pins[r])
      BY <1>1, <2>1, <3>2, RaisedFacts, ConstantFacts
    <3> QED BY <3>1, <3>2
  <2> QED BY <2>2, <2>3
<1>2. ASSUME IInv, [Next]_vars PROVE IInv'
  BY <1>2, NextIInv
<1> QED BY InitIInv, <1>1, <1>2, PTL DEF Spec, FloorsNeverFall

\* Nobody takes another command's import back.
THEOREM ImportsStay == Spec => ImportsAreNotLost
<1> DEFINE Kept ==
      \A r \in Registry : pins'[r] # pins[r] =>
       \E p \in Proc :
         /\ phase[p] \in WritePhases
         /\ command[p].registry = r
         /\ \/ pins[r] # Absent /\ pins'[r].anchor = pins[r].anchor
            \/ IsImport(p) /\ pins'[r].anchor = pin[p].anchor
<1>1. ASSUME IInv, [Next]_vars PROVE [Kept]_vars
  <2> SUFFICES ASSUME NEW r \in Registry, pins'[r] # pins[r]
               PROVE  \E p \in Proc :
                        /\ phase[p] \in WritePhases
                        /\ command[p].registry = r
                        /\ \/ /\ pins[r] # Absent
                              /\ pins'[r].anchor = pins[r].anchor
                           \/ IsImport(p) /\ pins'[r].anchor = pin[p].anchor
    OBVIOUS
  <2> PICK p \in Proc :
        /\ command[p].registry = r
        /\ \/ /\ phase[p] = "writeImport" /\ IsImport(p) /\ pin[p] \in Pin
              /\ pins'[r] = ImportedPin(p, pins[r])
           \/ /\ phase[p] = "writeRaise" /\ pins[r] \in Pin
              /\ pins'[r] = RaisedPin(p, pins[r])
    BY <1>1, WritesAreLocal
  <2>1. CASE pins'[r] = ImportedPin(p, pins[r]) /\ IsImport(p)
             /\ phase[p] = "writeImport"
    BY <2>1 DEF ImportedPin, WritePhases
  <2>2. CASE /\ phase[p] = "writeRaise" /\ pins[r] \in Pin
             /\ pins'[r] = RaisedPin(p, pins[r])
    BY <1>1, <2>2, RaisedFacts, ConstantFacts DEF WritePhases
  <2> QED BY <2>1, <2>2
<1>2. ASSUME IInv, [Next]_vars PROVE IInv'
  BY <1>2, NextIInv
<1> QED BY InitIInv, <1>1, <1>2, PTL DEF Spec, ImportsAreNotLost

\* No run accepts metadata older than what had been acknowledged when it read
\* its pin.
THEOREM AcceptedNeverRollsBack == Spec => []NoRollback
<1>1. ASSUME IInv PROVE NoRollback
  <2> SUFFICES ASSUME NEW p \in Proc, phase[p] \in AcceptedPhases
               PROVE  /\ got[p].timestamp.ts >= seen[p].ts
                      /\ got[p].snapshot.snap >= seen[p].snap
    BY DEF NoRollback
  <2>1. /\ pin[p].ts \in Int /\ pin[p].snap \in Int
        /\ got[p].timestamp.ts \in Int /\ got[p].snapshot.snap \in Int
        /\ seen[p].ts \in Int /\ seen[p].snap \in Int
    BY <1>1 DEF IInv, TypeOK, CommandOK, Pin, Timestamp, Snapshot, Version,
                Floors
  <2> QED BY <1>1, <2>1 DEF IInv, CommandOK, PinCovers
<1> QED BY InitIInv, NextIInv, <1>1, PTL DEF Spec

-----------------------------------------------------------------------------
(* The store implements the ledger.                                         *)

Calls == [p \in Proc |-> Pending(p)]
View(p) == <<phase[p], command[p], pin[p], got[p]>>

LEMMA InitImplements == ASSUME Init PROVE Ledger!LedgerInit
<1>1. \A p \in Proc : Pending(p) = Ledger!Idle
  BY DEF Init, Pending, Doing, Ledger!Idle, Ledger!Call
<1> QED
  BY <1>1 DEF Init, Ledger!LedgerInit

\* A step of one process is one of its call.
LEMMA CallBecomes ==
  ASSUME NEW p \in Proc, NEW next, Pending(p)' = next,
         \A q \in Proc \ {p} : View(q)' = View(q)
  PROVE  Ledger!Becomes(p, next)
<1>1. \A q \in Proc \ {p} : Pending(q)' = Pending(q)
  BY DEF View, Pending, Doing, Metadata, Versions
<1> QED
  BY <1>1 DEF Ledger!Becomes

LEMMA CallStays ==
  ASSUME NEW p \in Proc, Pending(p)' = Pending(p),
         \A q \in Proc \ {p} : View(q)' = View(q)
  PROVE  UNCHANGED Calls
<1>1. \A q \in Proc \ {p} : Pending(q)' = Pending(q)
  BY DEF View, Pending, Doing, Metadata, Versions
<1> QED
  BY <1>1 DEF Calls

LEMMA OthersStay ==
  ASSUME IInv, NEW p \in Proc,
         \E next : Goto(p, next),
         command' = command \/ \E x : command' = [command EXCEPT ![p] = x],
         pin' = pin \/ \E x : pin' = [pin EXCEPT ![p] = x],
         got' = got \/ \E x : got' = [got EXCEPT ![p] = x]
  PROVE  \A q \in Proc \ {p} : View(q)' = View(q)
BY DEF IInv, TypeOK, Goto, View

\* A command that ends leaves the ledger, if it was about to do something there.
LEMMA EndLeaves ==
  ASSUME IInv, NEW p \in Proc, End(p)
  PROVE  /\ Ledger!Becomes(p, Ledger!Idle)
         /\ UNCHANGED pins => [Ledger!LedgerNext]_(Ledger!lvars)
<1>1. Pending(p)' = Ledger!Idle
  BY DEF IInv, TypeOK, End, Goto, Pending, Doing, Ledger!Idle, Ledger!Call
<1>2. \A q \in Proc \ {p} : View(q)' = View(q)
  BY OthersStay DEF End
<1>3. Ledger!Becomes(p, Ledger!Idle)
  BY <1>1, <1>2, CallBecomes
<1>4. CASE Doing(p) = "idle"
  <2>1. Pending(p) = Ledger!Idle
    BY <1>4 DEF Pending, Ledger!Idle, Ledger!Call
  <2>2. UNCHANGED Calls
    BY <1>1, <1>2, <2>1, CallStays
  <2> QED
    BY <1>3, <2>2 DEF Calls, Ledger!lvars
<1>5. CASE Doing(p) # "idle"
  <2>1. Calls[p].step # "idle"
    BY <1>5 DEF Calls, Pending
  <2>2. UNCHANGED pins => Ledger!Leave(p)
    BY <1>3, <2>1 DEF Calls, Ledger!Leave
  <2> QED
    BY <1>3, <2>2 DEF Ledger!LedgerNext
<1> QED
  BY <1>3, <1>4, <1>5

LEMMA ImportImplements ==
  ASSUME IInv, NEW p \in Proc, WriteImport(p)
  PROVE  [Ledger!LedgerNext]_(Ledger!lvars)
<1> DEFINE r == command[p].registry
<1>1. End(p) /\ phase[p] = "writeImport"
  BY DEF WriteImport
<1>2. CASE UNCHANGED pins
  BY <1>1, <1>2, EndLeaves
<1>3. CASE pins' # pins
  <2>1. copy[p] = pins /\ r \in Registry /\ pin[p] \in Pin
    BY <1>1, WriterIsAlone DEF IInv, CommandOK, WritePhases
  <2>2. pins' = [pins EXCEPT ![r] = ImportedPin(p, @)]
    BY <1>3, <2>1 DEF WriteImport
  <2>3. pins[r] \in Pin \cup {Absent}
    BY <2>1 DEF IInv, TypeOK
  <2>4. ImportedPin(p, pins[r]) = Ledger!Imported(pins[r], pin[p])
    BY <2>1, <2>3 DEF ImportedPin, Ledger!Imported, Pin
  <2>5. pins' = [pins EXCEPT ![r] = Ledger!Imported(@, pin[p])]
    BY <2>2, <2>4
  <2>6. /\ Calls[p].step = "importing" /\ Calls[p].registry = r
        /\ Calls[p].content = pin[p]
    BY <1>1 DEF Calls, Pending, Doing
  <2>7. Ledger!ImportTakesEffect(p)
    BY <1>1, <2>5, <2>6, EndLeaves DEF Calls, Ledger!ImportTakesEffect
  <2> QED
    BY <2>7 DEF Ledger!LedgerNext
<1> QED
  BY <1>2, <1>3

LEMMA RaiseImplements ==
  ASSUME IInv, NEW p \in Proc, WriteRaise(p)
  PROVE  [Ledger!LedgerNext]_(Ledger!lvars)
<1> DEFINE r == command[p].registry
           new == [pins EXCEPT ![r] = Ledger!Recorded(@, Metadata(p))]
<1>1. phase[p] = "writeRaise" /\ copy[p] = pins /\ r \in Registry
  BY WriterIsAlone DEF IInv, CommandOK, WriteRaise, WritePhases
<1>2. Ledger!Recorded(pins[r], Metadata(p)) =
        IF pins[r] = Absent THEN Absent ELSE RaisedPin(p, pins[r])
  BY DEF Ledger!Recorded, Ledger!Above, Metadata, RaisedPin, Raised, MaxOf
<1>3. new = IF pins[r] = Absent THEN pins
            ELSE [pins EXCEPT ![r] = RaisedPin(p, pins[r])]
  BY <1>1, <1>2 DEF IInv, TypeOK
<1>4. /\ Calls[p].step = "accepted" /\ Calls[p].registry = r
      /\ Calls[p].content = Metadata(p)
  BY <1>1 DEF Calls, Pending, Doing
<1>5. CASE End(p) /\ pins' = pins
  BY <1>5, EndLeaves
<1>6. CASE End(p) /\ pins' = new
  <2>1. Ledger!RaiseTakesEffect(p)
    BY <1>4, <1>6, EndLeaves DEF Calls, Ledger!RaiseTakesEffect
  <2> QED
    BY <2>1 DEF Ledger!LedgerNext
<1>7. CASE pins' = new /\ Goto(p, "commit") /\ UNCHANGED <<command, pin, got>>
  <2>1. Pending(p)' = Ledger!Call("recorded", r, Metadata(p))
    BY <1>7 DEF IInv, TypeOK, Goto, Pending, Doing, Metadata, Versions, Ledger!Call
  <2>2. Ledger!Becomes(p, Ledger!Call("recorded", r, Metadata(p)))
    BY <1>7, <2>1, OthersStay, CallBecomes
  <2>3. Ledger!RaiseTakesEffect(p)
    BY <1>4, <1>7, <2>2 DEF Calls, Ledger!RaiseTakesEffect
  <2> QED
    BY <2>3 DEF Ledger!LedgerNext
<1> QED
  BY <1>1, <1>3, <1>5, <1>6, <1>7 DEF WriteRaise

LEMMA StartImplements ==
  ASSUME IInv, NEW p \in Proc, NEW r \in Registry
  PROVE  /\ (\E a \in Anchor : StartImport(p, r, a)) =>
              [Ledger!LedgerNext]_(Ledger!lvars)
         /\ (\E name \in Commands : StartMaterialize(p, r, name)) =>
              [Ledger!LedgerNext]_(Ledger!lvars)
<1>1. ASSUME NEW a \in Anchor, StartImport(p, r, a)
      PROVE  Ledger!LedgerNext
  <2> DEFINE new == [anchor |-> a, ts |-> 0, snap |-> 0]
  <2>1. new \in Pin
    BY TrustAssumption DEF Pin
  <2>2. Calls[p] = Ledger!Idle
    BY <1>1 DEF StartImport, Calls, Pending, Doing, Ledger!Idle, Ledger!Call
  <2>3. Pending(p)' = Ledger!Call("importing", r, new)
    BY <1>1 DEF IInv, TypeOK, StartImport, Goto, Pending, Doing, Ledger!Call
  <2>4. \A q \in Proc \ {p} : View(q)' = View(q)
    BY <1>1, OthersStay DEF StartImport
  <2>5. Ledger!Import(p, r, new)
    BY <1>1, <2>2, <2>3, <2>4, CallBecomes
       DEF Calls, StartImport, store, Ledger!Import
  <2> QED
    BY <2>1, <2>5 DEF Ledger!LedgerNext
<1>2. ASSUME NEW name \in Commands, StartMaterialize(p, r, name)
      PROVE  UNCHANGED Ledger!lvars
  <2>1. Pending(p)' = Pending(p)
    BY <1>2 DEF IInv, TypeOK, StartMaterialize, Goto, Pending, Doing
  <2>2. \A q \in Proc \ {p} : View(q)' = View(q)
    BY <1>2, OthersStay DEF StartMaterialize
  <2> QED
    BY <1>2, <2>1, <2>2, CallStays DEF Calls, StartMaterialize, store, Ledger!lvars
<1> QED
  BY <1>1, <1>2

\* Steps within one call.
LEMMA WithinImplements ==
  ASSUME IInv, NEW p \in Proc,
         \/ AcquireTrustLock(p) \/ LoadStore(p) \/ NextPackage(p)
         \/ \E o \in {"root", "timestamp", "snapshot"} : Fetch(p, o) \/ ReadCached(p, o)
  PROVE  [Ledger!LedgerNext]_(Ledger!lvars)
<1>1. CASE AcquireTrustLock(p) \/ LoadStore(p)
  <2>1. Pending(p)' = Pending(p)
    BY <1>1 DEF IInv, TypeOK, AcquireTrustLock, LoadStore, locals, Goto, Pending,
                Doing, Metadata, Versions
  <2>2. \A q \in Proc \ {p} : View(q)' = View(q)
    BY <1>1, OthersStay DEF AcquireTrustLock, LoadStore, locals
  <2> QED
    BY <1>1, <2>1, <2>2, CallStays
       DEF Calls, AcquireTrustLock, LoadStore, store, Ledger!lvars
<1>2. ASSUME NEW o \in {"root", "timestamp", "snapshot"}, Fetch(p, o)
      PROVE  UNCHANGED Ledger!lvars
  <2>1. Pending(p)' = Pending(p)
    BY <1>2 DEF IInv, TypeOK, Fetch, locals, Goto, Pending, Doing
  <2>2. \A q \in Proc \ {p} : View(q)' = View(q)
    BY <1>2, OthersStay DEF Fetch, locals
  <2> QED
    BY <1>2, <2>1, <2>2, CallStays DEF Calls, Fetch, Ledger!lvars
<1>3. ASSUME NEW o \in {"root", "timestamp", "snapshot"}, ReadCached(p, o),
             cache[command[p].registry][o] # Absent
      PROVE  UNCHANGED Ledger!lvars
  <2>1. Pending(p)' = Pending(p)
    BY <1>3 DEF IInv, TypeOK, ReadCached, Goto, Pending, Doing
  <2>2. \A q \in Proc \ {p} : View(q)' = View(q)
    BY <1>3, OthersStay DEF ReadCached
  <2> QED
    BY <1>3, <2>1, <2>2, CallStays DEF Calls, ReadCached, Ledger!lvars
<1>4. ASSUME NEW o \in {"root", "timestamp", "snapshot"}, ReadCached(p, o),
             cache[command[p].registry][o] = Absent
      PROVE  [Ledger!LedgerNext]_(Ledger!lvars)
  BY <1>4, EndLeaves DEF ReadCached
<1>5. CASE NextPackage(p)
  <2>1. Calls[p].step # "idle"
    BY <1>5 DEF NextPackage, Calls, Pending, Doing
  <2>2. Pending(p)' = Ledger!Idle
    BY <1>5 DEF IInv, TypeOK, NextPackage, Goto, Pending, Doing, Ledger!Idle,
                Ledger!Call
  <2>3. \A q \in Proc \ {p} : View(q)' = View(q)
    BY <1>5, OthersStay DEF NextPackage
  <2>4. Ledger!Leave(p)
    BY <1>5, <2>1, <2>2, <2>3, CallBecomes DEF Calls, NextPackage, store, Ledger!Leave
  <2> QED
    BY <2>4 DEF Ledger!LedgerNext
<1> QED
  BY <1>1, <1>2, <1>3, <1>4, <1>5

LEMMA ReadPinImplements ==
  ASSUME IInv, NEW p \in Proc, ReadPin(p)
  PROVE  [Ledger!LedgerNext]_(Ledger!lvars)
<1> DEFINE r == command[p].registry
<1>1. CASE pins[r] = Absent
  BY <1>1, EndLeaves DEF ReadPin
<1>2. CASE pins[r] # Absent
  <2>1. r \in Registry
    BY DEF IInv, CommandOK, ReadPin
  <2>2. Calls[p] = Ledger!Idle
    BY DEF ReadPin, Calls, Pending, Doing, Ledger!Idle, Ledger!Call
  <2>3. Pending(p)' = Ledger!Call("looked", r, pins[r])
    BY <1>2 DEF IInv, TypeOK, ReadPin, Goto, Pending, Doing, Ledger!Call
  <2>4. \A q \in Proc \ {p} : View(q)' = View(q)
    BY <1>2, OthersStay DEF ReadPin
  <2>5. Ledger!Look(p, r)
    BY <1>2, <2>2, <2>3, <2>4, CallBecomes DEF Calls, ReadPin, Ledger!Look
  <2> QED
    BY <2>1, <2>5 DEF Ledger!LedgerNext
<1> QED
  BY <1>1, <1>2

LEMMA VerifyImplements ==
  ASSUME IInv, NEW p \in Proc, Verify(p)
  PROVE  [Ledger!LedgerNext]_(Ledger!lvars)
<1> DEFINE r == command[p].registry
<1>1. CASE ~ChainIsGood(p)
  BY <1>1, EndLeaves DEF Verify
<1>2. CASE ChainIsGood(p)
  <2>1. /\ Goto(p, "lockRaise") /\ phase[p] = "load"
        /\ UNCHANGED <<command, pin, got, pins>>
    BY <1>2 DEF Verify, locals
  <2>2. /\ Calls[p].step = "looked" /\ Calls[p].registry = r
        /\ Calls[p].content = pin[p]
    BY <2>1 DEF Calls, Pending, Doing
  <2>3. /\ Metadata(p).anchor = pin[p].anchor
        /\ Metadata(p).ts >= pin[p].ts /\ Metadata(p).snap >= pin[p].snap
    BY <1>2 DEF Metadata, Versions, ChainIsGood
  <2>4. Metadata(p) \in Pin
    <3>1. pin[p] \in Pin
      BY <2>1 DEF IInv, CommandOK
    <3>2. got[p].timestamp \in Timestamp /\ got[p].snapshot \in Snapshot
      BY <1>2 DEF IInv, TypeOK, Objects, Verify
    <3> QED
      BY <2>3, <3>1, <3>2, TrustAssumption
         DEF Metadata, Versions, Pin, Timestamp, Snapshot, Version
  <2>5. Pending(p)' = Ledger!Call("accepted", r, Metadata(p))
    BY <2>1 DEF IInv, TypeOK, Goto, Pending, Doing, Metadata, Versions, Ledger!Call
  <2>6. \A q \in Proc \ {p} : View(q)' = View(q)
    BY <2>1, OthersStay
  <2>7. Ledger!Accept(p, Metadata(p))
    BY <2>1, <2>2, <2>3, <2>5, <2>6, CallBecomes DEF Calls, Ledger!Accept
  <2> QED
    BY <2>4, <2>7 DEF Ledger!LedgerNext
<1> QED
  BY <1>1, <1>2

LEMMA NextImplements ==
  ASSUME IInv, [Next]_vars PROVE [Ledger!LedgerNext]_(Ledger!lvars)
<1>1. CASE UNCHANGED vars
  BY <1>1 DEF vars, store, locals, Pending, Doing, Metadata, Versions, Ledger!lvars
<1>2. ASSUME NEW p \in Proc,
             LockTimeout(p) \/ Refused(p) \/ Finish(p) \/ Crash(p)
      PROVE  [Ledger!LedgerNext]_(Ledger!lvars)
  BY <1>2, EndLeaves DEF LockTimeout, Refused, Finish, Crash
<1> QED
  BY <1>1, <1>2, StartImplements, WithinImplements, ImportImplements,
     RaiseImplements, ReadPinImplements, VerifyImplements
     DEF Next, Step

\* Whatever the processes of a user do at once with the trust store, it is as if
\* each import, each raise and each look at a pin were one step on one ledger,
\* taken while the call lasts, and as if a raise that failed, or whose process
\* was killed, had been taken or not.
THEOREM StoreImplementsLedger == Spec => ImplementsLedger
BY InitIInv, NextIInv, InitImplements, NextImplements, PTL
   DEF Spec, ImplementsLedger, Ledger!LedgerSpec
=============================================================================
