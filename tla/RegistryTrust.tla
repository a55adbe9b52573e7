---------------------------- MODULE RegistryTrust ----------------------------
(***************************************************************************)
(* The trust store of one PAFIO_HOME (PafioSecurity/RegistryTrust.cpp) and *)
(* the commands of several pafio processes that read and write it:         *)
(*                                                                         *)
(*   pafio registry trust import      ImportRegistryTrustDescriptor        *)
(*   resolving a registry package     MaterializeRegistryPackage up to     *)
(*                                    RaiseRegistryTrustFloors             *)
(*                                                                         *)
(* with the metadata objects a run downloads, which pass through files of  *)
(* the index cache that all processes share (LoadRegistryObjectText), and  *)
(* the chain of digests and versions that VerifyPackageChain follows.      *)
(*                                                                         *)
(* A registry, or a mirror of it, may serve any object of its history at   *)
(* any time.  An object is what the next one is checked against: the root  *)
(* is its digest, the timestamp its version and the snapshot it names.     *)
(* The config, checkpoint, targets and index documents that hang off the   *)
(* snapshot are one more way for a run to be refused.                      *)
(***************************************************************************)
EXTENDS Integers, FiniteSets, TLC

CONSTANTS
  Proc,         \* pafio processes, each runs one command after another
  Registry,     \* normalized http(s) registry roots
  Anchor,       \* digests of root.json: root_sha256
  MaxVersion,   \* bound on the versions of timestamp and snapshot
  Served,       \* the history of a registry: its timestamp documents
  Commands,     \* commands in use, a subset of {"import", "online", "offline"}
  Faults,       \* what may go wrong, a subset of {"io", "fetch", "crash"}
  NoOne,        \* no process
  Absent        \* no pin, no object

ASSUME TrustAssumption ==
  /\ MaxVersion \in Nat \ {0}
  /\ Commands \subseteq {"import", "online", "offline"}
  /\ Faults \subseteq {"io", "fetch", "crash"}
  /\ NoOne \notin Proc
  /\ Absent \notin Registry \cup Anchor \cup {"import", "online", "offline"}

Version == 1..MaxVersion

\* The fields of RegistryTrustPin that decide something.
Floors == [ts : 0..MaxVersion, snap : 0..MaxVersion]
Pin == [anchor : Anchor, ts : 0..MaxVersion, snap : 0..MaxVersion]
Zero == [ts |-> 0, snap |-> 0]

\* The metadata documents, each signed with keys of the root named anchor.
Timestamp == [anchor : Anchor, ts : Version, snap : Version]
Snapshot == [anchor : Anchor, snap : Version]
Objects == [root : Anchor \cup {Absent},
            timestamp : Timestamp \cup {Absent},
            snapshot : Snapshot \cup {Absent}]
NoObjects == [root |-> Absent, timestamp |-> Absent, snapshot |-> Absent]

ASSUME ObjectsAssumption == Absent \notin Pin \cup Timestamp \cup Snapshot

ASSUME ServedAssumption == Served \subseteq Timestamp

Document(o) ==
  IF o = "root" THEN Anchor
  ELSE IF o = "timestamp" THEN Served
  ELSE {[anchor |-> t.anchor, snap |-> t.snap] : t \in Served}

\* The order in which MaterializeRegistryPackage loads them.
LoadOrder == <<"root", "timestamp", "snapshot">>

VARIABLES
  pins,       \* registry-trust.json: [Registry -> its pin]
  cache,      \* the index cache: [Registry -> Objects]
  trustLock,  \* holder of the flock on the trust store
  phase,      \* the operation a process performs next
  command,    \* [name, registry] of a process
  pin,        \* materialization: the pin it read; import: the pin it writes
  got,        \* materialization: the documents it loaded
  copy,       \* the pins a holder of the lock read
  learned,    \* history: the floors acknowledged under the current anchor
  seen        \* history: the floors acknowledged when a process read its pin

store == <<pins, cache, trustLock>>
locals == <<command, pin, got, copy>>
history == <<learned, seen>>
vars == <<store, phase, locals, history>>

Phases == {"idle", "readPin", "load", "readBack", "lockRaise",
           "loadRaise", "writeRaise", "commit", "lockImport", "loadImport",
           "writeImport"}

\* AcquireFileLock has returned and the guard is alive.
HoldPhases == {"loadRaise", "writeRaise", "loadImport", "writeImport"}
WritePhases == {"writeRaise", "writeImport"}
\* The metadata a process loaded was accepted.
AcceptedPhases == {"lockRaise", "loadRaise", "writeRaise", "commit"}

NoCommand == [name |-> Absent, registry |-> Absent]
IsImport(p) == command[p].name = "import"

TypeOK ==
  /\ pins \in [Registry -> Pin \cup {Absent}]
  /\ cache \in [Registry -> Objects]
  /\ trustLock \in Proc \cup {NoOne}
  /\ phase \in [Proc -> Phases]
  /\ command \in [Proc -> [name : Commands \cup {Absent},
                           registry : Registry \cup {Absent}]]
  /\ pin \in [Proc -> Pin \cup {Absent}]
  /\ got \in [Proc -> Objects]
  /\ copy \in [Proc -> [Registry -> Pin \cup {Absent}]]
  /\ learned \in [Registry -> Floors]
  /\ seen \in [Proc -> Floors]

NoCopy == [r \in Registry |-> Absent]

Init ==
  /\ pins = [r \in Registry |-> Absent]
  /\ cache = [r \in Registry |-> NoObjects]
  /\ trustLock = NoOne
  /\ phase = [p \in Proc |-> "idle"]
  /\ command = [p \in Proc |-> NoCommand]
  /\ pin = [p \in Proc |-> Absent]
  /\ got = [p \in Proc |-> NoObjects]
  /\ copy = [p \in Proc |-> NoCopy]
  /\ learned = [r \in Registry |-> Zero]
  /\ seen = [p \in Proc |-> Zero]

Goto(p, next) == phase' = [phase EXCEPT ![p] = next]

\* The command returns or throws; FileLockGuard's destructor, or the kernel,
\* releases the lock.
End(p) ==
  /\ Goto(p, "idle")
  /\ command' = [command EXCEPT ![p] = NoCommand]
  /\ pin' = [pin EXCEPT ![p] = Absent]
  /\ got' = [got EXCEPT ![p] = NoObjects]
  /\ copy' = [copy EXCEPT ![p] = NoCopy]
  /\ seen' = [seen EXCEPT ![p] = Zero]
  /\ trustLock' = IF trustLock = p THEN NoOne ELSE trustLock

MaxOf(m, n) == IF m >= n THEN m ELSE n
Raised(f, g) == [ts |-> MaxOf(f.ts, g.ts), snap |-> MaxOf(f.snap, g.snap)]

\* The versions TufVerifyResult returns for the documents of p.
Versions(p) == [ts |-> got[p].timestamp.ts, snap |-> got[p].snapshot.snap]

\* AtomicWriteFile's outcomes: done, failed, or failed after the rename.
WriteOutcomes == {"done"} \cup IF "io" \in Faults THEN {"lost", "landed"} ELSE {}

-----------------------------------------------------------------------------
(* The trust store's writers.                                               *)

\* A descriptor was fetched, its signature and validity window are good; one
\* that is not is refused before anything is read or written.  The descriptors
\* a platform publishes carry no floors.
StartImport(p, r, a) ==
  /\ "import" \in Commands
  /\ phase[p] = "idle"
  /\ command' = [command EXCEPT ![p] = [name |-> "import", registry |-> r]]
  /\ pin' = [pin EXCEPT ![p] = [anchor |-> a, ts |-> 0, snap |-> 0]]
  /\ Goto(p, "lockImport")
  /\ UNCHANGED <<store, got, copy, history>>

\* Variant: no exclusion (the guard of a build without flock).
AcquireTrustLock_NoExclusion(p) ==
  /\ phase[p] \in {"lockImport", "lockRaise"}
  /\ trustLock' = p
  /\ Goto(p, IF phase[p] = "lockImport" THEN "loadImport" ELSE "loadRaise")
  /\ UNCHANGED <<pins, cache, locals, history>>

AcquireTrustLock(p) ==
  /\ phase[p] \in {"lockImport", "lockRaise"}
  /\ trustLock = NoOne
  /\ trustLock' = p
  /\ Goto(p, IF phase[p] = "lockImport" THEN "loadImport" ELSE "loadRaise")
  /\ UNCHANGED <<pins, cache, locals, history>>

\* 30 seconds of polling passed: LockHeldError ends the command.
LockTimeout(p) ==
  /\ phase[p] \in {"lockImport", "lockRaise"}
  /\ trustLock \notin {NoOne, p}
  /\ End(p)
  /\ UNCHANGED <<pins, cache, learned>>

LoadStore(p) ==
  /\ phase[p] \in {"loadImport", "loadRaise"}
  /\ copy' = [copy EXCEPT ![p] = pins]
  /\ Goto(p, IF phase[p] = "loadImport" THEN "writeImport" ELSE "writeRaise")
  /\ UNCHANGED <<store, command, pin, got, history>>

\* "Reimporting the same trust root keeps the learned replay floors".
ImportedPin(p, old) ==
  IF old # Absent /\ old.anchor = pin[p].anchor
    THEN [anchor |-> pin[p].anchor, ts |-> old.ts, snap |-> old.snap]
    ELSE pin[p]

WriteImport(p) ==
  LET r == command[p].registry
      new == [copy[p] EXCEPT ![r] = ImportedPin(p, @)]
  IN /\ phase[p] = "writeImport"
     /\ \E w \in WriteOutcomes :
          /\ pins' = IF w = "lost" THEN pins ELSE new
          /\ learned' = IF \/ w = "lost"
                           \/ /\ copy[p][r] # Absent
                              /\ copy[p][r].anchor = new[r].anchor
                          THEN learned ELSE [learned EXCEPT ![r] = Zero]
     /\ End(p)
     /\ UNCHANGED cache

\* Variant: the versions replace the floors.
RaisedPin_Replaces(p, old) ==
  [anchor |-> old.anchor, ts |-> Versions(p).ts, snap |-> Versions(p).snap]

RaisedPin(p, old) ==
  LET f == Raised([ts |-> old.ts, snap |-> old.snap], Versions(p))
  IN [anchor |-> old.anchor, ts |-> f.ts, snap |-> f.snap]

\* RaiseRegistryTrustFloors after its load: nothing is written when the
\* registry has no pin any more or its floors are as high already.  The pin it
\* raises is the one it finds, whichever that is.
WriteRaise(p) ==
  LET r == command[p].registry
      old == copy[p][r]
      new == IF old = Absent THEN copy[p]
             ELSE [copy[p] EXCEPT ![r] = RaisedPin(p, old)]
      acknowledged ==
        IF old # Absent /\ old.anchor = pin[p].anchor
          THEN [learned EXCEPT ![r] = Raised(@, Versions(p))] ELSE learned
  IN /\ phase[p] = "writeRaise"
     /\ \/ /\ pins' = new
           /\ learned' = acknowledged
           /\ trustLock' = NoOne
           /\ copy' = [copy EXCEPT ![p] = NoCopy]
           /\ Goto(p, "commit")
           /\ UNCHANGED <<command, pin, got, seen>>
        \/ /\ "io" \in Faults
           /\ new # copy[p]
           /\ pins' \in {pins, new}
           /\ End(p)
           /\ UNCHANGED learned
     /\ UNCHANGED cache

-----------------------------------------------------------------------------
(* A materialization.                                                       *)

StartMaterialize(p, r, name) ==
  /\ name \in Commands \ {"import"}
  /\ phase[p] = "idle"
  /\ command' = [command EXCEPT ![p] = [name |-> name, registry |-> r]]
  /\ Goto(p, "readPin")
  /\ UNCHANGED <<store, pin, got, copy, history>>

\* ResolveRegistryTrustPin: one read of the store, without its lock.
ReadPin(p) ==
  LET r == command[p].registry
  IN /\ phase[p] = "readPin"
     /\ IF pins[r] = Absent
          THEN End(p)
          ELSE /\ pin' = [pin EXCEPT ![p] = pins[r]]
               /\ seen' = [seen EXCEPT ![p] = learned[r]]
               /\ Goto(p, "load")
               /\ UNCHANGED <<trustLock, command, got, copy>>
     /\ UNCHANGED <<pins, cache, learned>>

\* The document a process loads next: the first it does not have.  Online, one
\* that an earlier package of the run loaded is not loaded again.
IsNext(p, o) ==
  /\ got[p][o] = Absent
  /\ \A i, j \in 1..3 :
       i < j /\ LoadOrder[j] = o => got[p][LoadOrder[i]] # Absent

\* FetchUrlToFile: the download is renamed over the cached document.
Fetch(p, o) ==
  LET r == command[p].registry
  IN /\ phase[p] = "load"
     /\ command[p].name = "online"
     /\ IsNext(p, o)
     /\ \E d \in Document(o) :
          cache' = [cache EXCEPT ![r] = [@ EXCEPT ![o] = d]]
     /\ Goto(p, "readBack")
     /\ UNCHANGED <<pins, trustLock, locals, history>>

\* The text is read from the cached file, whoever wrote it last; offline it is
\* all there is.
ReadCached(p, o) ==
  LET d == cache[command[p].registry][o]
  IN /\ phase[p] = IF command[p].name = "online" THEN "readBack" ELSE "load"
     /\ IsNext(p, o)
     /\ IF d # Absent
          THEN /\ got' = [got EXCEPT ![p] = [@ EXCEPT ![o] = d]]
               /\ Goto(p, "load")
               /\ UNCHANGED <<trustLock, command, pin, copy, seen>>
          ELSE End(p)
     /\ UNCHANGED <<pins, cache, learned>>

\* A download fails, a document has expired or one of the documents that hang
\* off the snapshot does not have the digest it names.
Refused(p) ==
  /\ "fetch" \in Faults
  /\ phase[p] \in {"load", "readBack"}
  /\ End(p)
  /\ UNCHANGED <<pins, cache, learned>>

\* Variant: the floors are not looked at.
ChainIsGood_AnyVersion(p) ==
  /\ got[p].root = pin[p].anchor
  /\ got[p].timestamp.anchor = got[p].root
  /\ got[p].snapshot =
       [anchor |-> got[p].root, snap |-> got[p].timestamp.snap]

\* VerifyPackageChain: each document has the digest its parent names, and the
\* two versions are not below the floors of the pin.
ChainIsGood(p) ==
  /\ got[p].root = pin[p].anchor
  /\ got[p].timestamp.anchor = got[p].root
  /\ got[p].timestamp.ts >= pin[p].ts
  /\ got[p].snapshot =
       [anchor |-> got[p].root, snap |-> got[p].timestamp.snap]
  /\ got[p].snapshot.snap >= pin[p].snap

Verify(p) ==
  /\ phase[p] = "load"
  /\ Absent \notin {got[p].root, got[p].timestamp, got[p].snapshot}
  /\ IF ChainIsGood(p)
       THEN Goto(p, "lockRaise") /\ UNCHANGED <<trustLock, locals, seen>>
       ELSE End(p)
  /\ UNCHANGED <<pins, cache, learned>>

\* The next package of the same registry: the pin is read again; offline the
\* documents are, too.
NextPackage(p) ==
  /\ phase[p] = "commit"
  /\ pin' = [pin EXCEPT ![p] = Absent]
  /\ got' = IF command[p].name = "online" THEN got
            ELSE [got EXCEPT ![p] = NoObjects]
  /\ seen' = [seen EXCEPT ![p] = Zero]
  /\ Goto(p, "readPin")
  /\ UNCHANGED <<store, command, copy, learned>>

Finish(p) ==
  /\ phase[p] = "commit"
  /\ End(p)
  /\ UNCHANGED <<pins, cache, learned>>

Crash(p) ==
  /\ "crash" \in Faults
  /\ phase[p] # "idle"
  /\ End(p)
  /\ UNCHANGED <<pins, cache, learned>>

Step(p) ==
  \/ AcquireTrustLock(p) \/ LockTimeout(p) \/ LoadStore(p)
  \/ WriteImport(p) \/ WriteRaise(p)
  \/ ReadPin(p) \/ Refused(p) \/ Verify(p) \/ NextPackage(p) \/ Finish(p)
  \/ \E o \in {"root", "timestamp", "snapshot"} : Fetch(p, o) \/ ReadCached(p, o)

Next ==
  \E p \in Proc :
    \/ \E r \in Registry, a \in Anchor : StartImport(p, r, a)
    \/ \E r \in Registry, name \in Commands : StartMaterialize(p, r, name)
    \/ Step(p)
    \/ Crash(p)

Spec == Init /\ [][Next]_vars

-----------------------------------------------------------------------------
(* Properties.                                                              *)

\* "They only ever increase": while a registry keeps its anchor, no reimport,
\* no raise, and no two of them at once lower a floor.
FloorsNeverFall ==
  [][\A r \in Registry :
       /\ pins[r] # Absent
       /\ pins'[r] # Absent => pins'[r].anchor = pins[r].anchor
       => /\ pins'[r] # Absent
          /\ pins'[r].ts >= pins[r].ts
          /\ pins'[r].snap >= pins[r].snap]_vars

\* The pin of a registry is changed by a command about that registry, and its
\* anchor by an import that names the new one: a raise or an import elsewhere
\* never takes an import back.
ImportsAreNotLost ==
  [][\A r \in Registry : pins'[r] # pins[r] =>
       \E p \in Proc :
         /\ phase[p] \in WritePhases
         /\ command[p].registry = r
         /\ \/ pins[r] # Absent /\ pins'[r].anchor = pins[r].anchor
            \/ IsImport(p) /\ pins'[r].anchor = pin[p].anchor]_vars

\* Metadata a run accepts is never older than what any run had accepted, and
\* recorded, under the same anchor before the run read its pin: whoever served
\* it, online or from the cache, and whatever ran or crashed meanwhile.
NoRollback ==
  \A p \in Proc : phase[p] \in AcceptedPhases =>
    /\ got[p].timestamp.ts >= seen[p].ts
    /\ got[p].snapshot.snap >= seen[p].snap

-----------------------------------------------------------------------------
(* The ledger that the store implements.                                    *)

\* What a phase is part of.
Doing(p) ==
  CASE phase[p] \in {"lockImport", "loadImport", "writeImport"} -> "importing"
    [] phase[p] \in {"load", "readBack"} -> "looked"
    [] phase[p] \in {"lockRaise", "loadRaise", "writeRaise"} -> "accepted"
    [] phase[p] = "commit" -> "recorded"
    [] OTHER -> "idle"

\* The metadata that a process accepted.
Metadata(p) ==
  [anchor |-> got[p].root, ts |-> Versions(p).ts, snap |-> Versions(p).snap]

Pending(p) ==
  [step     |-> Doing(p),
   registry |-> IF Doing(p) = "idle" THEN Absent ELSE command[p].registry,
   content  |-> CASE Doing(p) \in {"importing", "looked"} -> pin[p]
                  [] Doing(p) \in {"accepted", "recorded"} -> Metadata(p)
                  [] OTHER -> Absent]

Ledger ==
  INSTANCE TrustLedger
    WITH Client <- Proc,
         ledger <- pins,
         call   <- [p \in Proc |-> Pending(p)]

\* The store implements the ledger: of the loads, locks and writes of several
\* processes each change takes effect once, at its write, on the present pins; a
\* command goes on after a raise only if it took effect; and what is accepted is
\* what the pins allowed when they were looked up.
ImplementsLedger == Ledger!LedgerSpec
=============================================================================
