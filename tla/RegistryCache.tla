---------------------------- MODULE RegistryCache ----------------------------
(***************************************************************************)
(* The entries of one digest in the registry cache that every pafio        *)
(* process of a user shares (PafioRegistryClient/Client.cpp): the archive, *)
(* kept by its digest alone, and for every package version the registry    *)
(* declares with that digest a directory the archive is unpacked in.       *)
(*                                                                         *)
(* A run looks for a verified entry, throws what it finds away if it is    *)
(* not, and fetches, unpacks and renames both into place.  A lock per      *)
(* digest is held meanwhile, not while the directory is used.              *)
(***************************************************************************)
EXTENDS Integers, FiniteSets, TLC

CONSTANTS
  Proc,        \* pafio processes, each materializes one package after another
  Package,     \* package versions declared with the digest
  MaxFetches,  \* bound on the downloads
  Faults,      \* a subset of {"crash", "fetch", "damage", "remove", "power"}
  None         \* nobody

FaultKinds == {"crash", "fetch", "damage", "remove", "power"}

ASSUME CacheAssumption ==
  /\ MaxFetches \in Nat
  /\ None \notin Proc \cup Package
  /\ Faults \subseteq FaultKinds

VARIABLES
  blob,      \* the archive: "none", "good" or "bad"
  checkout,  \* [Package -> "none", "whole", "holed" or "unmarked"]
  holder,    \* who has the digest's lock
  phase,     \* what a process does next
  package,   \* what it materializes
  offline,   \* its --offline
  fetches,   \* history: downloads so far
  happened   \* history: the faults there were

store == <<blob, checkout>>
request == <<package, offline>>
history == <<fetches, happened>>
vars == <<store, holder, phase, request, history>>

Phases ==
  {"idle", "lockEarly", "inspectEarly", "metadata", "lock", "inspect",
   "removeBlob", "removeCheckout", "fetch", "unpack", "renameBlob",
   "renameCheckout", "using"}

\* The phases of a run that holds the digest's lock.
Locked ==
  {"inspectEarly", "inspect", "removeBlob", "removeCheckout", "fetch", "unpack",
   "renameBlob", "renameCheckout"}

TypeOK ==
  /\ blob \in {"none", "good", "bad"}
  /\ checkout \in [Package -> {"none", "whole", "holed", "unmarked"}]
  /\ holder \in Proc \cup {None}
  /\ phase \in [Proc -> Phases]
  /\ package \in [Proc -> Package \cup {None}]
  /\ offline \in [Proc -> BOOLEAN]
  /\ fetches \in 0..MaxFetches
  /\ happened \subseteq FaultKinds
  /\ \A p \in Proc : phase[p] \in Locked <=> holder = p
  /\ \A p \in Proc : phase[p] # "idle" => package[p] \in Package

Init ==
  /\ blob = "none"
  /\ checkout = [k \in Package |-> "none"]
  /\ holder = None
  /\ phase = [p \in Proc |-> "idle"]
  /\ package = [p \in Proc |-> None]
  /\ offline = [p \in Proc |-> FALSE]
  /\ fetches = 0
  /\ happened = {}

Goto(p, next) == phase' = [phase EXCEPT ![p] = next]
Release(p) == holder' = IF holder = p THEN None ELSE holder

\* A fault that may happen does.
Happens(kind) == kind \in Faults /\ happened' = happened \cup {kind}

\* The run is over; its lock is the system's again.
End(p) == Goto(p, "idle") /\ Release(p)

\* A dependency the lockfile gives a digest for, or one it does not know.
Start(p, k, off) ==
  /\ phase[p] = "idle"
  /\ package' = [package EXCEPT ![p] = k]
  /\ offline' = [offline EXCEPT ![p] = off]
  /\ \E next \in {"lockEarly", "metadata"} : Goto(p, next)
  /\ UNCHANGED <<store, holder, history>>

LockPhase == [lockEarly |-> "inspectEarly", lock |-> "inspect"]

\* Variant: the lock keeps nobody out.
Acquire_NoExclusion(p) ==
  /\ phase[p] \in DOMAIN LockPhase
  /\ holder' = p
  /\ Goto(p, LockPhase[phase[p]])
  /\ UNCHANGED <<store, request, history>>

Acquire(p) ==
  /\ phase[p] \in DOMAIN LockPhase
  /\ holder = None
  /\ holder' = p
  /\ Goto(p, LockPhase[phase[p]])
  /\ UNCHANGED <<store, request, history>>

\* LockHeldError, after thirty seconds.
LockTimeout(p) ==
  /\ phase[p] \in DOMAIN LockPhase
  /\ holder # None
  /\ End(p)
  /\ UNCHANGED <<store, request, history>>

\* InspectVerifiedCache: the archive has the digest and the directory has the
\* marker of that digest.  What else is in the directory is not looked at.
Verified(k) == blob = "good" /\ checkout[k] \in {"whole", "holed"}

\* The look before the metadata; a miss gives the lock back.
InspectEarly(p) ==
  /\ phase[p] = "inspectEarly"
  /\ \/ Verified(package[p]) /\ Goto(p, "using")
     \/ ~Verified(package[p]) /\ offline[p] /\ Goto(p, "idle")
     \/ ~Verified(package[p]) /\ ~offline[p] /\ Goto(p, "metadata")
  /\ Release(p)
  /\ UNCHANGED <<store, request, history>>

\* The registry's metadata were loaded and verified, or were not.
LoadMetadata(p) ==
  /\ phase[p] = "metadata"
  /\ \/ Goto(p, "lock") /\ UNCHANGED happened
     \/ Goto(p, "idle") /\ Happens("fetch")
  /\ UNCHANGED <<store, holder, request, fetches>>

\* Variant: what the early look found still holds.
Inspect_Once(p) ==
  /\ phase[p] = "inspect"
  /\ IF offline[p] THEN End(p) ELSE Goto(p, "removeBlob") /\ UNCHANGED holder
  /\ UNCHANGED <<store, request, history>>

\* CommitRegistryEntry looks again, now that it has the lock for good.
Inspect(p) ==
  /\ phase[p] = "inspect"
  /\ \/ Verified(package[p]) /\ Goto(p, "using") /\ Release(p)
     \/ ~Verified(package[p]) /\ offline[p] /\ End(p)
     \/ ~Verified(package[p]) /\ ~offline[p] /\ Goto(p, "removeBlob")
        /\ UNCHANGED holder
  /\ UNCHANGED <<store, request, history>>

\* RemoveDigestObject: the archive first; errors are ignored.
RemoveBlob(p) ==
  /\ phase[p] = "removeBlob"
  /\ \/ blob' = "none" /\ UNCHANGED happened
     \/ Happens("remove") /\ UNCHANGED blob
  /\ Goto(p, "removeCheckout")
  /\ UNCHANGED <<checkout, holder, request, fetches>>

\* remove_all takes one file after another, the marker when its turn comes.
RemoveSome(p) ==
  /\ phase[p] = "removeCheckout"
  /\ checkout[package[p]] \in {"whole", "holed"}
  /\ \E left \in {"holed", "unmarked"} :
       checkout' = [checkout EXCEPT ![package[p]] = left]
  /\ UNCHANGED <<blob, holder, phase, request, history>>

\* All is removed, or remove_all stopped where it was.
RemoveRest(p) ==
  /\ phase[p] = "removeCheckout"
  /\ \/ checkout' = [checkout EXCEPT ![package[p]] = "none"] /\ UNCHANGED happened
     \/ Happens("remove") /\ UNCHANGED checkout
  /\ Goto(p, "fetch")
  /\ UNCHANGED <<blob, holder, request, fetches>>

\* An exception on the way: the staging files go, the lock with the guard.
Fail(p) ==
  /\ phase[p] \in {"fetch", "unpack", "renameBlob", "renameCheckout"}
  /\ Happens("fetch")
  /\ End(p)
  /\ UNCHANGED <<store, request, fetches>>

\* The archive is in its staging file, of the declared size and digest.
Fetch(p) ==
  /\ phase[p] = "fetch"
  /\ fetches < MaxFetches
  /\ fetches' = fetches + 1
  /\ Goto(p, "unpack")
  /\ UNCHANGED <<store, holder, request, happened>>

\* The listing is clean, the staging directory complete, the marker in it.
Unpack(p) ==
  /\ phase[p] = "unpack"
  /\ Goto(p, "renameBlob")
  /\ UNCHANGED <<store, holder, request, history>>

RenameBlob(p) ==
  /\ phase[p] = "renameBlob"
  /\ blob' = "good"
  /\ Goto(p, "renameCheckout")
  /\ UNCHANGED <<checkout, holder, request, history>>

\* A directory that is not empty cannot be renamed onto.
RenameCheckout(p) ==
  /\ phase[p] = "renameCheckout"
  /\ IF checkout[package[p]] = "none"
       THEN /\ checkout' = [checkout EXCEPT ![package[p]] = "whole"]
            /\ Goto(p, "using")
       ELSE UNCHANGED checkout /\ Goto(p, "idle")
  /\ Release(p)
  /\ UNCHANGED <<blob, request, history>>

\* The resolver and the compiler have read what they need.
Finish(p) ==
  /\ phase[p] = "using"
  /\ End(p)
  /\ UNCHANGED <<store, request, history>>

Crash(p) ==
  /\ phase[p] # "idle"
  /\ Happens("crash")
  /\ End(p)
  /\ UNCHANGED <<store, request, fetches>>

\* The archive changes or goes while nobody looks.
Damage ==
  /\ blob = "good"
  /\ Happens("damage")
  /\ blob' \in {"bad", "none"}
  /\ UNCHANGED <<checkout, holder, phase, request, fetches>>

\* Nothing synchronizes the archive and the unpacked files with the disk, only
\* the marker: any of the others may be lost.
PowerLoss ==
  /\ Happens("power")
  /\ blob' \in IF blob = "good" THEN {"good", "bad"} ELSE {blob}
  /\ \E lost \in SUBSET {k \in Package : checkout[k] = "whole"} :
       checkout' = [k \in Package |-> IF k \in lost THEN "holed" ELSE checkout[k]]
  /\ holder' = None
  /\ phase' = [p \in Proc |-> "idle"]
  /\ UNCHANGED <<request, fetches>>

Next ==
  \/ \E p \in Proc :
       \/ \E k \in Package, off \in BOOLEAN : Start(p, k, off)
       \/ Acquire(p) \/ LockTimeout(p) \/ InspectEarly(p) \/ LoadMetadata(p)
       \/ Inspect(p) \/ RemoveBlob(p) \/ RemoveSome(p) \/ RemoveRest(p)
       \/ Fetch(p) \/ Unpack(p) \/ RenameBlob(p) \/ RenameCheckout(p)
       \/ Fail(p) \/ Finish(p) \/ Crash(p)
  \/ Damage
  \/ PowerLoss

Spec == Init /\ [][Next]_vars

-----------------------------------------------------------------------------
(* Properties.                                                              *)

\* What it takes for a commit to be whole or not there: removals that remove,
\* and files that stay as they were written.
Calm == happened \cap {"remove", "power"} = {}

\* A digest is fetched once, however many runs want it at the same time (with
\* nothing failing and nothing removed behind their backs).
SingleFetch == happened = {} => fetches <= 1

\* A run destroys no verified entry: what another run may just have been handed
\* goes only when the archive is damaged first.
VerifiedStays ==
  [][Calm' =>
       \A k \in Package : Verified(k) /\ ~Verified(k)' =>
         UNCHANGED <<checkout, holder, phase>>]_vars

\* What a run is handed is the whole archive, unpacked: no removal that a kill
\* cut short and no half of a commit passes the inspection.
HandedIsWhole ==
  [][Calm' =>
       \A p \in Proc :
         phase[p] # "using" /\ phase'[p] = "using" =>
           checkout'[package[p]] = "whole"]_vars

\* It stays whole while it is used, although the lock is not held any more, as
\* long as nobody else damages the archive.
UsedStaysWhole ==
  Calm /\ "damage" \notin happened =>
    \A p \in Proc : phase[p] = "using" => checkout[package[p]] = "whole"
=============================================================================
