---------------------------- MODULE TrustLedger ----------------------------
(***************************************************************************)
(* What the trust store promises the processes that share it               *)
(* (PafioSecurity/RegistryTrust.hpp): a ledger with a pin per registry.  A *)
(* change of it takes effect at one instant, on what the ledger holds at   *)
(* that instant, or not at all, and a raise that returned has taken        *)
(* effect.  The metadata a process accepts, and then records, are under    *)
(* the anchor and not below the floors that the ledger had when it looked. *)
(***************************************************************************)
EXTENDS Integers

CONSTANTS
  Client,    \* who shares the ledger
  Registry,  \* what there are pins for
  Pin,       \* pins and metadata: an anchor and two versions
  Absent     \* no pin

VARIABLES
  ledger,  \* [Registry -> its pin]
  call     \* [Client -> what it is doing, for which registry, with which pin]

lvars == <<ledger, call>>

Call(step, r, content) == [step |-> step, registry |-> r, content |-> content]
Idle == Call("idle", Absent, Absent)
Becomes(c, next) == call' = [call EXCEPT ![c] = next]

LedgerInit ==
  /\ ledger = [r \in Registry |-> Absent]
  /\ call = [c \in Client |-> Idle]

\* A descriptor is to be imported; its floors are zero.
Import(c, r, new) ==
  /\ call[c] = Idle
  /\ new.ts = 0 /\ new.snap = 0
  /\ Becomes(c, Call("importing", r, new))
  /\ UNCHANGED ledger

\* Under its old anchor a registry keeps its floors.
Imported(old, new) == IF old # Absent /\ old.anchor = new.anchor THEN old ELSE new

ImportTakesEffect(c) ==
  /\ call[c].step = "importing"
  /\ ledger' = [ledger EXCEPT ![call[c].registry] = Imported(@, call[c].content)]
  /\ Becomes(c, Idle)

Look(c, r) ==
  /\ call[c] = Idle
  /\ ledger[r] # Absent
  /\ Becomes(c, Call("looked", r, ledger[r]))
  /\ UNCHANGED ledger

Accept(c, metadata) ==
  /\ call[c].step = "looked"
  /\ metadata.anchor = call[c].content.anchor
  /\ metadata.ts >= call[c].content.ts
  /\ metadata.snap >= call[c].content.snap
  /\ Becomes(c, Call("accepted", call[c].registry, metadata))
  /\ UNCHANGED ledger

Above(floor, version) == IF floor >= version THEN floor ELSE version

\* The floors of the pin there is go up, of no pin nowhere.
Recorded(old, metadata) ==
  IF old = Absent THEN Absent
  ELSE [anchor |-> old.anchor, ts |-> Above(old.ts, metadata.ts),
        snap |-> Above(old.snap, metadata.snap)]

\* The raise takes effect; it returns, or fails after all.
RaiseTakesEffect(c) ==
  /\ call[c].step = "accepted"
  /\ ledger' = [ledger EXCEPT ![call[c].registry] = Recorded(@, call[c].content)]
  /\ \/ Becomes(c, Call("recorded", call[c].registry, call[c].content))
     \/ Becomes(c, Idle)

\* A call ends, is refused, fails or is killed.
Leave(c) ==
  /\ call[c].step # "idle"
  /\ Becomes(c, Idle)
  /\ UNCHANGED ledger

LedgerNext ==
  \E c \in Client :
    \/ \E r \in Registry : Look(c, r) \/ \E new \in Pin : Import(c, r, new)
    \/ \E metadata \in Pin : Accept(c, metadata)
    \/ ImportTakesEffect(c) \/ RaiseTakesEffect(c) \/ Leave(c)

LedgerSpec == LedgerInit /\ [][LedgerNext]_lvars
=============================================================================
