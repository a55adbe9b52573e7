--------------------------- MODULE InvocationDirs ---------------------------
(***************************************************************************)
(* The directories .pafio/build/<cache_key>/<invocation>/ of one cache key *)
(* (PafioPlan/CompilePlan.cpp): every invocation that writes a compile     *)
(* plan allocates one, prunes the others down to the newest Retained and   *)
(* then runs the compiler in its own.  Nothing but the atomic creation of  *)
(* a directory coordinates the processes.                                  *)
(*                                                                         *)
(* A directory is named by the steady clock and a number the process       *)
(* counts up.  The steady clock starts again when the machine does.        *)
(***************************************************************************)
EXTENDS Integers, FiniteSets, FiniteSetsExt, TLC

CONSTANTS
  Proc,       \* pafio processes, each writes one plan after another
  Retained,   \* kRetainedInvocationRoots
  MaxTick,    \* bound on the clock between two boots
  MaxSeq,     \* bound on the collisions of one allocation
  MaxBoots,   \* bound on the reboots
  Faults,     \* a subset of {"crash", "remove"}
  None        \* no directory

ASSUME InvocationAssumption ==
  /\ IsFiniteSet(Proc)
  /\ Retained \in Nat
  /\ MaxTick \in Nat /\ MaxSeq \in Nat /\ MaxBoots \in Nat
  /\ Faults \subseteq {"crash", "remove"}

Dir == [tick : 0..MaxTick, seq : 0..MaxSeq]

ASSUME NoneAssumption == None \notin Dir

VARIABLES
  dirs,      \* the directories that exist
  clock,     \* the steady clock
  boots,     \* reboots so far
  phase,     \* what a process does next
  seq,       \* its count
  own,       \* its directory
  preserve,  \* the directory of the parent snapshot its request names
  victims,   \* what it has still to remove
  smooth,    \* history: nothing was killed and no removal has failed so far
  birth      \* history: [Dir -> when it was last created, reboots included]

vars == <<dirs, clock, boots, phase, seq, own, preserve, victims, smooth, birth>>
machine == <<clock, boots>>
history == <<smooth, birth>>
locals == <<seq, own, preserve, victims>>

Phases == {"idle", "allocate", "list", "prune", "writePlan", "compile"}
\* AllocateInvocationRoot has returned.
OwnPhases == {"list", "prune", "writePlan", "compile"}

TypeOK ==
  /\ dirs \in SUBSET Dir
  /\ clock \in 0..MaxTick
  /\ boots \in 0..MaxBoots
  /\ phase \in [Proc -> Phases]
  /\ seq \in [Proc -> 0..MaxSeq]
  /\ own \in [Proc -> Dir \cup {None}]
  /\ preserve \in [Proc -> Dir \cup {None}]
  /\ victims \in [Proc -> SUBSET Dir]
  /\ smooth \in BOOLEAN
  /\ birth \in [Dir -> Nat]
  /\ \A p \in Proc : own[p] # None <=> phase[p] \in OwnPhases
  /\ \A p \in Proc : victims[p] # {} => phase[p] = "prune"

Init ==
  /\ dirs = {}
  /\ clock = 0
  /\ boots = 0
  /\ phase = [p \in Proc |-> "idle"]
  /\ seq = [p \in Proc |-> 0]
  /\ own = [p \in Proc |-> None]
  /\ preserve = [p \in Proc |-> None]
  /\ victims = [p \in Proc |-> {}]
  /\ smooth = TRUE
  /\ birth = [d \in Dir |-> 0]

Now == boots * (MaxTick + 1) + clock

Goto(p, next) == phase' = [phase EXCEPT ![p] = next]

\* The process is gone; what it made stays.
End(p) ==
  /\ Goto(p, "idle")
  /\ seq' = [seq EXCEPT ![p] = 0]
  /\ own' = [own EXCEPT ![p] = None]
  /\ preserve' = [preserve EXCEPT ![p] = None]
  /\ victims' = [victims EXCEPT ![p] = {}]

\* A request, perhaps for a delta to a snapshot of an earlier invocation.
Start(p, parent) ==
  /\ phase[p] = "idle"
  /\ preserve' = [preserve EXCEPT ![p] = parent]
  /\ Goto(p, "allocate")
  /\ UNCHANGED <<dirs, machine, seq, own, victims, history>>

\* Variant: create_directories, which is content with an existing one.
Allocate_Adopts(p) ==
  LET d == [tick |-> clock, seq |-> seq[p]]
  IN /\ phase[p] = "allocate"
     /\ dirs' = dirs \cup {d}
     /\ own' = [own EXCEPT ![p] = d]
     /\ birth' = [birth EXCEPT ![d] = Now]
     /\ Goto(p, "list")
     /\ UNCHANGED <<machine, seq, preserve, victims, smooth>>

\* AllocateInvocationRoot: a directory that exists is another's, and the next
\* number is tried with the clock's next reading.
Allocate(p) ==
  LET d == [tick |-> clock, seq |-> seq[p]]
  IN /\ phase[p] = "allocate"
     /\ IF d \in dirs
          THEN /\ seq[p] < MaxSeq
               /\ seq' = [seq EXCEPT ![p] = @ + 1]
               /\ UNCHANGED <<dirs, phase, own, birth>>
          ELSE /\ dirs' = dirs \cup {d}
               /\ own' = [own EXCEPT ![p] = d]
               /\ birth' = [birth EXCEPT ![d] = Now]
               /\ Goto(p, "list")
               /\ UNCHANGED seq
     /\ UNCHANGED <<machine, preserve, victims, smooth>>

Newer(d, e) == d.tick > e.tick \/ (d.tick = e.tick /\ d.seq > e.seq)

\* Variant: the comparison of the names is turned round.
Prunable_Oldest(p) ==
  LET others == dirs \ {own[p], preserve[p]}
  IN {d \in others :
        Cardinality({e \in others : Newer(d, e)}) >= Retained}

\* Variant: one directory too many is kept.
Prunable_OneMore(p) ==
  LET others == dirs \ {own[p], preserve[p]}
  IN {d \in others :
        Cardinality({e \in others : Newer(e, d)}) > Retained + 1}

\* PruneInvocationRoots: all but the Retained newest of the others.
Prunable(p) ==
  LET others == dirs \ {own[p], preserve[p]}
  IN {d \in others :
        Cardinality({e \in others : Newer(e, d)}) >= Retained}

List(p) ==
  /\ phase[p] = "list"
  /\ victims' = [victims EXCEPT ![p] = Prunable(p)]
  /\ Goto(p, "prune")
  /\ UNCHANGED <<dirs, machine, seq, own, preserve, history>>

\* remove_all of one directory, from the newest victim on; its error is
\* ignored.  A name is removed at the earliest one reading of the clock after it
\* was drawn: listing and sorting lie between.
RemoveOne(p) ==
  /\ phase[p] = "prune"
  /\ \E d \in victims[p] :
       /\ \A e \in victims[p] : ~Newer(e, d)
       /\ d.tick # clock
       /\ victims' = [victims EXCEPT ![p] = @ \ {d}]
       /\ \/ dirs' = dirs \ {d} /\ UNCHANGED smooth
          \/ "remove" \in Faults /\ smooth' = FALSE /\ UNCHANGED dirs
  /\ UNCHANGED <<machine, phase, seq, own, preserve, birth>>

\* create_directories of artifacts and diag, which makes the invocation's
\* directory again should it be gone.
CreateOutputs(p) ==
  /\ phase[p] = "prune"
  /\ victims[p] = {}
  /\ dirs' = dirs \cup {own[p]}
  /\ Goto(p, "writePlan")
  /\ UNCHANGED <<machine, locals, history>>

\* plan.json is opened and written in the directory, or the plan fails.
WritePlan(p) ==
  /\ phase[p] = "writePlan"
  /\ IF own[p] \in dirs THEN Goto(p, "compile") /\ UNCHANGED locals ELSE End(p)
  /\ UNCHANGED <<dirs, machine, history>>

\* The compiler ran; the invocation is over.
Finish(p) ==
  /\ phase[p] = "compile"
  /\ End(p)
  /\ UNCHANGED <<dirs, machine, history>>

Crash(p) ==
  /\ "crash" \in Faults
  /\ phase[p] # "idle"
  /\ End(p)
  /\ smooth' = FALSE
  /\ UNCHANGED <<dirs, machine, birth>>

Tick ==
  /\ clock < MaxTick
  /\ clock' = clock + 1
  /\ UNCHANGED <<dirs, boots, phase, locals, history>>

Reboot ==
  /\ boots < MaxBoots
  /\ boots' = boots + 1
  /\ clock' = 0
  /\ phase' = [p \in Proc |-> "idle"]
  /\ seq' = [p \in Proc |-> 0]
  /\ own' = [p \in Proc |-> None]
  /\ preserve' = [p \in Proc |-> None]
  /\ victims' = [p \in Proc |-> {}]
  /\ smooth' = FALSE
  /\ UNCHANGED <<dirs, birth>>

Next ==
  \/ \E p \in Proc :
       \/ \E parent \in dirs \cup {None} : Start(p, parent)
       \/ Allocate(p) \/ List(p) \/ RemoveOne(p) \/ CreateOutputs(p)
       \/ WritePlan(p) \/ Finish(p) \/ Crash(p)
  \/ Tick
  \/ Reboot

Spec == Init /\ [][Next]_vars

-----------------------------------------------------------------------------
(* Properties.                                                              *)

\* "plan, diagnostics, receipt and artifact paths are never shared with earlier
\* or concurrent calls": live invocations have directories of their own, even
\* when their clocks agree and others remove and allocate meanwhile.
NothingIsShared ==
  \A p, q \in Proc : own[p] = own[q] /\ own[p] # None => p = q

\* "each cache key keeps the newest 8 invocation directories": until the machine
\* is restarted, one is removed only when as many others are not older.
NewestAreKept ==
  [][boots = 0 => \A d \in dirs \ dirs' :
       Cardinality({e \in dirs \ {d} : birth[e] >= birth[d]}) >= Retained]_vars

\* "Derived output retention is bounded": while no pruning was cut short, once
\* every process has pruned there are the retained ones, those of the processes
\* and one parent snapshot, however the prunings interleaved.
RetentionIsBounded ==
  smooth /\ (\A p \in Proc : phase[p] \notin {"list", "prune"}) =>
    Cardinality(dirs) <= Retained + 1 + Cardinality(Proc)
=============================================================================
