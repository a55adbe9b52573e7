---------------------------- MODULE OutputProofs ----------------------------
(***************************************************************************)
(* What TLAPS proves of the two components that write what pafio leaves    *)
(* behind.                                                                 *)
(*                                                                         *)
(* InvocationDirs, for any number of processes, collisions and reboots: no *)
(* two invocations share a directory, although directories are removed     *)
(* while they are used and names may be drawn again; and the prunings,     *)
(* which nothing coordinates, remove neither too much nor too little.      *)
(*                                                                         *)
(* Publishing, for any tree, any edits while commands run, any number of   *)
(* processes that write the same archives, and a network that delays and   *)
(* loses: an archive in place is complete and of one package alone, a      *)
(* publish that reports success has published, and what the request says   *)
(* of a package is what the manifest in its archive says. For the last one *)
(* a manifest is read, written out again, its targets sorted, and read a   *)
(* second time: that what it means is the same is proved for every one.    *)
(***************************************************************************)
EXTENDS InvocationDirs, Publishing, FiniteSetTheorems, FunctionTheorems,
        SequenceTheorems, TLAPS

-----------------------------------------------------------------------------
(* InvocationDirs.  Names.                                                  *)

LEMMA DirFields ==
  ASSUME NEW d \in Dir
  PROVE  d.tick \in Nat /\ d.seq \in Nat /\ d.tick <= MaxTick /\ d # None
BY InvocationAssumption, NoneAssumption DEF Dir

LEMMA DirIsFinite == IsFiniteSet(Dir)
<1> DEFINE pairs == (0..MaxTick) \X (0..MaxSeq)
           f == [t \in pairs |-> [tick |-> t[1], seq |-> t[2]]]
<1>1. IsFiniteSet(0..MaxTick) /\ IsFiniteSet(0..MaxSeq)
      BY FS_Interval, InvocationAssumption
<1>2. IsFiniteSet(pairs)
      BY <1>1, FS_Product
<1>3. \A d \in Dir : \E t \in pairs : f[t] = d
  <2> TAKE d \in Dir
  <2>1. <<d.tick, d.seq>> \in pairs
        BY DEF Dir
  <2>2. f[<<d.tick, d.seq>>] = d
        BY <2>1 DEF Dir
  <2>3. QED
        BY <2>1, <2>2
<1>4. f \in [pairs -> Dir]
      BY DEF Dir
<1>5. f \in Surjection(pairs, Dir)
      BY <1>3, <1>4, Fun_IsSurj
<1>6. QED
  BY <1>2, <1>5, FS_Surjection

LEMMA NewerIsTransitive ==
  ASSUME NEW d \in Dir, NEW e \in Dir, NEW x \in Dir, Newer(d, e), Newer(e, x)
  PROVE  Newer(d, x)
BY DirFields DEF Newer

LEMMA NewerIsTotal ==
  ASSUME NEW d \in Dir, NEW e \in Dir
  PROVE  ~Newer(d, d) /\ (d = e \/ Newer(d, e) \/ Newer(e, d))
BY DirFields DEF Newer, Dir

\* Any directories have an oldest: what is older than it shrinks from one to an
\* older one, and finite sets do not shrink for ever.
LEMMA OldestExists ==
  ASSUME NEW S \in SUBSET Dir, S # {}
  PROVE  \E m \in S : \A d \in S \ {m} : Newer(d, m)
<1> DEFINE Older(d) == {e \in S : Newer(d, e)}
           family == {Older(d) : d \in S}
           order == StrictSubsetOrdering(Dir)
<1>1. IsWellFoundedOn(order, SUBSET Dir)
      BY DirIsFinite, FS_StrictSubsetOrderingWellFounded, FS_FiniteSubsetsOfFinite
<1>2. family \subseteq SUBSET Dir /\ family # {}
      OBVIOUS
<1> HIDE DEF family
<1>3. PICK x \in family : \A y \in family : <<y, x>> \notin order
      BY <1>1, <1>2, WFMin
<1>4. PICK m \in S : x = Older(m)
      BY DEF family
<1>5. ASSUME NEW d \in S, Newer(m, d) PROVE FALSE
  <2>1. Older(d) \subseteq Older(m) /\ d \in Older(m) /\ d \notin Older(d)
        BY <1>5, NewerIsTransitive, NewerIsTotal
  <2>2. <<Older(d), Older(m)>> \in order
        BY <2>1 DEF StrictSubsetOrdering
  <2>3. Older(d) \in family
        BY DEF family
  <2>4. QED
        BY <1>3, <1>4, <2>2, <2>3
<1>6. QED
  BY <1>5, NewerIsTotal

\* How many of S are newer than d.
NewerIn(S, d) == Cardinality({e \in S : Newer(e, d)})

\* At most n have fewer than n newer ones.
LEMMA FewAreNewest ==
  ASSUME NEW S \in SUBSET Dir, NEW n \in Nat
  PROVE  LET newest == {d \in S : ~(NewerIn(S, d) >= n)}
         IN  IsFiniteSet(newest) /\ Cardinality(newest) <= n
<1> DEFINE newest == {d \in S : ~(NewerIn(S, d) >= n)}
<1>1. IsFiniteSet(S) /\ IsFiniteSet(newest)
      BY DirIsFinite, FS_Subset
<1>2. CASE newest = {}
      BY <1>1, <1>2, FS_EmptySet
<1>3. CASE newest # {}
  <2> newest \in SUBSET Dir
      OBVIOUS
  <2> HIDE DEF newest
  <2>1. PICK m \in newest : \A d \in newest \ {m} : Newer(d, m)
        BY <1>3, OldestExists
  <2> DEFINE above == {e \in S : Newer(e, m)}
  <2>2. newest \ {m} \subseteq above
        BY <2>1 DEF newest
  <2>3. IsFiniteSet(above)
        BY <1>1, FS_Subset
  <2>4. Cardinality(newest \ {m}) <= Cardinality(above)
        BY <2>2, <2>3, FS_Subset
  <2>5. Cardinality(newest \ {m}) = Cardinality(newest) - 1
        BY <1>1, FS_RemoveElement
  <2>6. ~(Cardinality(above) >= n)
        BY DEF newest, NewerIn
  <2>7. Cardinality(above) \in Nat /\ Cardinality(newest) \in Nat
        BY <1>1, <2>3, FS_CardinalityType
  <2>8. Cardinality(newest) <= n
        BY <2>4, <2>5, <2>6, <2>7
  <2>9. QED
        BY <1>1, <2>8 DEF newest
<1>4. QED
  BY <1>2, <1>3

-----------------------------------------------------------------------------
(* Types.                                                                   *)

LEMMA InitTypeOK == Init => TypeOK
BY InvocationAssumption DEF Init, TypeOK, Phases, OwnPhases

LEMMA EndTypeOK ==
  ASSUME TypeOK, UNCHANGED <<dirs, machine, birth>>, smooth' \in BOOLEAN,
         NEW p \in Proc, End(p)
  PROVE  TypeOK'
BY InvocationAssumption DEF TypeOK, End, Goto, machine, Phases, OwnPhases

LEMMA NextTypeOK == TypeOK /\ [Next]_vars => TypeOK'
<1> SUFFICES ASSUME TypeOK, [Next]_vars PROVE TypeOK'
    OBVIOUS
<1>1. ASSUME NEW p \in Proc, NEW parent \in dirs \cup {None}, Start(p, parent)
      PROVE  TypeOK'
      BY <1>1 DEF Start, TypeOK, Goto, machine, history, Phases, OwnPhases
<1>2. ASSUME NEW p \in Proc, Allocate(p) PROVE TypeOK'
  <2> DEFINE d == [tick |-> clock, seq |-> seq[p]]
  <2>1. d \in Dir /\ d # None
        BY NoneAssumption DEF TypeOK, Dir
  <2>2. phase[p] = "allocate" /\ UNCHANGED <<machine, preserve, victims, smooth>>
        BY <1>2 DEF Allocate
  <2>3. CASE d \in dirs
    <3>1. seq' = [seq EXCEPT ![p] = @ + 1] /\ seq[p] < MaxSeq
          /\ UNCHANGED <<dirs, phase, own, birth>>
          BY <1>2, <2>3 DEF Allocate
    <3>2. seq' \in [Proc -> 0..MaxSeq]
          BY <3>1, InvocationAssumption DEF TypeOK
    <3>3. QED
          BY <2>2, <3>1, <3>2 DEF TypeOK, machine
  <2>4. CASE d \notin dirs
    <3>1. /\ dirs' = dirs \cup {d}
          /\ own' = [own EXCEPT ![p] = d]
          /\ birth' = [birth EXCEPT ![d] = Now]
          /\ phase' = [phase EXCEPT ![p] = "list"]
          /\ seq' = seq
          BY <1>2, <2>4 DEF Allocate, Goto
    <3>2. Now \in Nat
          BY InvocationAssumption DEF Now, TypeOK
    <3> HIDE DEF d
    <3>3. QED
          BY <2>1, <2>2, <3>1, <3>2 DEF TypeOK, Phases, OwnPhases, machine
  <2>5. QED
        BY <2>3, <2>4
<1>3. ASSUME NEW p \in Proc, List(p) PROVE TypeOK'
      BY <1>3 DEF List, Prunable, TypeOK, Goto, machine, history, Phases, OwnPhases
<1>4. ASSUME NEW p \in Proc, RemoveOne(p) PROVE TypeOK'
  <2>1. PICK d \in victims[p] :
          /\ victims' = [victims EXCEPT ![p] = @ \ {d}]
          /\ dirs' \in {dirs, dirs \ {d}} /\ smooth' \in {smooth, FALSE}
        BY <1>4 DEF RemoveOne
  <2>2. phase[p] = "prune" /\ UNCHANGED <<machine, phase, seq, own, preserve, birth>>
        BY <1>4 DEF RemoveOne
  <2>3. /\ victims' \in [Proc -> SUBSET Dir]
        /\ \A q \in Proc : victims'[q] # {} => phase[q] = "prune"
        BY <2>1, <2>2 DEF TypeOK
  <2>4. dirs' \in SUBSET Dir /\ smooth' \in BOOLEAN
        BY <2>1 DEF TypeOK
  <2>5. QED
        BY <2>2, <2>3, <2>4 DEF TypeOK, machine
<1>5. ASSUME NEW p \in Proc, CreateOutputs(p) PROVE TypeOK'
      BY <1>5 DEF CreateOutputs, TypeOK, Goto, machine, locals, history, Phases,
         OwnPhases
<1>6. ASSUME NEW p \in Proc, WritePlan(p) PROVE TypeOK'
  <2>1. CASE own[p] \in dirs
        BY <1>6, <2>1 DEF WritePlan, TypeOK, Goto, machine, locals, history, Phases,
           OwnPhases
  <2>2. CASE own[p] \notin dirs
        BY <1>6, <2>2, EndTypeOK DEF WritePlan, TypeOK, history
  <2>3. QED
        BY <2>1, <2>2
<1>7. ASSUME NEW p \in Proc, Finish(p) \/ Crash(p) PROVE TypeOK'
      BY <1>7, EndTypeOK DEF Finish, Crash, TypeOK, history
<1>8. ASSUME Tick PROVE TypeOK'
  <2>1. clock' \in 0..MaxTick
        BY <1>8, InvocationAssumption DEF Tick, TypeOK
  <2>2. QED
        BY <1>8, <2>1 DEF Tick, TypeOK, locals, history
<1>9. ASSUME Reboot PROVE TypeOK'
  <2>1. boots' \in 0..MaxBoots /\ clock' \in 0..MaxTick
        BY <1>9, InvocationAssumption DEF Reboot, TypeOK
  <2>2. /\ phase' \in [Proc -> Phases] /\ seq' \in [Proc -> 0..MaxSeq]
        /\ victims' \in [Proc -> SUBSET Dir]
        BY <1>9, InvocationAssumption DEF Reboot, Phases
  <2>3. /\ own' \in [Proc -> Dir \cup {None}] /\ preserve' \in [Proc -> Dir \cup {None}]
        /\ smooth' \in BOOLEAN
        BY <1>9 DEF Reboot
  <2>4. \A p \in Proc : own'[p] = None /\ phase'[p] = "idle" /\ victims'[p] = {}
        BY <1>9 DEF Reboot
  <2>5. UNCHANGED <<dirs, birth>>
        BY <1>9 DEF Reboot
  <2>6. QED
        BY <2>1, <2>2, <2>3, <2>4, <2>5 DEF TypeOK, OwnPhases
<1>10. ASSUME UNCHANGED vars PROVE TypeOK'
       BY <1>10 DEF vars, machine, locals, history, TypeOK
<1>11. QED
  BY <1>1, <1>2, <1>3, <1>4, <1>5, <1>6, <1>7, <1>8, <1>9, <1>10 DEF Next

\* The state is well-formed: an invocation has a directory from its allocation to
\* its end, and something left to remove only while it prunes.
THEOREM TypeCorrect == Spec => []TypeOK
<1>1. QED
  BY InitTypeOK, NextTypeOK, PTL DEF Spec

-----------------------------------------------------------------------------
(* Directories of their own.                                                *)

\* A directory is never younger than the clock, and one that was removed while
\* its process lives is older: its name will not be drawn again in this boot.
OwnInv ==
  /\ \A p \in Proc : own[p] # None =>
       /\ own[p].tick <= clock
       /\ own[p] \in dirs \/ own[p].tick < clock
  /\ NothingIsShared

LEMMA InitOwnInv == Init => OwnInv
BY DEF Init, OwnInv, NothingIsShared

\* The steps in which nobody gets a directory.
LEMMA KeepStep ==
  ASSUME TypeOK, OwnInv, dirs \subseteq dirs', UNCHANGED clock,
         \A q \in Proc : own'[q] \in {own[q], None}
  PROVE  OwnInv'
BY DEF OwnInv, NothingIsShared

LEMMA NextOwnInv == TypeOK /\ OwnInv /\ [Next]_vars => OwnInv'
<1> SUFFICES ASSUME TypeOK, OwnInv, [Next]_vars PROVE OwnInv'
    OBVIOUS
<1>1. ASSUME NEW p \in Proc, Allocate(p) PROVE OwnInv'
  <2> DEFINE d == [tick |-> clock, seq |-> seq[p]]
  <2>1. d \in Dir /\ d # None /\ d.tick = clock /\ clock' = clock
        BY <1>1, NoneAssumption DEF Allocate, machine, TypeOK, Dir
  <2>2. CASE d \in dirs
        BY <1>1, <2>1, <2>2, KeepStep DEF Allocate
  <2>3. CASE d \notin dirs
    <3>1. dirs' = dirs \cup {d} /\ own' = [own EXCEPT ![p] = d]
          BY <1>1, <2>3 DEF Allocate
    <3>2. \A q \in Proc : own[q] # d
          BY <2>1, <2>3, InvocationAssumption DEF OwnInv, TypeOK, Dir
    <3>3. NothingIsShared'
          BY <3>1, <3>2 DEF OwnInv, TypeOK, NothingIsShared
    <3>4. \A q \in Proc : own'[q] # None =>
            /\ own'[q].tick <= clock'
            /\ own'[q] \in dirs' \/ own'[q].tick < clock'
          BY <2>1, <3>1, InvocationAssumption DEF OwnInv, TypeOK
    <3>5. QED
          BY <3>3, <3>4 DEF OwnInv
  <2>4. QED
        BY <2>2, <2>3
<1>2. ASSUME NEW p \in Proc, RemoveOne(p) PROVE OwnInv'
  <2>1. PICK d : d.tick # clock /\ (dirs' = dirs \ {d} \/ dirs' = dirs)
        BY <1>2 DEF RemoveOne
  <2>2. UNCHANGED <<clock, own>>
        BY <1>2 DEF RemoveOne, machine
  <2>3. \A q \in Proc : own[q] # None => own[q].tick \in Int /\ clock \in Int
        BY InvocationAssumption DEF TypeOK, Dir
  <2>4. \A q \in Proc : own[q] # None =>
          own[q] \in dirs' \/ own[q].tick < clock
        BY <2>1, <2>3 DEF OwnInv
  <2>5. QED
        BY <2>2, <2>4 DEF OwnInv, NothingIsShared
<1>3. ASSUME Tick PROVE OwnInv'
  <2>1. clock' = clock + 1 /\ clock \in Int
        BY <1>3, InvocationAssumption DEF Tick, TypeOK
  <2>2. UNCHANGED <<dirs, own>>
        BY <1>3 DEF Tick, locals
  <2>3. \A q \in Proc : own[q] # None => own[q].tick \in Int
        BY DEF TypeOK, Dir
  <2>4. QED
        BY <2>1, <2>2, <2>3 DEF OwnInv, NothingIsShared
<1>4. ASSUME Reboot PROVE OwnInv'
      BY <1>4 DEF Reboot, OwnInv, NothingIsShared
<1>5. CASE \/ \E p \in Proc :
                \/ \E parent \in dirs \cup {None} : Start(p, parent)
                \/ List(p) \/ CreateOutputs(p) \/ WritePlan(p) \/ Finish(p) \/ Crash(p)
           \/ UNCHANGED vars
      BY <1>5, KeepStep
      DEF Start, List, CreateOutputs, WritePlan, Finish, Crash, End, vars, machine,
          locals, TypeOK
<1>6. QED
  BY <1>1, <1>2, <1>3, <1>4, <1>5 DEF Next

\* Plans, artifacts and diagnostics of two live invocations are never in one
\* directory.
THEOREM DirectoriesAreOwn == Spec => []NothingIsShared
<1>1. OwnInv => NothingIsShared
      BY DEF OwnInv
<1>2. QED
  BY <1>1, TypeCorrect, InitOwnInv, NextOwnInv, PTL DEF Spec

-----------------------------------------------------------------------------
(* Nothing that should stay is removed.                                     *)

\* What is to be removed has enough newer ones, whatever others remove
\* meanwhile; and before the first reboot a name tells when it was made.
KeptInv ==
  /\ \A p \in Proc : \A d \in victims[p] : NewerIn(dirs, d) >= Retained
  /\ boots = 0 =>
       /\ \A d \in dirs : birth[d] = d.tick
       /\ \A p \in Proc : own[p] # None => birth[own[p]] = own[p].tick

LEMMA NewerInType ==
  ASSUME NEW S \in SUBSET Dir, NEW d
  PROVE  IsFiniteSet({e \in S : Newer(e, d)}) /\ NewerIn(S, d) \in Nat
BY DirIsFinite, FS_Subset, FS_CardinalityType DEF NewerIn

LEMMA NewerInGrows ==
  ASSUME NEW S \in SUBSET Dir, NEW R \in SUBSET Dir, NEW d, NEW c,
         {e \in R : Newer(e, c)} \subseteq {e \in S : Newer(e, d)},
         NewerIn(R, c) >= Retained
  PROVE  NewerIn(S, d) >= Retained
<1>1. NewerIn(R, c) <= NewerIn(S, d)
      BY NewerInType, FS_Subset DEF NewerIn
<1>2. NewerIn(R, c) \in Nat /\ NewerIn(S, d) \in Nat /\ Retained \in Nat
      BY NewerInType, InvocationAssumption
<1>3. QED
  BY <1>1, <1>2

\* Directories are only added.
LEMMA KeptGrows ==
  ASSUME TypeOK, TypeOK', KeptInv, dirs \subseteq dirs',
         NEW p \in Proc, NEW d \in victims[p]
  PROVE  NewerIn(dirs', d) >= Retained
<1>1. dirs \in SUBSET Dir /\ dirs' \in SUBSET Dir /\ NewerIn(dirs, d) >= Retained
      BY DEF KeptInv, TypeOK
<1>2. {e \in dirs : Newer(e, d)} \subseteq {e \in dirs' : Newer(e, d)}
      OBVIOUS
<1>3. QED
  BY <1>1, <1>2, NewerInGrows

LEMMA InitKeptInv == Init => KeptInv
BY DEF Init, KeptInv

LEMMA NextKeptInv == TypeOK /\ TypeOK' /\ KeptInv /\ [Next]_vars => KeptInv'
<1> SUFFICES ASSUME TypeOK, TypeOK', KeptInv, [Next]_vars PROVE KeptInv'
    OBVIOUS
<1>1. ASSUME NEW p \in Proc, Allocate(p) PROVE KeptInv'
  <2> DEFINE d == [tick |-> clock, seq |-> seq[p]]
  <2>1. d \in Dir /\ d.tick = clock /\ UNCHANGED <<machine, victims>>
        BY <1>1 DEF Allocate, TypeOK, Dir
  <2>2. dirs \subseteq dirs'
        BY <1>1 DEF Allocate
  <2>3. \A q \in Proc : \A e \in victims'[q] : NewerIn(dirs', e) >= Retained
        BY <2>1, <2>2, KeptGrows
  <2>4. CASE d \in dirs
        BY <1>1, <2>1, <2>3, <2>4 DEF Allocate, KeptInv, machine
  <2>5. CASE d \notin dirs
    <3>1. /\ dirs' = dirs \cup {d} /\ own' = [own EXCEPT ![p] = d]
          /\ birth' = [birth EXCEPT ![d] = Now]
          BY <1>1, <2>5 DEF Allocate
    <3>2. boots = 0 => Now = clock
          BY InvocationAssumption DEF Now, TypeOK
    <3> HIDE DEF d
    <3>3. ASSUME boots = 0, NEW e \in dirs'
          PROVE  birth'[e] = e.tick
          BY <2>1, <3>1, <3>2, <3>3 DEF KeptInv, TypeOK
    <3>4. ASSUME boots = 0, NEW q \in Proc, own'[q] # None
          PROVE  birth'[own'[q]] = own'[q].tick
          BY <2>1, <3>1, <3>2, <3>4 DEF KeptInv, TypeOK
    <3>5. QED
          BY <2>1, <2>3, <3>3, <3>4 DEF KeptInv, machine
  <2>6. QED
        BY <2>4, <2>5
<1>2. ASSUME NEW p \in Proc, List(p) PROVE KeptInv'
  <2> DEFINE others == dirs \ {own[p], preserve[p]}
  <2>1. /\ victims' = [victims EXCEPT ![p] = Prunable(p)]
        /\ UNCHANGED <<dirs, machine, own, birth>>
        BY <1>2 DEF List, history
  <2>2. ASSUME NEW d \in Prunable(p) PROVE NewerIn(dirs, d) >= Retained
    <3>1. NewerIn(others, d) >= Retained
          BY <2>2 DEF Prunable, NewerIn
    <3>2. others \in SUBSET Dir /\ dirs \in SUBSET Dir
          BY DEF TypeOK
    <3>3. {e \in others : Newer(e, d)} \subseteq {e \in dirs : Newer(e, d)}
          OBVIOUS
    <3> HIDE DEF others
    <3>4. QED
          BY <3>1, <3>2, <3>3, NewerInGrows
  <2>3. QED
        BY <2>1, <2>2 DEF KeptInv, TypeOK, machine
<1>3. ASSUME NEW p \in Proc, RemoveOne(p) PROVE KeptInv'
  <2>1. PICK d \in victims[p] :
          /\ victims' = [victims EXCEPT ![p] = @ \ {d}]
          /\ dirs' = dirs \ {d} \/ dirs' = dirs
        BY <1>3 DEF RemoveOne
  <2>2. UNCHANGED <<machine, own, birth>> /\ d \in Dir /\ dirs \in SUBSET Dir
        BY <1>3 DEF RemoveOne, TypeOK
  <2>3. \A q \in Proc : victims'[q] \subseteq victims[q]
        BY <2>1 DEF TypeOK
  <2>4. ASSUME NEW q \in Proc, NEW c \in victims'[q], dirs' = dirs \ {d}
        PROVE  NewerIn(dirs', c) >= Retained
    <3> dirs' \in SUBSET Dir
        BY DEF TypeOK
    <3>1. c \in Dir /\ NewerIn(dirs, c) >= Retained /\ NewerIn(dirs, d) >= Retained
          BY <2>3 DEF KeptInv, TypeOK
    <3>2. CASE Newer(d, c)
      <4>1. {e \in dirs : Newer(e, d)} \subseteq {e \in dirs' : Newer(e, c)}
            BY <2>2, <2>4, <3>1, <3>2, NewerIsTransitive, NewerIsTotal
      <4>2. QED
            BY <2>2, <3>1, <4>1, NewerInGrows
    <3>3. CASE ~Newer(d, c)
      <4>1. {e \in dirs : Newer(e, c)} \subseteq {e \in dirs' : Newer(e, c)}
            BY <2>4, <3>3
      <4>2. QED
            BY <2>2, <3>1, <4>1, NewerInGrows
    <3>4. QED
          BY <3>2, <3>3
  <2>5. \A q \in Proc : \A c \in victims'[q] : NewerIn(dirs', c) >= Retained
        BY <2>1, <2>3, <2>4 DEF KeptInv
  <2>6. QED
        BY <2>1, <2>2, <2>5 DEF KeptInv, machine
<1>4. ASSUME NEW p \in Proc, CreateOutputs(p) PROVE KeptInv'
  <2>1. dirs' = dirs \cup {own[p]} /\ own[p] # None
        BY <1>4, NoneAssumption DEF CreateOutputs, TypeOK
  <2>2. UNCHANGED <<machine, locals, history>>
        BY <1>4 DEF CreateOutputs
  <2>3. \A q \in Proc : \A c \in victims'[q] : NewerIn(dirs', c) >= Retained
        BY <2>1, <2>2, KeptGrows DEF locals
  <2>4. QED
        BY <2>1, <2>2, <2>3 DEF KeptInv, machine, locals, history
<1>5. ASSUME Reboot PROVE KeptInv'
  <2>1. boots' # 0 /\ \A q \in Proc : victims'[q] = {}
        BY <1>5, InvocationAssumption DEF Reboot, TypeOK
  <2>2. QED
        BY <2>1 DEF KeptInv
<1>6. ASSUME NEW p \in Proc, End(p), UNCHANGED <<dirs, machine, birth>>
      PROVE  KeptInv'
      BY <1>6 DEF End, KeptInv, TypeOK, machine
<1>7. ASSUME UNCHANGED <<dirs, boots, victims, own, birth>> PROVE KeptInv'
      BY <1>7 DEF KeptInv
<1>8. CASE \/ \E p \in Proc :
                \/ \E parent \in dirs \cup {None} : Start(p, parent)
                \/ WritePlan(p) \/ Finish(p) \/ Crash(p)
           \/ Tick \/ UNCHANGED vars
      BY <1>6, <1>7, <1>8
      DEF Start, WritePlan, Finish, Crash, Tick, vars, machine, locals, history
<1>9. QED
  BY <1>1, <1>2, <1>3, <1>4, <1>5, <1>8 DEF Next

\* Only a pruning removes a directory.
LEMMA OnlyRemoved ==
  ASSUME TypeOK, [Next]_vars, NEW d \in dirs \ dirs'
  PROVE  \E p \in Proc : d \in victims[p]
<1>1. ASSUME NEW p \in Proc, Allocate(p) \/ List(p) \/ CreateOutputs(p)
      PROVE  FALSE
      BY <1>1 DEF Allocate, List, CreateOutputs
<1>2. ASSUME NEW p \in Proc, RemoveOne(p) PROVE d \in victims[p]
      BY <1>2 DEF RemoveOne
<1>3. UNCHANGED dirs => FALSE
      OBVIOUS
<1>4. QED
  BY <1>1, <1>2, <1>3
  DEF Next, Start, WritePlan, Finish, Crash, Tick, Reboot, vars, machine

\* However many processes prune at once, and whatever of it fails, until the
\* machine restarts a directory only goes when Retained others are not older.
THEOREM NewestStay == Spec => NewestAreKept
<1> DEFINE Keeps == boots = 0 => \A d \in dirs \ dirs' :
              Cardinality({e \in dirs \ {d} : birth[e] >= birth[d]}) >= Retained
<1>1. TypeOK /\ KeptInv /\ [Next]_vars => [Keeps]_vars
  <2> SUFFICES ASSUME TypeOK, KeptInv, [Next]_vars, boots = 0, NEW d \in dirs \ dirs'
               PROVE  Cardinality({e \in dirs \ {d} : birth[e] >= birth[d]}) >= Retained
      OBVIOUS
  <2> DEFINE notOlder == {e \in dirs \ {d} : birth[e] >= birth[d]}
  <2>1. NewerIn(dirs, d) >= Retained
        BY OnlyRemoved DEF KeptInv
  <2>2. d \in Dir /\ dirs \in SUBSET Dir /\ \A e \in dirs : birth[e] = e.tick
        BY DEF TypeOK, KeptInv
  <2>3. ASSUME NEW e \in dirs, Newer(e, d) PROVE e \in notOlder
        BY <2>2, <2>3, DirFields, NewerIsTotal DEF Newer
  <2>4. {e \in dirs : Newer(e, d)} \subseteq notOlder /\ IsFiniteSet(notOlder)
        BY <2>2, <2>3, DirIsFinite, FS_Subset
  <2> HIDE DEF notOlder
  <2>5. NewerIn(dirs, d) <= Cardinality(notOlder)
        BY <2>4, FS_Subset DEF NewerIn
  <2>6. Cardinality(notOlder) \in Nat /\ NewerIn(dirs, d) \in Nat
        BY <2>2, <2>4, FS_CardinalityType, NewerInType
  <2>7. Cardinality(notOlder) >= Retained
        BY <2>1, <2>5, <2>6, InvocationAssumption
  <2>8. QED
        BY <2>7 DEF notOlder
<1>2. Spec => []KeptInv
      BY TypeCorrect, InitKeptInv, NextKeptInv, PTL DEF Spec
<1>3. QED
  BY TypeCorrect, <1>1, <1>2, PTL DEF Spec, NewestAreKept
-----------------------------------------------------------------------------
(* Nothing that should go stays.                                            *)

Most == Retained + 1 + Cardinality(Proc)

\* While no removal was missed and nobody has yet to list, what exists is a few
\* directories, the processes' own among them, and what the last to list removes.
BoundInv ==
  smooth =>
    \/ \E p \in Proc : phase[p] = "list"
    \/ \E kept \in SUBSET Dir :
         /\ Cardinality(kept) <= Most
         /\ \A p \in Proc : own[p] # None => own[p] \in kept
         /\ dirs \subseteq kept \/ \E p \in Proc : dirs \subseteq kept \cup victims[p]

LEMMA ProcIsFinite == IsFiniteSet(Proc) /\ Cardinality(Proc) \in Nat /\ Retained \in Nat
BY InvocationAssumption, FS_CardinalityType

\* What a process does not remove is few.
LEMMA FewAreLeft ==
  ASSUME TypeOK, NEW p \in Proc
  PROVE  \E kept \in SUBSET Dir :
           /\ Cardinality(kept) <= Most
           /\ \A q \in Proc : own[q] # None => own[q] \in kept
           /\ dirs \subseteq kept \cup Prunable(p)
<1> DEFINE others == dirs \ {own[p], preserve[p]}
           newest == {d \in others : ~(NewerIn(others, d) >= Retained)}
           owned == {own[q] : q \in Proc}
           most == (newest \cup owned) \cup {preserve[p]}
           kept == most \cap Dir
<1>1. IsFiniteSet(newest) /\ Cardinality(newest) <= Retained
      BY FewAreNewest, ProcIsFinite DEF TypeOK
<1>2. IsFiniteSet(owned) /\ Cardinality(owned) <= Cardinality(Proc)
  <2> DEFINE f == [q \in Proc |-> own[q]]
  <2>1. f \in [Proc -> owned] /\ \A d \in owned : \E q \in Proc : f[q] = d
        OBVIOUS
  <2> HIDE DEF f, owned
  <2>2. f \in Surjection(Proc, owned)
        BY <2>1, Fun_IsSurj
  <2>3. QED
        BY <2>2, ProcIsFinite, FS_Surjection
<1>3. dirs \subseteq kept \cup Prunable(p)
      BY DEF TypeOK, Prunable, NewerIn
<1>4. \A q \in Proc : own[q] # None => own[q] \in kept
      BY DEF TypeOK
<1>5. kept \subseteq most /\ kept \in SUBSET Dir
      OBVIOUS
<1> HIDE DEF newest, owned, kept
<1>6. /\ IsFiniteSet(newest \cup owned)
      /\ Cardinality(newest \cup owned) <= Cardinality(newest) + Cardinality(owned)
  <2>1. IsFiniteSet(newest \cup owned) /\ IsFiniteSet(newest \cap owned)
        BY <1>1, <1>2, FS_Union, FS_Intersection
  <2>2. Cardinality(newest \cup owned)
          = Cardinality(newest) + Cardinality(owned) - Cardinality(newest \cap owned)
        BY <1>1, <1>2, FS_Union
  <2>3. /\ Cardinality(newest \cap owned) \in Nat
        /\ Cardinality(newest) \in Nat /\ Cardinality(owned) \in Nat
        BY <1>1, <1>2, <2>1, FS_CardinalityType
  <2>4. QED
        BY <2>1, <2>2, <2>3
<1>7. /\ IsFiniteSet(most)
      /\ Cardinality(most) <= Cardinality(newest \cup owned) + 1
  <2>1. Cardinality(newest \cup owned) \in Nat
        BY <1>6, FS_CardinalityType
  <2>2. QED
        BY <1>6, <2>1, FS_AddElement
<1>8. IsFiniteSet(kept) /\ Cardinality(kept) <= Cardinality(most)
      BY <1>5, <1>7, FS_Subset
<1>9. /\ Cardinality(newest) \in Nat /\ Cardinality(owned) \in Nat
      /\ Cardinality(newest \cup owned) \in Nat /\ Cardinality(most) \in Nat
      /\ Cardinality(kept) \in Nat
      BY <1>1, <1>2, <1>6, <1>7, <1>8, FS_CardinalityType
<1> HIDE DEF most
<1>10. Cardinality(kept) <= Most
      BY <1>1, <1>2, <1>6, <1>7, <1>8, <1>9, ProcIsFinite DEF Most
<1>11. QED
  BY <1>3, <1>4, <1>5, <1>10

LEMMA InitBoundInv == Init => BoundInv
<1> SUFFICES ASSUME Init PROVE BoundInv
    OBVIOUS
<1>1. Cardinality({}) = 0 /\ 0 <= Most
      BY FS_EmptySet, ProcIsFinite DEF Most
<1>2. QED
  BY <1>1 DEF Init, BoundInv

\* Nobody has yet to list, and the directories are still covered.
LEMMA StillBounded ==
  ASSUME TypeOK, BoundInv,
         smooth' => smooth,
         \A p \in Proc : phase[p] = "list" => phase'[p] = "list",
         \A p \in Proc : own'[p] \in {own[p], None},
         \A kept \in SUBSET Dir :
           (\A p \in Proc : own[p] # None => own[p] \in kept) =>
             /\ dirs \subseteq kept => dirs' \subseteq kept
             /\ \A p \in Proc : dirs \subseteq kept \cup victims[p] =>
                  dirs' \subseteq kept \/ dirs' \subseteq kept \cup victims'[p]
  PROVE  BoundInv'
BY DEF BoundInv, Most

LEMMA NextBoundInv == TypeOK /\ TypeOK' /\ BoundInv /\ [Next]_vars => BoundInv'
<1> SUFFICES ASSUME TypeOK, TypeOK', BoundInv, [Next]_vars PROVE BoundInv'
    OBVIOUS
<1>1. ASSUME NEW p \in Proc, NEW parent \in dirs \cup {None}, Start(p, parent)
      PROVE  BoundInv'
      BY <1>1, StillBounded DEF Start, Goto, history, TypeOK
<1>2. ASSUME NEW p \in Proc, Allocate(p) PROVE BoundInv'
  <2>1. CASE phase'[p] = "list"
        BY <2>1 DEF BoundInv
  <2>2. CASE phase'[p] # "list"
    <3>1. UNCHANGED <<dirs, phase, own, victims, smooth>>
          BY <1>2, <2>2 DEF Allocate, Goto, TypeOK
    <3>2. QED
          BY <3>1, StillBounded
  <2>3. QED
        BY <2>1, <2>2
<1>3. ASSUME NEW p \in Proc, List(p) PROVE BoundInv'
  <2>1. PICK kept \in SUBSET Dir :
          /\ Cardinality(kept) <= Most
          /\ \A q \in Proc : own[q] # None => own[q] \in kept
          /\ dirs \subseteq kept \cup Prunable(p)
        BY FewAreLeft
  <2>2. UNCHANGED <<dirs, own>> /\ victims'[p] = Prunable(p)
        BY <1>3 DEF List, TypeOK
  <2>3. QED
        BY <2>1, <2>2 DEF BoundInv, Most
<1>4. ASSUME NEW p \in Proc, RemoveOne(p) PROVE BoundInv'
  <2>1. PICK d \in victims[p] :
          /\ victims' = [victims EXCEPT ![p] = @ \ {d}]
          /\ \/ dirs' = dirs \ {d} /\ UNCHANGED smooth
             \/ smooth' = FALSE /\ UNCHANGED dirs
        BY <1>4 DEF RemoveOne
  <2>2. UNCHANGED <<phase, own>>
        BY <1>4 DEF RemoveOne
  <2>3. CASE smooth' = FALSE
        BY <2>3 DEF BoundInv
  <2>4. CASE dirs' = dirs \ {d} /\ UNCHANGED smooth
    <3>1. \A kept \in SUBSET Dir :
            /\ dirs \subseteq kept => dirs' \subseteq kept
            /\ \A q \in Proc : dirs \subseteq kept \cup victims[q] =>
                 dirs' \subseteq kept \cup victims'[q]
          BY <2>1, <2>4 DEF TypeOK
    <3>2. QED
          BY <2>2, <2>4, <3>1, StillBounded
  <2>5. QED
        BY <2>1, <2>3, <2>4
<1>5. ASSUME NEW p \in Proc, CreateOutputs(p) PROVE BoundInv'
  <2>1. /\ dirs' = dirs \cup {own[p]} /\ own[p] # None
        /\ phase[p] = "prune" /\ phase' = [phase EXCEPT ![p] = "writePlan"]
        /\ UNCHANGED <<locals, history>>
        BY <1>5, NoneAssumption DEF CreateOutputs, TypeOK, Goto
  <2>2. \A q \in Proc : phase[q] = "list" => phase'[q] = "list"
        BY <2>1 DEF TypeOK
  <2>3. QED
        BY <2>1, <2>2, StillBounded DEF locals, history
<1>6. ASSUME NEW p \in Proc, End(p), UNCHANGED dirs, UNCHANGED smooth,
             phase[p] \in {"writePlan", "compile"}
      PROVE  BoundInv'
  <2>1. \A q \in Proc : /\ phase[q] = "list" => phase'[q] = "list"
                        /\ own'[q] \in {own[q], None}
                        /\ victims[q] = victims'[q]
        BY <1>6 DEF End, Goto, TypeOK
  <2>2. QED
        BY <1>6, <2>1, StillBounded
<1>7. ASSUME NEW p \in Proc, WritePlan(p) \/ Finish(p) PROVE BoundInv'
  <2>1. CASE End(p)
        BY <1>6, <1>7, <2>1 DEF WritePlan, Finish, history
  <2>2. CASE ~End(p)
    <3>1. /\ phase' = [phase EXCEPT ![p] = "compile"] /\ phase[p] = "writePlan"
          /\ UNCHANGED <<dirs, locals, history>>
          BY <1>7, <2>2 DEF WritePlan, Finish, Goto
    <3>2. \A q \in Proc : phase[q] = "list" => phase'[q] = "list"
          BY <3>1 DEF TypeOK
    <3>3. QED
          BY <3>1, <3>2, StillBounded DEF locals, history
  <2>3. QED
        BY <2>1, <2>2
<1>8. ASSUME UNCHANGED <<dirs, phase, own, victims, smooth>> PROVE BoundInv'
      BY <1>8, StillBounded
<1>9. ASSUME smooth' = FALSE PROVE BoundInv'
      BY <1>9 DEF BoundInv
<1>10. CASE Tick \/ UNCHANGED vars
       BY <1>8, <1>10 DEF Tick, vars, locals, history
<1>11. CASE Reboot \/ \E p \in Proc : Crash(p)
       BY <1>9, <1>11 DEF Reboot, Crash
<1>12. QED
  BY <1>1, <1>2, <1>3, <1>4, <1>5, <1>7, <1>10, <1>11 DEF Next

\* The derived output of one cache key is bounded, for any number of processes
\* whose listings and removals interleave: the last to list accounts for all.
THEOREM OutputIsBounded == Spec => []RetentionIsBounded
<1>1. TypeOK /\ BoundInv => RetentionIsBounded
  <2> SUFFICES ASSUME TypeOK, BoundInv, smooth,
                      \A p \in Proc : phase[p] \notin {"list", "prune"}
               PROVE  Cardinality(dirs) <= Most
      BY DEF RetentionIsBounded, Most
  <2>1. PICK kept \in SUBSET Dir :
          /\ Cardinality(kept) <= Most
          /\ dirs \subseteq kept \/ \E p \in Proc : dirs \subseteq kept \cup victims[p]
        BY DEF BoundInv
  <2>2. \A p \in Proc : victims[p] = {}
        BY DEF TypeOK
  <2>3. dirs \subseteq kept /\ IsFiniteSet(kept)
        BY <2>1, <2>2, DirIsFinite, FS_Subset
  <2>4. /\ Cardinality(dirs) <= Cardinality(kept)
        /\ Cardinality(dirs) \in Nat /\ Cardinality(kept) \in Nat /\ Most \in Nat
        BY <2>3, FS_Subset, FS_CardinalityType, ProcIsFinite DEF Most
  <2>5. QED
        BY <2>1, <2>4
<1>2. QED
  BY <1>1, TypeCorrect, InitBoundInv, NextBoundInv, PTL DEF Spec

-----------------------------------------------------------------------------
(* Publishing.  Types, and what tells of success.                           *)

Stages ==
  {"idle", "choose", "validate", "select", "walk", "scan", "create", "write", "close",
   "rename", "secure", "size", "read", "wait", "answer", "done", "failed"}
Early == {"idle", "choose", "validate", "select"}

PublishTypeOK ==
  /\ DOMAIN tree = File
  /\ stage \in [Client -> Stages]
  /\ next \in [Client -> Nat \ {0}]
  /\ entries \in [Client -> SUBSET File]
  /\ edited \in [Client -> SUBSET File]
  /\ wire \in SUBSET Client
  /\ DOMAIN request = Client /\ DOMAIN candidate = Client /\ DOMAIN selection = Client
  /\ DOMAIN temp = Client /\ DOMAIN size = Client /\ DOMAIN upload = Client
  /\ DOMAIN answer = Client /\ DOMAIN seen = Client

\* What Conclude takes for success.
Passes(a) ==
  /\ a.exit = 0 /\ a.object /\ a.payload
  /\ (IF a.returncode = Absent THEN -1 ELSE a.returncode) = 0

IsPublished(p) ==
  /\ Version(upload[p]) \in DOMAIN registry
  /\ registry[Version(upload[p])].by = p

\* A request in the network is its sender's, who has no other; an answer that
\* passes is the registry's.
SentInv ==
  /\ \A p \in wire : stage[p] \in {"wait", "answer", "done", "failed"} /\ upload[p].by = p
  /\ \A p \in Client :
       /\ stage[p] = "answer" /\ Passes(answer[p]) => IsPublished(p)
       /\ stage[p] = "done" /\ request[p].command = "publish" => IsPublished(p)

LEMMA OnlyTheRegistryPasses ==
  \A a \in Denials \cup Strays \cup {Silence} : ~Passes(a)
BY DEF Denials, Strays, Silence, Passes

LEMMA PublishInitHolds == PublishInit => PublishTypeOK /\ SentInv
<1> SUFFICES ASSUME PublishInit PROVE PublishTypeOK /\ SentInv
  OBVIOUS
<1>1. PublishTypeOK
  BY PublishingAssumption DEF PublishInit, PublishTypeOK, Stages
<1>2. SentInv
  BY DEF PublishInit, SentInv
<1> QED BY <1>1, <1>2

-----------------------------------------------------------------------------
(* The order of the files.                                                  *)

LEMMA FilesPosition ==
  /\ Len(Files) \in Nat
  /\ File = {Files[i] : i \in 1..Len(Files)}
  /\ \A f \in File : f.at \in Place /\ f.kind \in Kind
<1> DEFINE Entry == [at : Place, kind : Kind]
<1>1. /\ Files \in Seq(Entry)
      /\ File = {Files[i] : i \in DOMAIN Files}
  BY PublishingAssumption DEF File, ToSet
<1>2. Len(Files) \in Nat /\ DOMAIN Files = 1..Len(Files)
  BY <1>1
<1>3. \A i \in 1..Len(Files) : Files[i] \in Entry
  <2> HIDE DEF Entry
  <2> QED BY <1>1
<1>4. \A f \in File : \E i \in 1..Len(Files) : f = Files[i]
  BY <1>1, <1>2
<1>5. \A f \in File : f.at \in Place /\ f.kind \in Kind
  BY <1>3, <1>4
<1> QED BY <1>1, <1>2, <1>5

\* Any positions have a least: what is below it shrinks from one to a smaller
\* one, and finite sets do not shrink for ever.
LEMMA LeastExists ==
  ASSUME NEW n \in Nat, NEW S \in SUBSET (1..n), S # {}
  PROVE  /\ Min(S) \in S
         /\ \A i \in S : Min(S) <= i
<1> DEFINE Below(m) == {i \in S : i < m}
           family == {Below(m) : m \in S}
           order == StrictSubsetOrdering(1..n)
<1>1. IsWellFoundedOn(order, SUBSET (1..n))
  <2>1. IsFiniteSet(1..n)
    BY FS_Interval
  <2>2. FiniteSubsetsOf(1..n) = SUBSET (1..n)
    BY <2>1, FS_FiniteSubsetsOfFinite
  <2> QED BY <2>1, <2>2, FS_StrictSubsetOrderingWellFounded
<1>2. family \subseteq SUBSET (1..n) /\ family # {}
  OBVIOUS
<1> HIDE DEF family
<1>3. PICK x \in family : \A y \in family : <<y, x>> \notin order
  BY <1>1, <1>2, WFMin
<1>4. PICK m \in S : x = Below(m)
  BY DEF family
<1>5. ASSUME NEW i \in S, i < m PROVE FALSE
  <2>1. Below(i) \subseteq Below(m) /\ i \in Below(m) /\ i \notin Below(i)
    <3>1. S \subseteq Int
      OBVIOUS
    <3>2. \A k \in S : k < i => k < m
      BY <1>5, <3>1
    <3>3. ~(i < i)
      BY <3>1
    <3>4. \A k : k \in Below(i) <=> k \in S /\ k < i
      OBVIOUS
    <3>5. \A k : k \in Below(m) <=> k \in S /\ k < m
      OBVIOUS
    <3> HIDE DEF Below
    <3> QED BY <1>5, <3>2, <3>3, <3>4, <3>5
  <2>2. <<Below(i), Below(m)>> \in order
    <3>1. \A A, B \in SUBSET (1..n) : A \subseteq B /\ A # B => <<A, B>> \in order
      BY DEF StrictSubsetOrdering
    <3>2. Below(i) \in SUBSET (1..n) /\ Below(m) \in SUBSET (1..n)
      OBVIOUS
    <3> HIDE DEF Below, order
    <3> QED BY <2>1, <3>1, <3>2
  <2>3. Below(i) \in family
    BY DEF family
  <2> QED BY <1>3, <1>4, <2>2, <2>3
<1>6. \A i \in S : m <= i
  BY <1>5
<1> QED BY <1>6 DEF Min

\* The first of the files that are still to come; the ones before it are not
\* among them.
LEMMA FirstOfComing ==
  ASSUME PublishTypeOK, NEW p \in Client, NEW X, Coming(p, X) # {}
  PROVE  /\ Min(Coming(p, X)) \in next[p]..Len(Files)
         /\ First(p, X) = Files[Min(Coming(p, X))]
         /\ First(p, X) \in X \cap File
         /\ \A i \in next[p]..(Min(Coming(p, X)) - 1) : Files[i] \notin X
<1>1. next[p] \in Nat /\ next[p] >= 1
  BY DEF PublishTypeOK
<1>2. Coming(p, X) \in SUBSET (1..Len(Files)) /\ Len(Files) \in Nat
  BY <1>1, FilesPosition DEF Coming
<1>3. /\ Min(Coming(p, X)) \in Coming(p, X)
      /\ \A n \in Coming(p, X) : Min(Coming(p, X)) <= n
  BY <1>2, LeastExists
<1> DEFINE m == Min(Coming(p, X))
<1>4. m \in next[p]..Len(Files) /\ Files[m] \in X
  BY <1>3 DEF Coming
<1>5. Files[m] \in File
  BY <1>1, <1>4, FilesPosition
<1>6. ASSUME NEW i \in next[p]..(m - 1), Files[i] \in X PROVE FALSE
  <2>1. i \in next[p]..Len(Files) /\ i < m
    BY <1>1, <1>2, <1>4
  <2>2. i \in Coming(p, X) /\ m <= i
    BY <1>3, <1>6, <2>1 DEF Coming
  <2> QED BY <1>1, <1>2, <1>4, <2>1, <2>2
<1> QED BY <1>4, <1>5, <1>6 DEF First

LEMMA StepPublishTypes ==
  ASSUME PublishTypeOK, NEW p \in Client, Step(p) PROVE PublishTypeOK'
<1> USE DEF PublishTypeOK, Stages, GoOn, Set, Rewind, Advance, walking, sending, past
<1>1. CASE Begin(p) \/ Choose(p) \/ ValidatePublishCandidate(p)
  BY <1>1 DEF Begin, Choose, ValidatePublishCandidate
<1>2. CASE Select(p)
  BY <1>2 DEF Select
<1>3. CASE Walk(p)
  <2>1. Coming(p, Visible(p)) # {} =>
          /\ Min(Coming(p, Visible(p))) + 1 \in Nat \ {0}
          /\ First(p, Visible(p)) \in File
    BY FirstOfComing, FilesPosition
  <2> QED BY <1>3, <2>1 DEF Walk
<1>4. CASE Scan(p)
  <2>1. Coming(p, Packed(p)) # {} =>
          /\ Min(Coming(p, Packed(p))) + 1 \in Nat \ {0}
          /\ First(p, Packed(p)) \in File
    BY FirstOfComing, FilesPosition
  <2> QED BY <1>4, <2>1 DEF Scan
<1>5. CASE Create(p) \/ Close(p) \/ Rename(p)
  BY <1>5 DEF Create, Close, Rename
<1>6. CASE Write(p)
  <2>1. Coming(p, Packed(p)) # {} =>
          /\ Min(Coming(p, Packed(p))) + 1 \in Nat \ {0}
          /\ First(p, Packed(p)) \in File
    BY FirstOfComing, FilesPosition
  <2> QED BY <1>6, <2>1 DEF Write
<1>7. CASE \E where \in {"create", "write", "close", "rename"} : FailsAt(p, where)
  BY <1>7 DEF FailsAt
<1>8. CASE Secure(p) \/ Measure(p) \/ Conclude(p)
  BY <1>8 DEF Secure, Measure, Conclude
<1>9. CASE Read(p)
  BY <1>9 DEF Read
<1>10. CASE Deliver(p) \/ Stray(p)
  BY <1>10 DEF Deliver, Stray, Answer
<1> QED BY <1>1, <1>2, <1>3, <1>4, <1>5, <1>6, <1>7, <1>8, <1>9, <1>10 DEF Step

LEMMA EditPublishTypes ==
  ASSUME PublishTypeOK, NEW f \in File, NEW data, Edit(f, data) PROVE PublishTypeOK'
BY DEF PublishTypeOK, Edit, walking, sending, Busy

LEMMA PublishTypes ==
  ASSUME PublishTypeOK, [PublishNext]_publishVars PROVE PublishTypeOK'
<1>1. CASE UNCHANGED publishVars
  BY <1>1 DEF PublishTypeOK, publishVars, walking, sending, past
<1>2. ASSUME NEW e \in Edits, Edit(e.file, e.data) PROVE PublishTypeOK'
  BY <1>2, EditPublishTypes, PublishingAssumption
<1> QED BY <1>1, <1>2, StepPublishTypes DEF PublishNext

-----------------------------------------------------------------------------
(* Success.                                                                 *)

\* A step that has nothing to do with the exchange, or only begins it.
LEMMA QuietStepSent ==
  ASSUME PublishTypeOK, SentInv, NEW p \in Client,
         UNCHANGED <<request, registry, wire, answer>>,
         stage[p] \notin {"wait", "answer", "done", "failed"},
         upload' = upload,
         \/ stage' = stage
         \/ \E to \in Stages : /\ stage' = [stage EXCEPT ![p] = to]
                               /\ to # "answer"
                               /\ to = "done" => request[p].command # "publish"
  PROVE  SentInv'
BY DEF PublishTypeOK, SentInv, IsPublished

LEMMA StepSentInv ==
  ASSUME PublishTypeOK, SentInv, NEW p \in Client, Step(p) PROVE SentInv'
<1> USE DEF GoOn, Rewind, walking, sending, past
<1>1. CASE Begin(p)
  BY <1>1, QuietStepSent DEF Begin, Stages
<1>2. CASE Choose(p) \/ ValidatePublishCandidate(p) \/ Select(p)
  BY <1>2, QuietStepSent DEF Choose, ValidatePublishCandidate, Select, Stages
<1>3. CASE Walk(p)
  BY <1>3, QuietStepSent DEF Walk, Stages
<1>4. CASE Scan(p)
  BY <1>4, QuietStepSent DEF Scan, Stages
<1>5. CASE Create(p) \/ Close(p) \/ Rename(p)
  BY <1>5, QuietStepSent DEF Create, Close, Rename, Stages
<1>6. CASE Write(p)
  BY <1>6, QuietStepSent DEF Write, Stages
<1>7. CASE \E where \in {"create", "write", "close", "rename"} : FailsAt(p, where)
  BY <1>7, QuietStepSent DEF FailsAt, Stages
<1>8. CASE Secure(p) \/ Measure(p)
  BY <1>8, QuietStepSent DEF Secure, Measure, Stages
<1>9. CASE Read(p)
  <2>1. CASE wire' = wire
    <3>1. stage' = [stage EXCEPT ![p] = "failed"] /\ upload' = upload
      BY <1>9, <2>1 DEF Read, SentInv
    <3> QED BY <1>9, <2>1, <3>1, QuietStepSent DEF Read, Stages
  <2>2. CASE wire' # wire
    <3>1. /\ stage[p] = "read" /\ stage' = [stage EXCEPT ![p] = "wait"]
          /\ wire' = wire \cup {p}
          /\ UNCHANGED <<request, registry, answer>>
          /\ upload'[p].by = p
          /\ \A q \in Client \ {p} : upload'[q] = upload[q]
      BY <1>9, <2>2 DEF Read, Set, PublishTypeOK
    <3> QED BY <3>1 DEF PublishTypeOK, SentInv, IsPublished
  <2> QED BY <2>1, <2>2
<1>10. CASE Deliver(p)
  <2>1. /\ p \in wire /\ wire' = wire \ {p}
        /\ UNCHANGED <<request, upload>>
        /\ upload[p].by = p
    BY <1>10 DEF Deliver, SentInv
  <2>2. CASE /\ Version(upload[p]) \notin DOMAIN registry
             /\ registry' = Put(registry, Version(upload[p]), upload[p])
             /\ Answer(p, Taken)
    <3>1. IsPublished(p)'
      BY <2>1, <2>2 DEF IsPublished, Version, Put
    <3>2. \A q \in Client : IsPublished(q) => IsPublished(q)'
      BY <2>1, <2>2 DEF IsPublished, Version, Put
    <3>3. \A q \in Client \ {p} : stage'[q] = stage[q] /\ answer'[q] = answer[q]
      BY <2>2 DEF Answer, Set, PublishTypeOK
    <3>4. \/ stage'[p] = stage[p] /\ answer'[p] = answer[p]
          \/ stage[p] = "wait" /\ stage'[p] = "answer"
      BY <2>2 DEF Answer, Set, PublishTypeOK
    <3>5. \A q \in wire' : /\ stage'[q] \in {"wait", "answer", "done", "failed"}
                           /\ upload'[q].by = q
      BY <2>1, <3>3, <3>4 DEF SentInv, PublishTypeOK
    <3>6. \A q \in Client :
            /\ stage'[q] = "answer" /\ Passes(answer'[q]) => IsPublished(q)'
            /\ stage'[q] = "done" /\ request'[q].command = "publish" => IsPublished(q)'
      BY <2>1, <3>1, <3>2, <3>3 DEF SentInv
    <3> QED BY <3>5, <3>6 DEF SentInv, Passes
  <2>3. CASE registry' = registry /\ \E denial \in Denials : Answer(p, denial)
    <3>1. PICK denial \in Denials : Answer(p, denial)
      BY <2>3
    <3>2. ~Passes(denial)
      BY OnlyTheRegistryPasses
    <3>3. \A q \in Client : IsPublished(q) => IsPublished(q)'
      BY <2>1, <2>3 DEF IsPublished
    <3>4. \A q \in Client \ {p} : stage'[q] = stage[q] /\ answer'[q] = answer[q]
      BY <3>1 DEF Answer, Set, PublishTypeOK
    <3>5. \/ stage'[p] = stage[p] /\ answer'[p] = answer[p]
          \/ stage[p] = "wait" /\ stage'[p] = "answer" /\ answer'[p] = denial
      BY <3>1 DEF Answer, Set, PublishTypeOK
    <3>6. \A q \in wire' : /\ stage'[q] \in {"wait", "answer", "done", "failed"}
                           /\ upload'[q].by = q
      BY <2>1, <3>4, <3>5 DEF SentInv, PublishTypeOK
    <3>7. \A q \in Client :
            /\ stage'[q] = "answer" /\ Passes(answer'[q]) => IsPublished(q)'
            /\ stage'[q] = "done" /\ request'[q].command = "publish" => IsPublished(q)'
      BY <2>1, <3>2, <3>3, <3>4, <3>5 DEF SentInv
    <3> QED BY <3>6, <3>7 DEF SentInv, Passes
  <2> QED BY <1>10, <2>2, <2>3 DEF Deliver
<1>11. CASE Stray(p)
  <2>1. PICK with \in Strays \cup {Silence} : Answer(p, with)
    BY <1>11 DEF Stray
  <2>2. ~Passes(with)
    BY OnlyTheRegistryPasses
  <2>3. /\ stage[p] = "wait"
        /\ stage' = [stage EXCEPT ![p] = "answer"]
        /\ answer' = [answer EXCEPT ![p] = with]
        /\ UNCHANGED <<request, registry, upload, wire>>
    BY <1>11, <2>1 DEF Stray, Answer, Set
  <2> QED BY <2>2, <2>3 DEF PublishTypeOK, SentInv, IsPublished
<1>12. CASE Conclude(p)
  <2>1. /\ stage[p] = "answer"
        /\ \/ stage' = [stage EXCEPT ![p] = "failed"]
           \/ stage' = [stage EXCEPT ![p] = "done"] /\ Passes(answer[p])
        /\ UNCHANGED <<request, registry, upload, wire, answer>>
    BY <1>12 DEF Conclude, Passes
  <2> QED BY <2>1 DEF PublishTypeOK, SentInv, IsPublished
<1> QED BY <1>1, <1>2, <1>3, <1>4, <1>5, <1>6, <1>7, <1>8, <1>9, <1>10, <1>11, <1>12
       DEF Step

LEMMA NextSentInv ==
  ASSUME PublishTypeOK, SentInv, [PublishNext]_publishVars PROVE SentInv'
<1>1. CASE UNCHANGED publishVars
  BY <1>1 DEF SentInv, IsPublished, publishVars, walking, sending, past
<1>2. ASSUME NEW f, NEW data, Edit(f, data) PROVE SentInv'
  BY <1>2 DEF SentInv, IsPublished, Edit, walking, sending
<1> QED BY <1>1, <1>2, StepSentInv DEF PublishNext

\* A publish that reports success has published, whatever the network does to
\* requests and answers (RunRegistryV2ControlPlanePublish).
THEOREM SuccessHasPublished == PublishSpec => []SuccessIsPublished
<1>1. SentInv => SuccessIsPublished
  BY DEF SentInv, IsPublished, SuccessIsPublished
<1>2. PublishTypeOK /\ SentInv /\ [PublishNext]_publishVars => (PublishTypeOK /\ SentInv)'
  BY PublishTypes, NextSentInv
<1> QED BY PublishInitHolds, <1>1, <1>2, PTL DEF PublishSpec

-----------------------------------------------------------------------------
(* The archive.                                                             *)

Packing == {"walk", "scan", "create", "write", "close", "rename"}

\* What the definitions of the module say of a process, for what it has.
Skips(sel, file) ==
  \/ sel.place # Root /\ file.at # sel.place
  \/ file.at = sel.place /\ file.kind \in {"manifest", "lock", "generated"}
  \/ file.at # sel.place /\ file.at \in Listed(sel.manifest)
  \/ file.kind = "hidden"
OwnFile(sel) == ManifestFile(sel.place)
InPackage(was, sel, file) == was[file] # Absent /\ ~Skips(sel, file)

\* The archive a has of the tree before what ArchiveIsPackage wants.
IsWhole(a, before) ==
  /\ a.closed
  /\ a.parts[a.own] = SerializeManifestCanonical(a.selection.manifest)
  /\ \A file \in File \ (a.edited \cup {a.own}) :
       IF Belongs(file, a.selection) /\ before[file] # Absent
         THEN /\ file \in DOMAIN a.parts
              /\ a.parts[file] = before[file]
              /\ a.parts[file] \notin Refused \cup {Link}
         ELSE file \notin DOMAIN a.parts

\* What is in a temporary archive: what the tree was, of what nobody edited.
Holds(tmp, ent, sel, was, ed) ==
  /\ DOMAIN tmp = {"prefix", "own", "parts", "closed", "by", "selection", "edited"}
  /\ tmp.own = OwnFile(sel) /\ tmp.selection = sel
  /\ DOMAIN tmp.parts \subseteq ent \cup {OwnFile(sel)}
  /\ \A f \in DOMAIN tmp.parts :
       /\ f = OwnFile(sel) => tmp.parts[f] = SerializeManifestCanonical(sel.manifest)
       /\ f # OwnFile(sel) /\ f \notin ed => tmp.parts[f] = was[f]

\* What the process me, in stage st, knows: n is its position, ent its entries,
\* cand and sel its selections, was and now the tree when it began and at
\* present, ed what was edited, tmp its archive.
PackOK(me, st, n, ent, cand, sel, was, now, ed, tmp) ==
  /\ st \in Early => n = 1 /\ ent = {}
  /\ cand # Absent => cand.place \in Place
  /\ st \notin {"idle", "done", "failed"} => \A f \in File \ ed : now[f] = was[f]
  /\ st \in Packing =>
       /\ sel.place \in Place
       /\ \A f \in ent \ ed :
            InPackage(was, sel, f) /\ was[f] # Link /\ f.kind # "secret"
  /\ st = "walk" =>
       \A i \in 1..Len(Files) :
         i < n /\ Files[i] \notin ed /\ InPackage(was, sel, Files[i]) => Files[i] \in ent
  /\ st \in {"scan", "create", "write", "close"} =>
       \A f \in File \ ed : InPackage(was, sel, f) => f \in ent
  /\ st = "scan" =>
       \A i \in 1..Len(Files) :
         i < n /\ Files[i] \in ent \ ed /\ Files[i] # OwnFile(sel) =>
           was[Files[i]] \notin Refused
  /\ st \in {"create", "write", "close"} =>
       \A f \in ent \ ed : f # OwnFile(sel) => was[f] \notin Refused
  /\ st = "create" => n = 1
  /\ st \in {"write", "close"} => Holds(tmp, ent, sel, was, ed) /\ tmp.by = me
  /\ st = "write" =>
       \A i \in 1..Len(Files) :
         i < n /\ Files[i] \in ent \cup {OwnFile(sel)} => Files[i] \in DOMAIN tmp.parts
  /\ st = "close" => ent \cup {OwnFile(sel)} \subseteq DOMAIN tmp.parts
  /\ st = "rename" => IsWhole(tmp, was) /\ tmp.by = me

KnowsArchive(p) ==
  PackOK(p, stage[p], next[p], entries[p], candidate[p], selection[p], seen[p], tree,
         edited[p], temp[p])

ArchiveInv ==
  /\ \A p \in Client : KnowsArchive(p)
  /\ \A path \in DOMAIN archives :
       LET a == archives[path]
       IN a.by \in Client /\ stage[a.by] # "idle" /\ IsWhole(a, seen[a.by])

LEMMA ProcessTerms ==
  ASSUME NEW p \in Client
  PROVE  /\ Own(p) = OwnFile(selection[p])
         /\ Packed(p) = entries[p] \cup {OwnFile(selection[p])}
         /\ Inline(p) = SerializeManifestCanonical(selection[p].manifest)
         /\ \A f : Skipped(p, f) <=> Skips(selection[p], f)
BY DEF Own, OwnFile, Packed, Inline, Skipped, Skips

LEMMA PublishInitArchive == PublishInit => ArchiveInv
<1> SUFFICES ASSUME PublishInit PROVE ArchiveInv
  OBVIOUS
<1>1. archives = << >> /\ DOMAIN archives = {}
  BY DEF PublishInit, Empty
<1>2. ASSUME NEW p \in Client PROVE KnowsArchive(p)
  BY DEF PublishInit, KnowsArchive, PackOK, Early, Packing
<1> QED BY <1>1, <1>2 DEF ArchiveInv

\* A step of p leaves alone what the others have; nobody but Begin changes what p
\* has seen.
LEMMA StepOfClient ==
  ASSUME PublishTypeOK, SentInv, NEW p \in Client, Step(p)
  PROVE  /\ UNCHANGED <<tree, edited, request>>
         /\ \A q \in Client \ {p} :
              /\ stage'[q] = stage[q] /\ next'[q] = next[q] /\ entries'[q] = entries[q]
              /\ candidate'[q] = candidate[q] /\ selection'[q] = selection[q]
              /\ seen'[q] = seen[q] /\ temp'[q] = temp[q]
         /\ stage'[p] # "idle"
         /\ seen' = seen \/ stage[p] = "idle"
<1> USE DEF PublishTypeOK, GoOn, Set, Rewind, Advance, walking, sending, past
<1>1. CASE Begin(p) \/ Choose(p) \/ ValidatePublishCandidate(p)
  BY <1>1 DEF Begin, Choose, ValidatePublishCandidate
<1>2. CASE Select(p)
  BY <1>2 DEF Select
<1>3. CASE Walk(p)
  BY <1>3 DEF Walk
<1>4. CASE Scan(p)
  BY <1>4 DEF Scan
<1>5. CASE Create(p) \/ Close(p) \/ Rename(p)
  BY <1>5 DEF Create, Close, Rename
<1>6. CASE Write(p)
  BY <1>6 DEF Write
<1>7. CASE \E where \in {"create", "write", "close", "rename"} : FailsAt(p, where)
  BY <1>7 DEF FailsAt
<1>8. CASE Secure(p) \/ Measure(p) \/ Conclude(p)
  BY <1>8 DEF Secure, Measure, Conclude
<1>9. CASE Read(p)
  BY <1>9 DEF Read
<1>10. CASE Deliver(p)
  BY <1>10 DEF Deliver, Answer, SentInv
<1>11. CASE Stray(p)
  BY <1>11 DEF Stray, Answer
<1> QED BY <1>1, <1>2, <1>3, <1>4, <1>5, <1>6, <1>7, <1>8, <1>9, <1>10, <1>11 DEF Step

-----------------------------------------------------------------------------
(* The archive: the steps.                                                  *)

\* A package that is selected is one of the tree.
LEMMA SelectedPlace ==
  ASSUME NEW place \in Place, NEW package, Loadable(place),
         NEW s \in Selected(place, package)
  PROVE  s.place \in Place
<1>1. \A c \in CollectPackageCandidates(place) : c.place \in Place
  BY DEF CollectPackageCandidates, Loadable
<1>2. \E c \in CollectPackageCandidates(place) : s.place = c.place
  BY DEF Selected
<1> QED BY <1>1, <1>2

\* What is neither passed over nor a secret, and there, belongs to the package.
LEMMA BelongsIfPacked ==
  ASSUME NEW sel, NEW file \in File, file # OwnFile(sel)
  PROVE  Belongs(file, sel) <=> ~Skips(sel, file) /\ file.kind # "secret"
<1>1. file.kind \in Kind
  BY FilesPosition
<1> QED BY <1>1 DEF Belongs, Skips, Kind

\* Before the archive there is nothing to know, and after it nothing more.
LEMMA PackSelecting ==
  ASSUME NEW me, NEW st \in Early, NEW cand, NEW sel, NEW was, NEW now, NEW ed, NEW tmp,
         cand # Absent => cand.place \in Place,
         \A f \in File \ ed : now[f] = was[f]
  PROVE  PackOK(me, st, 1, {}, cand, sel, was, now, ed, tmp)
BY DEF PackOK, Early, Packing

LEMMA PackFinished ==
  ASSUME NEW me, NEW st, NEW n, NEW ent, NEW cand, NEW sel, NEW was, NEW now, NEW ed,
         NEW tmp, NEW st2, NEW n2, NEW ent2, NEW tmp2,
         PackOK(me, st, n, ent, cand, sel, was, now, ed, tmp),
         st \notin {"idle", "done", "failed"} \/ st2 \in {"done", "failed"},
         st2 \in {"secure", "size", "read", "wait", "answer", "done", "failed"}
  PROVE  PackOK(me, st2, n2, ent2, cand, sel, was, now, ed, tmp2)
BY DEF PackOK, Early, Packing

\* Edits only make less known.
LEMMA PackEdited ==
  ASSUME NEW me, NEW st, NEW n, NEW ent, NEW cand, NEW sel, NEW was, NEW now, NEW ed,
         NEW tmp, NEW now2, NEW ed2, NEW f,
         PackOK(me, st, n, ent, cand, sel, was, now, ed, tmp),
         \A g \in File \ {f} : now2[g] = now[g],
         ed \subseteq ed2,
         f \in ed2 \/ st \in {"idle", "done", "failed"}
  PROVE  PackOK(me, st, n, ent, cand, sel, was, now2, ed2, tmp)
<1>1. st \notin {"idle", "done", "failed"} => \A g \in File \ ed2 : now2[g] = was[g]
  BY DEF PackOK
<1>2. Holds(tmp, ent, sel, was, ed) => Holds(tmp, ent, sel, was, ed2)
  BY DEF Holds
<1> QED BY <1>1, <1>2 DEF PackOK, Packing

\* Up to the walk.
LEMMA ArchiveSelecting ==
  ASSUME PublishTypeOK, NEW p \in Client, KnowsArchive(p),
         Begin(p) \/ Choose(p) \/ ValidatePublishCandidate(p) \/ Select(p)
  PROVE  KnowsArchive(p)'
<1> DEFINE Known == PackOK(p, stage[p], next[p], entries[p], candidate[p], selection[p],
                           seen[p], tree, edited[p], temp[p])
<1>1. Known
  BY DEF KnowsArchive
<1>2. /\ next[p] = 1 /\ entries[p] = {}
      /\ candidate[p] # Absent => candidate[p].place \in Place
      /\ stage[p] # "idle" => \A f \in File \ edited[p] : tree[f] = seen[p][f]
  <2>1. stage[p] \in Early
    BY DEF Begin, Choose, ValidatePublishCandidate, Select, Early
  <2> QED BY <1>1, <2>1 DEF PackOK, Early
<1> HIDE DEF Known
<1> USE DEF PublishTypeOK, GoOn, Set, walking, sending, past
<1>3. CASE Begin(p)
  <2>1. /\ stage'[p] \in Early /\ next'[p] = 1 /\ entries'[p] = {} /\ seen'[p] = tree'
        /\ candidate'[p] = candidate[p]
    BY <1>2, <1>3 DEF Begin, Early
  <2> QED BY <1>2, <2>1, PackSelecting DEF KnowsArchive
<1>4. CASE Choose(p)
  <2>1. /\ stage'[p] \in {"validate", "failed"} /\ next'[p] = 1 /\ entries'[p] = {}
        /\ UNCHANGED <<seen, tree, edited>>
    BY <1>2, <1>4 DEF Choose
  <2>2. candidate'[p] # Absent => candidate'[p].place \in Place
    BY <1>2, <1>4, SelectedPlace, PublishingAssumption DEF Choose
  <2>3. \A f \in File \ edited'[p] : tree'[f] = seen'[p][f]
    BY <1>2, <1>4, <2>1 DEF Choose
  <2> QED BY <2>1, <2>2, <2>3 DEF KnowsArchive, PackOK, Early, Packing
<1>5. CASE ValidatePublishCandidate(p)
  <2>1. /\ stage'[p] \in {"select", "failed"} /\ next'[p] = 1 /\ entries'[p] = {}
        /\ UNCHANGED <<seen, tree, edited, candidate>>
    BY <1>2, <1>5 DEF ValidatePublishCandidate
  <2>2. \A f \in File \ edited'[p] : tree'[f] = seen'[p][f]
    BY <1>2, <1>5, <2>1 DEF ValidatePublishCandidate
  <2> QED BY <1>2, <2>1, <2>2 DEF KnowsArchive, PackOK, Early, Packing
<1>6. CASE Select(p)
  <2>1. /\ \/ stage'[p] = "walk" /\ selection'[p].place \in Place
           \/ stage'[p] = "failed"
        /\ next'[p] = 1 /\ entries'[p] = {}
        /\ UNCHANGED <<seen, tree, edited, candidate>>
    BY <1>2, <1>6, SelectedPlace, PublishingAssumption DEF Select
  <2>2. \A f \in File \ edited'[p] : tree'[f] = seen'[p][f]
    BY <1>2, <1>6, <2>1 DEF Select
  <2>3. CASE stage'[p] = "walk"
    <3>1. ~\E i \in 1..Len(Files) : i < 1
      BY FilesPosition
    <3> QED BY <1>2, <2>1, <2>2, <2>3, <3>1 DEF KnowsArchive, PackOK, Early, Packing
  <2>4. CASE stage'[p] = "failed"
    BY <1>2, <2>1, <2>2, <2>4 DEF KnowsArchive, PackOK, Early, Packing
  <2> QED BY <2>1, <2>3, <2>4
<1> QED BY <1>3, <1>4, <1>5, <1>6

\* The walk: what it has passed it has collected.
LEMMA ArchiveWalk ==
  ASSUME PublishTypeOK, NEW p \in Client, KnowsArchive(p), Walk(p)
  PROVE  KnowsArchive(p)'
<1> DEFINE sel == selection[p]
           ed == edited[p]
           was == seen[p]
           X == Visible(p)
<1>1. /\ candidate[p] # Absent => candidate[p].place \in Place
      /\ \A f \in File \ ed : tree[f] = was[f]
      /\ sel.place \in Place
      /\ \A f \in entries[p] \ ed : InPackage(was, sel, f) /\ was[f] # Link /\ f.kind # "secret"
      /\ \A i \in 1..Len(Files) :
           i < next[p] /\ Files[i] \notin ed /\ InPackage(was, sel, Files[i])
             => Files[i] \in entries[p]
  BY DEF KnowsArchive, PackOK, Walk, Packing
<1>2. /\ next[p] \in Nat /\ next[p] >= 1 /\ Len(Files) \in Nat
      /\ entries[p] \subseteq File
  BY FilesPosition DEF PublishTypeOK
<1>3. \A f \in File \ ed : f \in X <=> InPackage(was, sel, f)
  BY <1>1, ProcessTerms DEF Visible, InPackage
<1>4. UNCHANGED <<candidate, selection, seen, tree, edited, temp>> /\ stage[p] = "walk"
  BY DEF Walk, sending, past
<1> USE DEF PublishTypeOK, GoOn, Set, Rewind, Advance
<1>5. CASE Coming(p, X) = {}
  <2>1. stage'[p] = "scan" /\ next'[p] = 1 /\ entries' = entries
    BY <1>5 DEF Walk
  <2>2. ASSUME NEW f \in File \ ed, InPackage(was, sel, f) PROVE f \in entries[p]
    <3>1. PICK i \in 1..Len(Files) : f = Files[i]
      BY FilesPosition
    <3>2. i >= next[p] => i \in Coming(p, X)
      BY <1>2, <1>3, <2>2, <3>1 DEF Coming
    <3> QED BY <1>1, <1>2, <1>5, <2>2, <3>1, <3>2
  <2>3. ~\E i \in 1..Len(Files) : i < 1
    BY <1>2
  <2> QED BY <1>1, <1>4, <2>1, <2>2, <2>3 DEF KnowsArchive, PackOK, Early, Packing
<1>6. CASE Coming(p, X) # {}
  <2> DEFINE m == Min(Coming(p, X))
             file == First(p, X)
  <2>1. /\ m \in next[p]..Len(Files) /\ file = Files[m] /\ file \in X \cap File
        /\ \A i \in next[p]..(m - 1) : Files[i] \notin X
    BY <1>6, FirstOfComing
  <2>2. CASE file.kind = "secret" \/ tree[file] = Link
    <3>1. stage'[p] = "failed"
      BY <1>6, <2>2 DEF Walk
    <3> QED BY <1>1, <1>4, <3>1 DEF KnowsArchive, PackOK, Early, Packing
  <2>3. CASE ~(file.kind = "secret" \/ tree[file] = Link)
    <3>1. /\ stage'[p] = "walk" /\ next'[p] = m + 1
          /\ entries'[p] = entries[p] \cup {file}
      BY <1>4, <1>6, <2>3 DEF Walk
    <3> HIDE DEF m, file
    <3>2. \A f \in entries'[p] \ ed :
            InPackage(was, sel, f) /\ was[f] # Link /\ f.kind # "secret"
      BY <1>1, <1>3, <2>1, <2>3, <3>1
    <3>3. ASSUME NEW i \in 1..Len(Files), i < m + 1, Files[i] \notin ed,
                 InPackage(was, sel, Files[i])
          PROVE  Files[i] \in entries'[p]
      <4>1. Files[i] \in File
        BY FilesPosition
      <4>2. Files[i] \in X
        BY <1>3, <3>3, <4>1
      <4>3. i < next[p] \/ i \in next[p]..(m - 1) \/ i = m
        BY <1>2, <2>1, <3>3
      <4> QED BY <1>1, <2>1, <3>1, <3>3, <4>2, <4>3
    <3> HIDE DEF X
    <3> QED BY <1>1, <1>4, <3>1, <3>2, <3>3 DEF KnowsArchive, PackOK, Early, Packing
  <2> QED BY <2>2, <2>3
<1> QED BY <1>5, <1>6

\* The scan: what it has passed has not the shape of a credential.
LEMMA ArchiveScan ==
  ASSUME PublishTypeOK, NEW p \in Client, KnowsArchive(p), Scan(p)
  PROVE  KnowsArchive(p)'
<1> DEFINE sel == selection[p]
           mine == OwnFile(sel)
           ed == edited[p]
           was == seen[p]
           X == Packed(p)
<1>1. /\ candidate[p] # Absent => candidate[p].place \in Place
      /\ \A f \in File \ ed : tree[f] = was[f]
      /\ sel.place \in Place
      /\ \A f \in entries[p] \ ed : InPackage(was, sel, f) /\ was[f] # Link /\ f.kind # "secret"
      /\ \A f \in File \ ed : InPackage(was, sel, f) => f \in entries[p]
      /\ \A i \in 1..Len(Files) :
           i < next[p] /\ Files[i] \in entries[p] \ ed /\ Files[i] # mine
             => was[Files[i]] \notin Refused
  BY DEF KnowsArchive, PackOK, Scan, Packing
<1>2. /\ next[p] \in Nat /\ next[p] >= 1 /\ Len(Files) \in Nat
      /\ entries[p] \subseteq File
  BY FilesPosition DEF PublishTypeOK
<1>3. X = entries[p] \cup {mine} /\ Own(p) = mine
  BY ProcessTerms
<1>4. UNCHANGED <<candidate, selection, seen, tree, edited, temp, entries>>
  BY DEF Scan, sending, past
<1> USE DEF PublishTypeOK, GoOn, Set, Rewind, Advance
<1>5. CASE Coming(p, X) = {}
  <2>1. stage'[p] = "create" /\ next'[p] = 1
    BY <1>5 DEF Scan
  <2>2. ASSUME NEW f \in entries[p] \ ed, f # mine PROVE was[f] \notin Refused
    <3>1. PICK i \in 1..Len(Files) : f = Files[i]
      BY <1>2, FilesPosition
    <3>2. i >= next[p] => i \in Coming(p, X)
      BY <1>2, <1>3, <3>1 DEF Coming
    <3> QED BY <1>1, <1>2, <1>5, <2>2, <3>1, <3>2
  <2> QED BY <1>1, <1>4, <2>1, <2>2 DEF KnowsArchive, PackOK, Early, Packing
<1>6. CASE Coming(p, X) # {}
  <2> DEFINE m == Min(Coming(p, X))
             file == First(p, X)
  <2>1. /\ m \in next[p]..Len(Files) /\ file = Files[m] /\ file \in X \cap File
        /\ \A i \in next[p]..(m - 1) : Files[i] \notin X
    BY <1>6, FirstOfComing
  <2>2. CASE Contents(p, file) \in Refused \cup {Absent}
    <3>1. stage'[p] = "failed"
      BY <1>6, <2>2 DEF Scan
    <3> QED BY <1>1, <1>4, <3>1 DEF KnowsArchive, PackOK, Early, Packing
  <2>3. CASE Contents(p, file) \notin Refused \cup {Absent}
    <3>1. stage'[p] = "scan" /\ next'[p] = m + 1
      BY <1>6, <2>3 DEF Scan
    <3>2. file \notin ed /\ file # mine => was[file] \notin Refused
      BY <1>1, <1>3, <2>1, <2>3 DEF Contents
    <3> HIDE DEF m, file
    <3>3. ASSUME NEW i \in 1..Len(Files), i < m + 1, Files[i] \in entries[p] \ ed,
                 Files[i] # mine
          PROVE  was[Files[i]] \notin Refused
      <4>1. i < next[p] \/ i \in next[p]..(m - 1) \/ i = m
        BY <1>2, <2>1, <3>3
      <4> QED BY <1>1, <1>3, <2>1, <3>2, <3>3, <4>1
    <3> HIDE DEF X
    <3> QED BY <1>1, <1>4, <3>1, <3>3 DEF KnowsArchive, PackOK, Early, Packing
  <2> QED BY <2>2, <2>3
<1> QED BY <1>5, <1>6

\* What a process knows from the scan to the end of the archive.
LEMMA KnowsEntries ==
  ASSUME NEW p \in Client, KnowsArchive(p), stage[p] \in {"create", "write", "close"}
  PROVE  /\ candidate[p] # Absent => candidate[p].place \in Place
         /\ \A f \in File \ edited[p] : tree[f] = seen[p][f]
         /\ selection[p].place \in Place
         /\ \A f \in entries[p] \ edited[p] :
              /\ InPackage(seen[p], selection[p], f) /\ seen[p][f] # Link
              /\ f.kind # "secret"
              /\ f # OwnFile(selection[p]) => seen[p][f] \notin Refused
         /\ \A f \in File \ edited[p] : InPackage(seen[p], selection[p], f) => f \in entries[p]
BY DEF KnowsArchive, PackOK, Packing

LEMMA ArchiveCreate ==
  ASSUME PublishTypeOK, NEW p \in Client, KnowsArchive(p), Create(p)
  PROVE  KnowsArchive(p)'
<1>1. /\ stage'[p] = "write" /\ next'[p] = 1
      /\ UNCHANGED <<candidate, selection, seen, tree, edited, entries>>
      /\ temp'[p] = [prefix |-> Prefix(p), own |-> Own(p), parts |-> Empty, closed |-> FALSE,
                     by |-> p, selection |-> selection[p], edited |-> {}]
  BY DEF Create, KnowsArchive, PackOK, Packing, PublishTypeOK, GoOn, Set, sending, past
<1>2. Holds(temp'[p], entries'[p], selection'[p], seen'[p], edited'[p]) /\ temp'[p].by = p
  BY <1>1, ProcessTerms DEF Holds, Empty
<1>3. ~\E i \in 1..Len(Files) : i < 1
  BY FilesPosition
<1>4. stage[p] \in {"create", "write", "close"}
  BY DEF Create
<1> QED BY <1>1, <1>2, <1>3, <1>4, KnowsEntries DEF KnowsArchive, PackOK, Early, Packing

\* The archive: what it has passed it holds, and nothing but entries.
LEMMA ArchiveWrite ==
  ASSUME PublishTypeOK, NEW p \in Client, KnowsArchive(p), Write(p)
  PROVE  KnowsArchive(p)'
<1> DEFINE sel == selection[p]
           mine == OwnFile(sel)
           ed == edited[p]
           was == seen[p]
           X == Packed(p)
           parts == temp[p].parts
<1>1. /\ Holds(temp[p], entries[p], sel, was, ed) /\ temp[p].by = p
      /\ \A i \in 1..Len(Files) :
           i < next[p] /\ Files[i] \in entries[p] \cup {mine} => Files[i] \in DOMAIN parts
  BY DEF KnowsArchive, PackOK, Write, Packing
<1>2. /\ next[p] \in Nat /\ next[p] >= 1 /\ Len(Files) \in Nat
      /\ entries[p] \subseteq File
  BY FilesPosition DEF PublishTypeOK
<1>3. /\ X = entries[p] \cup {mine} /\ Own(p) = mine
      /\ Inline(p) = SerializeManifestCanonical(sel.manifest)
  BY ProcessTerms
<1>4. UNCHANGED <<candidate, selection, seen, tree, edited, entries>>
  BY DEF Write, sending, past
<1>5. stage[p] \in {"create", "write", "close"}
  BY DEF Write
<1>6. X \subseteq File
  <2>1. mine \in File
    BY <1>5, KnowsEntries, PublishingAssumption DEF OwnFile, ManifestFile
  <2> QED BY <1>2, <1>3, <2>1
<1> USE DEF PublishTypeOK, GoOn, Set, Rewind, Advance
<1>7. CASE Coming(p, X) = {}
  <2>1. stage'[p] = "close" /\ next'[p] = 1 /\ temp' = temp
    BY <1>7 DEF Write
  <2>2. ASSUME NEW f \in X PROVE f \in DOMAIN parts
    <3>1. PICK i \in 1..Len(Files) : f = Files[i]
      BY <1>6, FilesPosition
    <3>2. i >= next[p] => i \in Coming(p, X)
      BY <1>2, <3>1 DEF Coming
    <3> QED BY <1>1, <1>2, <1>3, <1>7, <3>1, <3>2
  <2> HIDE DEF X
  <2> QED BY <1>1, <1>3, <1>4, <1>5, <2>1, <2>2, KnowsEntries
       DEF KnowsArchive, PackOK, Early, Packing
<1>8. CASE Coming(p, X) # {}
  <2> DEFINE m == Min(Coming(p, X))
             file == First(p, X)
  <2>1. /\ m \in next[p]..Len(Files) /\ file = Files[m] /\ file \in X \cap File
        /\ \A i \in next[p]..(m - 1) : Files[i] \notin X
    BY <1>8, FirstOfComing
  <2>2. CASE Contents(p, file) = Absent
    <3>1. stage'[p] = "failed"
      BY <1>8, <2>2 DEF Write
    <3> QED BY <1>4, <1>5, <3>1, KnowsEntries DEF KnowsArchive, PackOK, Early, Packing
  <2>3. CASE Contents(p, file) # Absent
    <3>1. /\ stage'[p] = "write" /\ next'[p] = m + 1
          /\ temp' = [temp EXCEPT ![p].parts = Put(@, file, Contents(p, file))]
      BY <1>8, <2>3 DEF Write
    <3>2. Contents(p, file) = IF file = mine THEN SerializeManifestCanonical(sel.manifest)
                              ELSE tree[file]
      BY <1>3 DEF Contents
    <3> DEFINE value == Contents(p, file)
    <3> HIDE DEF m, file, value
    <3>3. /\ DOMAIN temp'[p] = DOMAIN temp[p]
          /\ temp'[p].own = temp[p].own /\ temp'[p].selection = temp[p].selection
          /\ temp'[p].by = temp[p].by
          /\ temp'[p].parts = Put(parts, file, value)
      BY <1>1, <3>1 DEF Holds, value
    <3>4. /\ DOMAIN temp'[p].parts = DOMAIN parts \cup {file}
          /\ temp'[p].parts[file] = value
          /\ \A f \in DOMAIN parts \ {file} : temp'[p].parts[f] = parts[f]
      BY <3>3 DEF Put
    <3>5. Holds(temp'[p], entries[p], sel, was, ed)
      <4>1. file # mine /\ file \notin ed => tree[file] = was[file]
        BY <1>5, <2>1, KnowsEntries
      <4>2. DOMAIN temp'[p].parts \subseteq entries[p] \cup {mine}
        BY <1>1, <1>3, <2>1, <3>4 DEF Holds
      <4>3. ASSUME NEW f \in DOMAIN temp'[p].parts
            PROVE  /\ f = mine => temp'[p].parts[f] = SerializeManifestCanonical(sel.manifest)
                   /\ f # mine /\ f \notin ed => temp'[p].parts[f] = was[f]
        <5>1. CASE f = file
          BY <3>2, <3>4, <4>1, <5>1 DEF value
        <5>2. CASE f # file
          BY <1>1, <3>4, <4>3, <5>2 DEF Holds
        <5> QED BY <5>1, <5>2
      <4> QED BY <1>1, <3>3, <4>2, <4>3 DEF Holds
    <3>6. ASSUME NEW i \in 1..Len(Files), i < m + 1, Files[i] \in X
          PROVE  Files[i] \in DOMAIN temp'[p].parts
      <4>1. i < next[p] \/ i \in next[p]..(m - 1) \/ i = m
        BY <1>2, <2>1, <3>6
      <4> QED BY <1>1, <1>3, <2>1, <3>4, <3>6, <4>1
    <3> HIDE DEF X, mine
    <3>7. temp'[p].by = p
      BY <1>1, <3>3
    <3> QED BY <1>3, <1>4, <1>5, <3>1, <3>5, <3>6, <3>7, KnowsEntries
         DEF KnowsArchive, PackOK, Early, Packing, mine
  <2> QED BY <2>2, <2>3
<1> QED BY <1>7, <1>8

\* With its trailer the archive is what ArchiveIsPackage wants.
LEMMA ArchiveClose ==
  ASSUME PublishTypeOK, NEW p \in Client, KnowsArchive(p), Close(p)
  PROVE  KnowsArchive(p)'
<1> DEFINE sel == selection[p]
           mine == OwnFile(sel)
           ed == edited[p]
           was == seen[p]
           parts == temp[p].parts
<1>1. /\ Holds(temp[p], entries[p], sel, was, ed) /\ temp[p].by = p
      /\ entries[p] \cup {mine} \subseteq DOMAIN parts
  BY DEF KnowsArchive, PackOK, Close, Packing
<1>2. stage[p] \in {"create", "write", "close"}
  BY DEF Close
<1>3. /\ stage'[p] = "rename"
      /\ UNCHANGED <<candidate, selection, seen, tree, edited, entries>>
      /\ temp' = [temp EXCEPT ![p].closed = TRUE, ![p].edited = ed]
  BY DEF Close, PublishTypeOK, GoOn, sending, past
<1>4. /\ temp'[p].own = mine /\ temp'[p].selection = sel /\ temp'[p].by = p
      /\ temp'[p].parts = parts /\ temp'[p].closed /\ temp'[p].edited = ed
  BY <1>1, <1>3 DEF Holds, PublishTypeOK
<1>5. parts[mine] = SerializeManifestCanonical(sel.manifest)
  BY <1>1 DEF Holds
<1>6. ASSUME NEW file \in File \ (ed \cup {mine})
      PROVE  IF Belongs(file, sel) /\ was[file] # Absent
               THEN /\ file \in DOMAIN parts
                    /\ parts[file] = was[file]
                    /\ parts[file] \notin Refused \cup {Link}
               ELSE file \notin DOMAIN parts
  <2>1. Belongs(file, sel) <=> ~Skips(sel, file) /\ file.kind # "secret"
    BY BelongsIfPacked
  <2>2. file \in DOMAIN parts <=> file \in entries[p]
    BY <1>1 DEF Holds
  <2>3. file \in DOMAIN parts => parts[file] = was[file]
    BY <1>1 DEF Holds
  <2>4. file \in entries[p] =>
          /\ InPackage(was, sel, file) /\ file.kind # "secret"
          /\ was[file] \notin Refused \cup {Link}
    BY <1>2, KnowsEntries
  <2>5. InPackage(was, sel, file) => file \in entries[p]
    BY <1>2, KnowsEntries
  <2> QED BY <2>1, <2>2, <2>3, <2>4, <2>5 DEF InPackage
<1>7. IsWhole(temp'[p], seen'[p])
  BY <1>3, <1>4, <1>5, <1>6 DEF IsWhole
<1>8. /\ selection'[p].place \in Place
      /\ candidate'[p] # Absent => candidate'[p].place \in Place
      /\ \A f \in File \ edited'[p] : tree'[f] = seen'[p][f]
      /\ \A f \in entries'[p] \ edited'[p] :
           /\ InPackage(seen'[p], selection'[p], f) /\ seen'[p][f] # Link
           /\ f.kind # "secret"
  BY <1>2, <1>3, KnowsEntries
<1> QED BY <1>3, <1>4, <1>7, <1>8 DEF KnowsArchive, PackOK, Early, Packing

\* The rename, the exchange, and what fails.
LEMMA ArchiveFinished ==
  ASSUME PublishTypeOK, SentInv, NEW p \in Client, KnowsArchive(p),
         \/ Rename(p) \/ Secure(p) \/ Measure(p) \/ Read(p) \/ Deliver(p) \/ Stray(p)
         \/ Conclude(p) \/ \E where \in {"create", "write", "close", "rename"} : FailsAt(p, where)
  PROVE  KnowsArchive(p)'
<1> USE DEF PublishTypeOK, GoOn, Set, Rewind, walking, sending, past
<1>1. /\ UNCHANGED <<candidate, selection, seen, tree, edited>>
      /\ stage[p] \notin {"idle", "done", "failed"} \/ stage'[p] \in {"done", "failed"}
      /\ stage'[p] \in {"secure", "size", "read", "wait", "answer", "done", "failed"}
  <2>1. CASE Rename(p)
    BY <2>1 DEF Rename
  <2>2. CASE Secure(p) \/ Measure(p) \/ Conclude(p)
    BY <2>2 DEF Secure, Measure, Conclude
  <2>3. CASE Read(p)
    BY <2>3 DEF Read
  <2>4. CASE Deliver(p)
    BY <2>4 DEF Deliver, Answer, SentInv
  <2>5. CASE Stray(p)
    BY <2>5 DEF Stray, Answer
  <2>6. CASE \E where \in {"create", "write", "close", "rename"} : FailsAt(p, where)
    BY <2>6 DEF FailsAt
  <2> QED BY <2>1, <2>2, <2>3, <2>4, <2>5, <2>6
<1> QED BY <1>1, PackFinished DEF KnowsArchive

LEMMA StepKnowsArchive ==
  ASSUME PublishTypeOK, SentInv, NEW p \in Client, KnowsArchive(p), Step(p)
  PROVE  KnowsArchive(p)'
BY ArchiveSelecting, ArchiveWalk, ArchiveScan, ArchiveCreate, ArchiveWrite, ArchiveClose,
   ArchiveFinished DEF Step

\* A step changes the archives in place only by a rename.
LEMMA StepArchives ==
  ASSUME PublishTypeOK, NEW p \in Client, Step(p)
  PROVE  archives' = archives \/ Rename(p)
BY DEF Step, Begin, Choose, ValidatePublishCandidate, Select, Walk, Scan, Create, Write, Close,
       FailsAt, Secure, Measure, Read, Deliver, Stray, Conclude

LEMMA StepArchiveInv ==
  ASSUME PublishTypeOK, SentInv, ArchiveInv, NEW p \in Client, Step(p)
  PROVE  ArchiveInv'
<1>1. ASSUME NEW q \in Client PROVE KnowsArchive(q)'
  <2>1. CASE q = p
    BY <2>1, StepKnowsArchive DEF ArchiveInv
  <2>2. CASE q # p
    BY <2>2, StepOfClient DEF ArchiveInv, KnowsArchive
  <2> QED BY <2>1, <2>2
<1>2. ASSUME NEW q \in Client, stage[q] # "idle"
      PROVE  stage'[q] # "idle" /\ seen'[q] = seen[q]
  BY <1>2, StepOfClient
<1>3. ASSUME NEW path \in DOMAIN archives'
      PROVE  /\ archives'[path].by \in Client /\ stage'[archives'[path].by] # "idle"
             /\ IsWhole(archives'[path], seen'[archives'[path].by])
  <2>1. CASE path \in DOMAIN archives /\ archives'[path] = archives[path]
    BY <1>2, <2>1 DEF ArchiveInv
  <2>2. CASE Rename(p) /\ archives'[path] = temp[p]
    <3>1. IsWhole(temp[p], seen[p]) /\ temp[p].by = p /\ stage[p] # "idle"
      BY <2>2 DEF ArchiveInv, KnowsArchive, PackOK, Rename
    <3> QED BY <1>2, <2>2, <3>1
  <2>3. Rename(p) => archives' = Put(archives, ArchivePath(p), temp[p])
    BY DEF Rename
  <2> QED BY <1>3, <2>1, <2>2, <2>3, StepArchives DEF Put
<1> QED BY <1>1, <1>3 DEF ArchiveInv

LEMMA EditArchiveInv ==
  ASSUME PublishTypeOK, ArchiveInv, NEW f \in File, NEW data, Edit(f, data)
  PROVE  ArchiveInv'
<1>1. /\ UNCHANGED <<archives, stage, next, entries, candidate, selection, seen, temp>>
      /\ \A g \in File \ {f} : tree'[g] = tree[g]
      /\ \A p \in Client :
           /\ edited[p] \subseteq edited'[p]
           /\ f \in edited'[p] \/ stage[p] \in {"idle", "done", "failed"}
  BY DEF PublishTypeOK, Edit, Busy, walking
<1>2. ASSUME NEW p \in Client PROVE KnowsArchive(p)'
  <2>1. PackOK(p, stage[p], next[p], entries[p], candidate[p], selection[p], seen[p], tree,
               edited[p], temp[p])
    BY DEF ArchiveInv, KnowsArchive
  <2>2. PackOK(p, stage[p], next[p], entries[p], candidate[p], selection[p], seen[p], tree',
               edited'[p], temp[p])
    BY <1>1, <2>1, PackEdited
  <2> QED BY <1>1, <2>2 DEF KnowsArchive
<1> QED BY <1>1, <1>2 DEF ArchiveInv

LEMMA NextArchiveInv ==
  ASSUME PublishTypeOK, SentInv, ArchiveInv, [PublishNext]_publishVars PROVE ArchiveInv'
<1>1. CASE UNCHANGED publishVars
  BY <1>1 DEF ArchiveInv, KnowsArchive, publishVars, walking, sending, past
<1>2. ASSUME NEW e \in Edits, Edit(e.file, e.data) PROVE ArchiveInv'
  BY <1>2, EditArchiveInv, PublishingAssumption
<1> QED BY <1>1, <1>2, StepArchiveInv DEF PublishNext

\* Whatever is edited while it is made, an archive in place is complete and of
\* that package alone (CollectPackEntries, WriteTarArchive).
THEOREM ArchivesAreWhole == PublishSpec => []ArchiveIsPackage
<1>1. ArchiveInv => ArchiveIsPackage
  BY DEF ArchiveInv, IsWhole, ArchiveIsPackage
<1>2. PublishInit => PublishTypeOK /\ SentInv /\ ArchiveInv
  BY PublishInitHolds, PublishInitArchive
<1>3. PublishTypeOK /\ SentInv /\ ArchiveInv /\ [PublishNext]_publishVars
        => (PublishTypeOK /\ SentInv /\ ArchiveInv)'
  BY PublishTypes, NextSentInv, NextArchiveInv
<1> QED BY <1>1, <1>2, <1>3, PTL DEF PublishSpec

-----------------------------------------------------------------------------
(* Manifests.  What is written is read again as it was.                     *)

LEMMA TablesAreThere ==
  ASSUME JunkIsNoTable, NEW f, f = [x \in DOMAIN f |-> f[x]]
  PROVE  f # Absent /\ f # Junk
<1>1. f \in [DOMAIN f -> {f[x] : x \in DOMAIN f}]
  OBVIOUS
<1> DEFINE functions == [DOMAIN f -> {f[x] : x \in DOMAIN f}]
<1>2. Absent \notin functions /\ Junk \notin functions
  BY DEF JunkIsNoTable
<1> HIDE DEF functions
<1> QED BY <1>1, <1>2 DEF functions

\* A list whose names differ is in their order what it was.
LEMMA SortedList ==
  ASSUME NEW n \in Nat, NEW targets, targets \in [1..n -> ToSet(targets)],
         \A i \in 1..n : targets[i]["name"] \in Nat,
         \A i, j \in 1..n : targets[i]["name"] = targets[j]["name"] => i = j
  PROVE  /\ DOMAIN ByName(targets) = 1..n
         /\ ByName(targets) = [i \in 1..n |-> ByName(targets)[i]]
         /\ \A i \in 1..n : ByName(targets)[i] \in ToSet(targets)
         /\ \A i, j \in 1..n : ByName(targets)[i]["name"] = ByName(targets)[j]["name"] => i = j
<1> DEFINE S == ToSet(targets)
           Before(t) == {u \in S : u["name"] < t["name"]}
           rank(t) == Cardinality(Before(t))
<1>1. /\ \A i \in 1..n : targets[i] \in S
      /\ \A t \in S : \E i \in 1..n : t = targets[i]
  BY DEF ToSet
<1>2. /\ \A t \in S : t["name"] \in Nat
      /\ \A t, u \in S : t["name"] = u["name"] => t = u
  BY <1>1
<1>3. IsFiniteSet(1..n) /\ Cardinality(1..n) = n
  BY FS_Interval
<1>4. IsFiniteSet(S) /\ Cardinality(S) = n
  <2>1. targets \in Surjection(1..n, S)
    BY <1>1 DEF Surjection
  <2>2. targets \in Injection(1..n, S)
    BY <1>1 DEF Injection, IsInjective
  <2> HIDE DEF S
  <2> QED BY <1>3, <2>1, <2>2, FS_Surjection
<1>5. \A t \in S : IsFiniteSet(Before(t)) /\ rank(t) \in 0..(n - 1)
  <2> SUFFICES ASSUME NEW t \in S PROVE IsFiniteSet(Before(t)) /\ rank(t) \in 0..(n - 1)
    OBVIOUS
  <2>1. Before(t) \in SUBSET S /\ t \notin Before(t)
    BY <1>2
  <2>2. /\ IsFiniteSet(Before(t)) /\ Cardinality(Before(t)) <= n
        /\ Cardinality(Before(t)) # n
    <3> HIDE DEF Before, S
    <3> QED BY <1>4, <2>1, FS_Subset
  <2>3. Cardinality(Before(t)) \in Nat
    BY <2>2, FS_CardinalityType
  <2> HIDE DEF Before
  <2> QED BY <2>2, <2>3
<1>6. \A t, u \in S : t["name"] < u["name"] => rank(t) # rank(u)
  <2> SUFFICES ASSUME NEW t \in S, NEW u \in S, t["name"] < u["name"]
               PROVE  rank(t) # rank(u)
    OBVIOUS
  <2>1. Before(t) \in SUBSET Before(u)
    BY <1>2
  <2>2. t \in Before(u) /\ t \notin Before(t)
    BY <1>2
  <2>3. IsFiniteSet(Before(u))
    BY <1>5
  <2> HIDE DEF Before
  <2> QED BY <2>1, <2>2, <2>3, FS_Subset
<1>7. \A t, u \in S : rank(t) = rank(u) => t = u
  <2> HIDE DEF rank
  <2> QED BY <1>2, <1>6
<1>8. \A i \in 1..n : \E t \in S : rank(t) = i - 1
  <2> DEFINE position == [t \in S |-> rank(t) + 1]
  <2>1. \A t \in S : rank(t) + 1 \in 1..n
    <3> HIDE DEF rank, Before, S
    <3> QED BY <1>5
  <2>2. position \in [S -> 1..n]
    <3> HIDE DEF rank, S
    <3> QED BY <2>1
  <2>3. \A t, u \in S : position[t] = position[u] => t = u
    <3>1. \A t \in S : position[t] = rank(t) + 1 /\ rank(t) \in Int
      <4> HIDE DEF rank, Before, S
      <4> QED BY <1>5
    <3> HIDE DEF rank, position
    <3> QED BY <1>7, <3>1
  <2>4. position \in Injection(S, 1..n)
    <3> HIDE DEF position, S
    <3> QED BY <2>2, <2>3 DEF Injection, IsInjective
  <2>5. position \in Surjection(S, 1..n)
    <3> HIDE DEF position, S
    <3> QED BY <1>3, <1>4, <2>4, FS_Injection
  <2> SUFFICES ASSUME NEW i \in 1..n PROVE \E t \in S : rank(t) = i - 1
    OBVIOUS
  <2>6. PICK t \in S : position[t] = i
    <3> HIDE DEF position, S
    <3> QED BY <2>5 DEF Surjection
  <2>7. position[t] = rank(t) + 1 /\ rank(t) \in Int
    <3> HIDE DEF rank, Before, S
    <3> QED BY <1>5
  <2> HIDE DEF position, rank
  <2> QED BY <2>6, <2>7
<1> DEFINE sorted == [i \in 1..n |-> CHOOSE t \in S : rank(t) = i - 1]
<1>9. ByName(targets) = sorted
  BY DEF ByName
<1>10. \A i \in 1..n : sorted[i] \in S /\ rank(sorted[i]) = i - 1
  <2> HIDE DEF rank, S
  <2> QED BY <1>8
<1>11. \A i, j \in 1..n : sorted[i]["name"] = sorted[j]["name"] => i = j
  <2> SUFFICES ASSUME NEW i \in 1..n, NEW j \in 1..n,
                      sorted[i]["name"] = sorted[j]["name"]
               PROVE  i = j
    OBVIOUS
  <2> HIDE DEF sorted, rank, S
  <2>1. sorted[i] = sorted[j]
    BY <1>2, <1>10
  <2>2. i - 1 = j - 1
    BY <1>10, <2>1
  <2> QED BY <2>2
<1>12. DOMAIN sorted = 1..n /\ sorted = [i \in 1..n |-> sorted[i]]
  <2> DEFINE pick(i) == CHOOSE t \in S : rank(t) = i - 1
  <2>1. sorted = [i \in 1..n |-> pick(i)]
    OBVIOUS
  <2> HIDE DEF pick, sorted
  <2> QED BY <2>1
<1> HIDE DEF sorted, rank
<1> QED BY <1>9, <1>10, <1>11, <1>12

\* What is written of a table is what it has.
LEMMA WrittenTable ==
  ASSUME NEW table
  PROVE  /\ \A key \in DOMAIN table : At(Written(table), key) = table[key]
         /\ \A key : key \notin DOMAIN table => At(Written(table), key) = Absent
         /\ \A key : key \in DOMAIN Written(table)
                       <=> key \in DOMAIN table /\ table[key] # Absent
         /\ JunkIsNoTable => Written(table) # Absent /\ Written(table) # Junk
<1> DEFINE w == Written(table)
<1>1. w = [key \in {k \in DOMAIN table : table[k] # Absent} |-> table[key]]
  BY DEF Written
<1>2. w = [x \in DOMAIN w |-> w[x]]
  BY <1>1
<1>3. JunkIsNoTable => w # Absent /\ w # Junk
  <2> HIDE DEF w
  <2> QED BY <1>2, TablesAreThere
<1>4. /\ \A key : key \in DOMAIN w <=> key \in DOMAIN table /\ table[key] # Absent
      /\ \A key \in DOMAIN w : w[key] = table[key]
  BY <1>1
<1> HIDE DEF w
<1>5. /\ \A key \in DOMAIN table : At(w, key) = table[key]
      /\ \A key : key \notin DOMAIN table => At(w, key) = Absent
  BY <1>4 DEF At
<1> QED BY <1>3, <1>4, <1>5 DEF w

LEMMA WrittenDependency ==
  ASSUME JunkIsNoTable, NEW d
  PROVE  LET w == EmitDependency(d)
         IN /\ w # Junk /\ w # Absent
            /\ At(w, "package") = d.package
            /\ At(w, "path") = (IF d.kind = "path" THEN d.source ELSE Absent)
            /\ At(w, "git") = (IF d.kind = "git" THEN d.source ELSE Absent)
            /\ At(w, "registry") = (IF d.kind = "registry" THEN d.source ELSE Absent)
            /\ At(w, "rev") = d.rev /\ At(w, "version") = d.version
            /\ \A k \in {"path", "git", "registry", "version"} :
                 k \in DOMAIN w <=> At(w, k) # Absent
<1> DEFINE table ==
      [package |-> d.package,
       path |-> IF d.kind = "path" THEN d.source ELSE Absent,
       git |-> IF d.kind = "git" THEN d.source ELSE Absent,
       rev |-> d.rev, version |-> d.version,
       registry |-> IF d.kind = "registry" THEN d.source ELSE Absent]
<1>1. EmitDependency(d) = Written(table)
  BY DEF EmitDependency
<1>2. DOMAIN table = {"package", "path", "git", "rev", "version", "registry"}
  OBVIOUS
<1>3. /\ table["package"] = d.package
      /\ table["path"] = (IF d.kind = "path" THEN d.source ELSE Absent)
      /\ table["git"] = (IF d.kind = "git" THEN d.source ELSE Absent)
      /\ table["registry"] = (IF d.kind = "registry" THEN d.source ELSE Absent)
      /\ table["rev"] = d.rev /\ table["version"] = d.version
  OBVIOUS
<1> HIDE DEF table
<1>4. \A k \in DOMAIN table : At(Written(table), k) = table[k]
  BY WrittenTable
<1>5. \A k \in DOMAIN table : k \in DOMAIN Written(table) <=> table[k] # Absent
  BY WrittenTable
<1>6. Written(table) # Junk /\ Written(table) # Absent
  BY WrittenTable
<1> QED BY <1>1, <1>2, <1>3, <1>4, <1>5, <1>6

\* A dependency is written as it was read: its keys are those of its kind.
LEMMA DependencyIsReadAgain ==
  ASSUME JunkIsNoTable, NEW entry, ValidDependency(entry)
  PROVE  LET w == EmitDependency(ParseDependency(entry))
         IN ValidDependency(w) /\ ParseDependency(w) = ParseDependency(entry)
<1> DEFINE d == ParseDependency(entry)
           w == EmitDependency(d)
           K == SourceKinds(entry)
<1>1. \A x : (CHOOSE k \in {x} : TRUE) = x
  OBVIOUS
<1>2. /\ d.package \in PackageName \cup {Absent}
      /\ d.package = Optional(entry, "package", Absent)
      /\ \/ /\ d.kind = "path" /\ d.source \in RelativePath
            /\ d.rev = Absent /\ d.version = Absent
         \/ /\ d.kind = "git" /\ d.source \in GitUrl
            /\ d.rev \in CommitId /\ d.version = Absent
         \/ /\ d.kind = "registry" /\ d.source \in RegistryUrl
            /\ d.rev = Absent /\ d.version \in Semver
            /\ d.package \in PackageName
  <2>1. CASE K = {"path"}
    <3>1. (CHOOSE k \in K : TRUE) = "path"
      BY <1>1, <2>1
    <3>2. At(entry, "path") \in RelativePath /\ entry["path"] = At(entry, "path")
      BY <2>1 DEF ValidDependency, At, SourceKinds
    <3> QED BY <3>1, <3>2 DEF ParseDependency, ValidDependency
  <2>2. CASE K = {"git"}
    <3>1. (CHOOSE k \in K : TRUE) = "git"
      BY <1>1, <2>2
    <3>2. /\ At(entry, "git") \in GitUrl /\ entry["git"] = At(entry, "git")
          /\ At(entry, "rev") \in CommitId /\ entry["rev"] = At(entry, "rev")
      BY <2>2, ManifestAssumption DEF ValidDependency, At, SourceKinds
    <3> QED BY <3>1, <3>2 DEF ParseDependency, ValidDependency
  <2>3. CASE K = {"registry"}
    <3>1. (CHOOSE k \in K : TRUE) = "registry"
      BY <1>1, <2>3
    <3>2. /\ At(entry, "registry") \in RegistryUrl
          /\ entry["registry"] = At(entry, "registry")
          /\ At(entry, "version") \in Semver /\ entry["version"] = At(entry, "version")
          /\ At(entry, "package") \in PackageName
      BY <2>3, ManifestAssumption DEF ValidDependency, At
    <3>3. Optional(entry, "package", Absent) = At(entry, "package")
      BY <3>2, ManifestAssumption DEF Optional
    <3> QED BY <3>1, <3>2, <3>3 DEF ParseDependency
  <2> QED BY <2>1, <2>2, <2>3 DEF ValidDependency
<1>3. d = [package |-> d.package, kind |-> d.kind, source |-> d.source, rev |-> d.rev,
           version |-> d.version]
  BY DEF ParseDependency
<1> HIDE DEF d, w, K
<1>4. /\ w # Junk
      /\ At(w, "package") = d.package
      /\ At(w, "path") = (IF d.kind = "path" THEN d.source ELSE Absent)
      /\ At(w, "git") = (IF d.kind = "git" THEN d.source ELSE Absent)
      /\ At(w, "registry") = (IF d.kind = "registry" THEN d.source ELSE Absent)
      /\ At(w, "rev") = d.rev /\ At(w, "version") = d.version
      /\ \A k \in {"path", "git", "registry", "version"} :
           k \in DOMAIN w <=> At(w, k) # Absent
  BY WrittenDependency DEF w
<1>5. \A S \in {PackageName, Semver, CommitId, RelativePath, GitUrl, RegistryUrl} :
        Absent \notin S /\ Junk \notin S
  BY ManifestAssumption
<1>6. SourceKinds(w) = {d.kind}
  BY <1>2, <1>4, <1>5 DEF SourceKinds
<1>7. Optional(w, "package", Absent) = d.package
  BY <1>2, <1>4, <1>5 DEF Optional
<1>8. Cardinality(SourceKinds(w)) = 1
  BY <1>6, FS_Singleton
<1>9. ValidDependency(w)
  BY <1>2, <1>4, <1>6, <1>7, <1>8 DEF ValidDependency
<1>10. (CHOOSE k \in SourceKinds(w) : TRUE) = d.kind
  BY <1>1, <1>6
<1>11. /\ w[d.kind] = d.source
       /\ (IF d.kind = "git" THEN w["rev"] ELSE Absent) = d.rev
       /\ (IF d.kind = "registry" THEN w["version"] ELSE Absent) = d.version
  BY <1>2, <1>4, <1>5 DEF At
<1>12. ParseDependency(w) = d
  BY <1>3, <1>7, <1>10, <1>11 DEF ParseDependency
<1> QED BY <1>9, <1>12 DEF d, w

\* A list of targets, and a table of dependencies.
LEMMA TargetsAreReadAgain ==
  ASSUME JunkIsNoTable, NEW doc, NEW d, NEW key \in {"bin", "test"},
         doc # Absent, doc # Junk, Parsed(doc), ValidTargets(doc, key),
         At(d, key) = Section(ByName(Optional(doc, key, Empty)))
  PROVE  /\ ValidTargets(d, key)
         /\ ParseTargets(doc, key) # Empty => ParseTargets(d, key) # Empty
<1> DEFINE list == Optional(doc, key, Empty)
           n == Len(list)
<1>1. /\ list \in Seq(ToSet(list))
      /\ \A i \in DOMAIN list : list[i] # Junk /\ "name" \in DOMAIN list[i] =>
           list[i]["name"] \in Nat \cup {Junk}
  <2>1. CASE list = Empty
    <3>1. Empty \in Seq(ToSet(Empty)) /\ DOMAIN Empty = {}
      BY DEF Empty
    <3> QED BY <2>1, <3>1
  <2>2. CASE list # Empty
    <3>1. key \in DOMAIN doc \cap {"bin", "test"} /\ list = doc[key] /\ list # Junk
      BY <2>2 DEF Optional, At
    <3>2. doc[key] # Absent
      BY <2>2 DEF Optional, At
    <3> HIDE DEF list
    <3> QED BY <3>1, <3>2 DEF Parsed, Array
  <2> QED BY <2>1, <2>2
<1>2. /\ \A i \in DOMAIN list : /\ list[i] # Junk
                                /\ At(list[i], "name") \notin {Absent, Junk, 0}
                                /\ At(list[i], "path") \in ContainedPath
      /\ \A i, j \in DOMAIN list : list[i]["name"] = list[j]["name"] => i = j
  BY DEF ValidTargets
<1> HIDE DEF list
<1>3. n \in Nat /\ list \in [1..n -> ToSet(list)] /\ DOMAIN list = 1..n
  BY <1>1, SeqDef
<1> HIDE DEF n
<1>4. \A i \in 1..n : "name" \in DOMAIN list[i] /\ list[i]["name"] \in Nat
  BY <1>1, <1>2, <1>3 DEF At
<1> DEFINE sorted == ByName(list)
<1>5. /\ DOMAIN sorted = 1..n /\ sorted = [i \in 1..n |-> sorted[i]]
      /\ \A i \in 1..n : sorted[i] \in ToSet(list)
      /\ \A i, j \in 1..n : sorted[i]["name"] = sorted[j]["name"] => i = j
  BY <1>2, <1>3, <1>4, SortedList
<1>6. sorted # Absent /\ sorted # Junk
  <2>1. sorted = [x \in DOMAIN sorted |-> sorted[x]]
    <3> HIDE DEF sorted
    <3> QED BY <1>5
  <2> HIDE DEF sorted
  <2> QED BY <2>1, TablesAreThere
<1>7. \A t \in ToSet(list) : /\ t # Junk /\ At(t, "name") \notin {Absent, Junk, 0}
                             /\ At(t, "path") \in ContainedPath
  BY <1>2 DEF ToSet
<1> HIDE DEF sorted
<1>8. Optional(d, key, Empty) = sorted
  <2>1. At(d, key) = IF sorted = Empty THEN Absent ELSE sorted
    BY DEF list, sorted, Section
  <2> QED BY <1>6, <2>1 DEF Optional
<1>9. ValidTargets(d, key)
  BY <1>5, <1>7, <1>8 DEF ValidTargets
<1>10. list # Empty => sorted # Empty
  <2>1. n = 0 => list = << >>
    BY <1>1 DEF n
  <2>2. DOMAIN Empty = 1..0
    BY DEF Empty
  <2> QED BY <1>3, <1>5, <2>1, <2>2 DEF Empty
<1> QED BY <1>8, <1>9, <1>10 DEF ParseTargets, list

LEMMA TableIsReadAgain ==
  ASSUME JunkIsNoTable, NEW doc, NEW d, NEW key, ValidDependencies(doc, key),
         At(d, key) = Section(EmitDependencySection(ParseDependencies(doc, key)))
  PROVE  /\ ValidDependencies(d, key)
         /\ ParseDependencies(d, key) = ParseDependencies(doc, key)
<1> DEFINE table == Optional(doc, key, Empty)
           read == ParseDependencies(doc, key)
           written == EmitDependencySection(read)
<1>1. read = [alias \in DOMAIN table |-> ParseDependency(table[alias])]
  BY DEF ParseDependencies
<1>2. written = [alias \in DOMAIN table |-> EmitDependency(ParseDependency(table[alias]))]
  BY <1>1 DEF EmitDependencySection
<1>3. \A alias \in DOMAIN table : ValidDependency(table[alias])
  BY DEF ValidDependencies
<1> HIDE DEF table, read
<1>4. written = [x \in DOMAIN written |-> written[x]]
  BY <1>2
<1> HIDE DEF written
<1>5. written # Absent /\ written # Junk
  BY <1>4, TablesAreThere
<1>6. Optional(d, key, Empty) = written
  <2>1. At(d, key) = IF written = Empty THEN Absent ELSE written
    BY DEF read, written, Section
  <2> QED BY <1>5, <2>1 DEF Optional
<1>7. \A alias \in DOMAIN table :
        /\ ValidDependency(written[alias])
        /\ ParseDependency(written[alias]) = ParseDependency(table[alias])
  BY <1>2, <1>3, DependencyIsReadAgain
<1>8. DOMAIN written = DOMAIN table
  BY <1>2
<1>9. ValidDependencies(d, key)
  BY <1>6, <1>7, <1>8 DEF ValidDependencies
<1>10. ParseDependencies(d, key) = [alias \in DOMAIN written |-> ParseDependency(written[alias])]
  BY <1>6 DEF ParseDependencies
<1>11. ParseDependencies(d, key) = read
  BY <1>1, <1>7, <1>8, <1>10
<1> QED BY <1>9, <1>11 DEF read

\* What is written of a package, key by key.
LEMMA WrittenManifest ==
  ASSUME JunkIsNoTable, NEW m, m.package # Absent
  PROVE  LET d == SerializeManifestCanonical(m)
         IN /\ d # Junk /\ d # Absent
            /\ At(d, "manifest-version") = 1
            /\ \A key \in Keys \ {"manifest-version", "workspace"} :
                 At(d, key) = EmitPackage(m.package, key)
            /\ At(d, "workspace") = (IF m.workspace = Absent THEN Absent
                                     ELSE EmitWorkspace(m.workspace))
<1> DEFINE Value(key) ==
      CASE key = "manifest-version" -> 1
        [] key = "workspace" ->
             IF m.workspace = Absent THEN Absent ELSE EmitWorkspace(m.workspace)
        [] OTHER -> IF m.package = Absent THEN Absent ELSE EmitPackage(m.package, key)
<1>1. SerializeManifestCanonical(m) = Written([key \in Keys |-> Value(key)])
  BY DEF SerializeManifestCanonical
<1>2. /\ Value("manifest-version") = 1
      /\ Value("workspace") = (IF m.workspace = Absent THEN Absent
                               ELSE EmitWorkspace(m.workspace))
      /\ \A key \in Keys \ {"manifest-version", "workspace"} :
           Value(key) = EmitPackage(m.package, key)
  OBVIOUS
<1> HIDE DEF Value
<1> DEFINE table == [key \in Keys |-> Value(key)]
<1>3. DOMAIN table = Keys /\ \A key \in Keys : table[key] = Value(key)
  OBVIOUS
<1> HIDE DEF table
<1>4. \A key \in Keys : At(Written(table), key) = Value(key)
  BY <1>3, WrittenTable
<1>5. Written(table) # Junk /\ Written(table) # Absent
  BY WrittenTable
<1>6. SerializeManifestCanonical(m) = Written(table)
  BY <1>1 DEF table
<1> QED BY <1>2, <1>4, <1>5, <1>6 DEF Keys

\* A manifest that is written is accepted, and its package is the one that was read.
Carries(m) ==
  LET d == SerializeManifestCanonical(m)
      p == LoadManifest(d).package
  IN /\ Accepted(d)
     /\ p.name = m.package.name /\ p.version = m.package.version
     /\ p.dependencies = m.package.dependencies
     /\ p.devDependencies = m.package.devDependencies
     /\ p.publish = m.package.publish
     /\ m.package.name \in PackageName

LEMMA ManifestIsReadAgain ==
  ASSUME JunkIsNoTable, NEW doc, doc # Absent, Parsed(doc), Accepted(doc),
         LoadManifest(doc).package # Absent
  PROVE  Carries(LoadManifest(doc))
<1> DEFINE m == LoadManifest(doc)
           d == SerializeManifestCanonical(m)
           package == ParsePackage(doc)
<1>1. /\ "package" \in DOMAIN doc /\ m.package = package /\ ValidPackage(doc)
      /\ m.workspace = (IF "workspace" \in DOMAIN doc THEN ParseWorkspace(doc) ELSE Absent)
      /\ "workspace" \in DOMAIN doc => ValidWorkspace(doc)
  BY DEF LoadManifest, Accepted
<1>2. doc # Junk
  BY DEF Accepted
<1> HIDE DEF m
<1>3. /\ d # Junk /\ d # Absent
      /\ At(d, "manifest-version") = 1
      /\ At(d, "workspace") = (IF m.workspace = Absent THEN Absent
                               ELSE EmitWorkspace(m.workspace))
      /\ \A key \in Keys \ {"manifest-version", "workspace"} :
           At(d, key) = EmitPackage(package, key)
  <2>1. m.package # Absent
    BY DEF m
  <2> QED BY <1>1, <2>1, WrittenManifest
<1>4. /\ package.name = doc["package"]["name"] /\ package.version = doc["package"]["version"]
      /\ package.edition = doc["package"]["edition"]
      /\ package.publish = Optional(doc["package"], "publish", FALSE)
      /\ package.implicitStd = doc["build"]["implicit-std"]
      /\ package.lib = Optional(doc, "lib", Absent)
      /\ package.bins = Optional(doc, "bin", Empty)
      /\ package.tests = Optional(doc, "test", Empty)
      /\ package.dependencies = ParseDependencies(doc, "dependencies")
      /\ package.devDependencies = ParseDependencies(doc, "dev-dependencies")
  BY DEF ParsePackage, ParseTargets
<1> HIDE DEF package, d
<1>5. /\ package.name \in PackageName /\ package.version \in Semver
      /\ package.edition \in Edition /\ package.implicitStd \in BOOLEAN
  BY <1>1, <1>4, ManifestAssumption DEF ValidPackage, At
<1> DEFINE head == [name |-> package.name, version |-> package.version,
                    edition |-> package.edition, publish |-> package.publish]
           build == [std \in {"implicit-std"} |-> package.implicitStd]
<1>6. /\ At(d, "package") = head /\ At(d, "build") = build
      /\ At(d, "lib") = package.lib
      /\ At(d, "bin") = Section(ByName(Optional(doc, "bin", Empty)))
      /\ At(d, "test") = Section(ByName(Optional(doc, "test", Empty)))
      /\ At(d, "dependencies") =
           Section(EmitDependencySection(ParseDependencies(doc, "dependencies")))
      /\ At(d, "dev-dependencies") =
           Section(EmitDependencySection(ParseDependencies(doc, "dev-dependencies")))
  BY <1>3, <1>4 DEF Keys, EmitPackage
<1>7. head # Junk /\ head # Absent /\ build # Junk /\ build # Absent /\ build # Empty
  <2>1. head = [x \in DOMAIN head |-> head[x]] /\ build = [x \in DOMAIN build |-> build[x]]
    OBVIOUS
  <2>2. DOMAIN build = {"implicit-std"} /\ DOMAIN Empty = {}
    BY DEF Empty
  <2> HIDE DEF head, build
  <2> QED BY <2>1, <2>2, TablesAreThere
<1>8. /\ DOMAIN head = {"name", "version", "edition", "publish"}
      /\ head["name"] = package.name /\ head["version"] = package.version
      /\ head["edition"] = package.edition /\ head["publish"] = package.publish
      /\ DOMAIN build = {"implicit-std"} /\ build["implicit-std"] = package.implicitStd
  OBVIOUS
<1> HIDE DEF head, build
<1>9. d["package"] = head /\ d["build"] = build /\ {"package", "build"} \subseteq DOMAIN d
  BY <1>6, <1>7 DEF At
<1>10. ValidLib(d) /\ (Optional(doc, "lib", Absent) # Absent => Optional(d, "lib", Absent) # Absent)
  <2>1. Optional(d, "lib", Absent) = Optional(doc, "lib", Absent)
    BY <1>4, <1>6 DEF Optional
  <2> QED BY <1>1, <2>1 DEF ValidPackage, ValidLib
<1>11. \A key \in {"bin", "test"} :
         /\ ValidTargets(d, key)
         /\ ParseTargets(doc, key) # Empty => ParseTargets(d, key) # Empty
  BY <1>1, <1>2, <1>6, TargetsAreReadAgain DEF ValidPackage
<1>12. \A key \in {"dependencies", "dev-dependencies"} :
         /\ ValidDependencies(d, key)
         /\ ParseDependencies(d, key) = ParseDependencies(doc, key)
  BY <1>1, <1>6, TableIsReadAgain DEF ValidPackage
<1>13. ValidPackage(d)
  <2>1. /\ At(head, "name") \in PackageName /\ At(head, "version") \in Semver
        /\ At(head, "edition") \in Edition /\ At(build, "implicit-std") \in BOOLEAN
    BY <1>5, <1>8 DEF At
  <2>2. Optional(d, "build", Empty) # Empty
    BY <1>6, <1>7 DEF Optional
  <2>3. \/ Optional(d, "lib", Absent) # Absent
        \/ \E key \in {"bin", "test"} : ParseTargets(d, key) # Empty
    BY <1>1, <1>10, <1>11 DEF ValidPackage
  <2> QED BY <1>7, <1>9, <1>10, <1>11, <1>12, <2>1, <2>2, <2>3 DEF ValidPackage
<1>14. "workspace" \in DOMAIN d => ValidWorkspace(d)
  <2> SUFFICES ASSUME "workspace" \in DOMAIN d PROVE ValidWorkspace(d)
    OBVIOUS
  <2>1. CASE At(d, "workspace") = Absent
    <3>1. \A key \in DOMAIN d : d[key] # Absent
      <4>1. \E table : d = Written(table)
        BY DEF d, SerializeManifestCanonical
      <4> QED BY <4>1, WrittenTable DEF Written
    <3> QED BY <2>1, <3>1 DEF At
  <2>2. CASE At(d, "workspace") # Absent
    <3> DEFINE w == doc["workspace"]
               lists == ParseWorkspace(doc)
               written == EmitWorkspace(lists)
    <3>1. /\ "workspace" \in DOMAIN doc /\ ValidWorkspace(doc)
          /\ d["workspace"] = written
      BY <1>1, <1>3, <2>2 DEF At
    <3>2. /\ lists.members = w["members"] /\ lists.exclude = Optional(w, "exclude", Empty)
      BY DEF ParseWorkspace
    <3>3. /\ At(w, "members") \notin {Absent, Junk, Empty} /\ AllPaths(w["members"])
          /\ At(w, "members") = w["members"]
          /\ AllPaths(Optional(w, "exclude", Empty)) /\ At(w, "exclude") # Junk
      BY <3>1 DEF ValidWorkspace, At
    <3> HIDE DEF w, lists
    <3> DEFINE table == [members |-> lists.members, exclude |-> Section(lists.exclude),
                         resolver |-> 1]
    <3>4. written = Written(table)
      BY DEF EmitWorkspace
    <3>5. /\ DOMAIN table = {"members", "exclude", "resolver"}
          /\ table["members"] = lists.members /\ table["exclude"] = Section(lists.exclude)
          /\ table["resolver"] = 1
      OBVIOUS
    <3> HIDE DEF table, written
    <3>6. /\ At(written, "members") = lists.members
          /\ At(written, "exclude") = Section(lists.exclude)
          /\ At(written, "resolver") = 1
          /\ written # Junk
      BY <3>4, <3>5, WrittenTable
    <3>7. written["members"] = lists.members
      BY <3>2, <3>3, <3>6 DEF At
    <3>8. lists.exclude # Junk /\ lists.exclude # Absent
      <4>1. Empty # Absent /\ Empty # Junk
        <5>1. Empty = [x \in DOMAIN Empty |-> Empty[x]]
          BY DEF Empty
        <5> QED BY <5>1, TablesAreThere
      <4> QED BY <3>2, <3>3, <4>1 DEF Optional
    <3>9. At(written, "exclude") # Junk /\ Optional(written, "exclude", Empty) = lists.exclude
      BY <3>6, <3>8, ManifestAssumption DEF Section, Optional
    <3> QED BY <3>1, <3>2, <3>3, <3>6, <3>7, <3>9 DEF ValidWorkspace
  <2> QED BY <2>1, <2>2
<1>15. Accepted(d)
  BY <1>3, <1>9, <1>13, <1>14 DEF Accepted
<1> DEFINE again == ParsePackage(d)
<1>16. /\ again.name = head["name"] /\ again.version = head["version"]
       /\ again.publish = Optional(head, "publish", FALSE)
       /\ again.dependencies = ParseDependencies(d, "dependencies")
       /\ again.devDependencies = ParseDependencies(d, "dev-dependencies")
  BY <1>9 DEF ParsePackage
<1>17. again.publish = package.publish
  <2>1. package.publish = FALSE \/ (package.publish # Absent /\ package.publish # Junk)
    BY <1>4 DEF Optional
  <2> QED BY <1>8, <1>16, <2>1 DEF Optional, At
<1>18. LoadManifest(d).package = again
  BY <1>9 DEF LoadManifest
<1> HIDE DEF again
<1> QED BY <1>1, <1>4, <1>5, <1>8, <1>12, <1>15, <1>16, <1>17, <1>18 DEF Carries, m, d

-----------------------------------------------------------------------------
(* Publishing.  What is declared.                                           *)

ParsedTree == \A place \in Place : Parsed(tree[ManifestFile(place)])

LEMMA ManifestFiles ==
  ASSUME NEW place \in Place
  PROVE  ManifestFile(place) \in File /\ ManifestFile(place).kind = "manifest"
BY PublishingAssumption DEF ManifestFile

\* Selections are made of finitely many candidates.
LEMMA CandidatesAreFinite ==
  ASSUME JunkIsNoTable, ParsedTree, NEW place \in Place, Accepted(Document(place))
  PROVE  IsFiniteSet(CollectPackageCandidates(place))
<1> DEFINE doc == Document(place)
           manifest == LoadManifest(doc)
           members == Members(manifest)
           listed == {[nth |-> i, place |-> members[i]] : i \in DOMAIN members}
<1>1. Parsed(doc) /\ doc # Junk
  BY DEF ParsedTree, Document, Parsed, Accepted
<1>2. \E n \in Nat : DOMAIN members = 1..n
  <2>1. CASE manifest.workspace = Absent
    <3>1. DOMAIN members = 1..0
      BY <2>1 DEF Members, Empty
    <3> QED BY <3>1
  <2>2. CASE manifest.workspace # Absent
    <3>1. "workspace" \in DOMAIN doc /\ ValidWorkspace(doc) /\ members = doc["workspace"]["members"]
      BY <2>2 DEF LoadManifest, Accepted, Members, ParseWorkspace
    <3>2. doc # Absent
      <4>1. Absent # Junk
        BY ManifestAssumption
      <4> QED BY <4>1 DEF Document
    <3> HIDE DEF doc, members, manifest
    <3>3. members \in Seq(ToSet(members))
      BY <1>1, <3>1, <3>2 DEF Parsed, Array, ValidWorkspace, At
    <3> QED BY <3>3, SeqDef
  <2> QED BY <2>1, <2>2
<1> HIDE DEF members
<1>3. IsFiniteSet(DOMAIN members)
  BY <1>2, FS_Interval
<1>4. IsFiniteSet(listed)
  <2> DEFINE make == [i \in DOMAIN members |-> [nth |-> i, place |-> members[i]]]
  <2>1. make \in Surjection(DOMAIN members, listed)
    BY DEF Surjection
  <2> HIDE DEF make, listed
  <2> QED BY <1>3, <2>1, FS_Surjection
<1> DEFINE top == IF manifest.package = Absent THEN {} ELSE {[nth |-> 0, place |-> place]}
<1>5. IsFiniteSet(top)
  BY FS_EmptySet, FS_Singleton
<1>6. CollectPackageCandidates(place) = top \cup listed
  BY DEF CollectPackageCandidates, members
<1> HIDE DEF top, listed
<1> QED BY <1>4, <1>5, <1>6, FS_Union

\* What is selected is a package of the tree, and what is written of it says so.
LEMMA SelectedManifest ==
  ASSUME JunkIsNoTable, ParsedTree, NEW place \in Place, NEW package, Loadable(place),
         NEW s \in Selected(place, package)
  PROVE  /\ s.place \in Place /\ s.manifest = LoadManifest(Document(s.place))
         /\ s.manifest.package # Absent /\ Carries(s.manifest)
         /\ s # Absent
<1>1. PICK c \in CollectPackageCandidates(place) :
        s = [place |-> c.place, manifest |-> LoadManifest(Document(c.place))]
  BY DEF Selected
<1>2. /\ c.place \in Place /\ Accepted(Document(c.place))
      /\ LoadManifest(Document(c.place)).package # Absent
  BY <1>1 DEF CollectPackageCandidates, Loadable
<1>3. Parsed(Document(c.place)) /\ Document(c.place) # Absent
  BY <1>2, ManifestAssumption DEF ParsedTree, Document, Parsed
<1>4. Carries(LoadManifest(Document(c.place)))
  BY <1>2, <1>3, ManifestIsReadAgain
<1> DEFINE m == LoadManifest(Document(c.place))
<1> HIDE DEF m
<1>5. s = [place |-> c.place, manifest |-> m]
  BY <1>1 DEF m
<1>6. s = [x \in DOMAIN s |-> s[x]]
  BY <1>5
<1>7. s # Absent
  BY <1>6, TablesAreThere
<1> QED BY <1>2, <1>4, <1>5, <1>7 DEF m

\* The package of a manifest, selected by its name from that manifest, is it again.
LEMMA SelectedAgain ==
  ASSUME JunkIsNoTable, ParsedTree, NEW place \in Place, NEW package, Loadable(place),
         LoadManifest(Document(place)).package # Absent,
         LoadManifest(Document(place)).package.name = package, package # Absent,
         NEW s \in Selected(place, package)
  PROVE  s.place = place /\ s.manifest = LoadManifest(Document(place))
<1> DEFINE candidates == CollectPackageCandidates(place)
           matches == {c \in candidates : LoadManifest(Document(c.place)).package.name = package}
           this == [nth |-> 0, place |-> place]
<1>1. IsFiniteSet(candidates)
  BY CandidatesAreFinite DEF Loadable
<1>2. this \in matches
  BY DEF CollectPackageCandidates
<1>3. /\ Cardinality(matches) = 1
      /\ \E c \in matches :
           s = [place |-> c.place, manifest |-> LoadManifest(Document(c.place))]
  BY DEF Selected
<1>4. IsFiniteSet(matches)
  <2>1. matches \in SUBSET candidates
    OBVIOUS
  <2> HIDE DEF matches, candidates
  <2> QED BY <1>1, <2>1, FS_Subset
<1> HIDE DEF matches
<1>5. matches = {this}
  BY <1>2, <1>3, <1>4, FS_Singleton
<1> QED BY <1>3, <1>5

Sending == {"secure", "size", "read"}
Quiet(ed) == \A f \in ed : f.kind # "manifest"

\* The candidate is a package whose manifest, unless one was edited, is that of
\* the tree before.
IsCandidate(cand, ed, was) ==
  /\ cand # Absent /\ cand.place \in Place
  /\ cand.manifest.package # Absent /\ Carries(cand.manifest)
  /\ Quiet(ed) =>
       LET doc == was[ManifestFile(cand.place)]
       IN cand.manifest = LoadManifest(IF doc = Absent THEN Junk ELSE doc)

\* What a process in stage st knows of its selections and its archive.
SelectedOK(command, st, cand, sel, tmp, ed, was) ==
  /\ st \in Sending => command = "publish"
  /\ st = "choose" => command # "pack"
  /\ command # "pack" =>
       /\ st \in {"validate", "select"} \cup Packing \cup Sending => IsCandidate(cand, ed, was)
       /\ st \in {"select"} \cup Packing \cup Sending => Publishable(cand.manifest.package)
       /\ st \in Packing \cup Sending /\ Quiet(ed) =>
            sel.place = cand.place /\ sel.manifest = cand.manifest
  /\ st = "rename" =>
       /\ tmp.selection = sel
       /\ tmp.prefix = <<sel.manifest.package.name, sel.manifest.package.version>>
  /\ st \in {"write", "close"} =>
       tmp.prefix = <<sel.manifest.package.name, sel.manifest.package.version>>

PathOf(req, sel) ==
  IF req.output = "elsewhere" THEN <<"elsewhere">>
  ELSE <<sel.place>> \o <<sel.manifest.package.name, sel.manifest.package.version>>

\* Until another process has put its archive there, the one in place is its own.
InPlaceOK(st, req, sel, rep, measured, arch) ==
  st \in Sending /\ ~rep =>
    LET path == PathOf(req, sel)
    IN /\ path \in DOMAIN arch
       /\ arch[path].selection = sel
       /\ arch[path].prefix = <<sel.manifest.package.name, sel.manifest.package.version>>
       /\ st = "read" => measured = SizeOf(arch[path])

\* What PublishedIsDeclared wants of a request.
IsDeclared(u) ==
  LET document == u.archive.parts[u.archive.own]
      package == LoadManifest(document).package
  IN u.disturbed
     \/ /\ u.whole
        /\ u.archive.prefix = Version(u)
        /\ Accepted(document)
        /\ <<package.name, package.version>> = Version(u)
        /\ package.dependencies = u.dependencies
        /\ package.devDependencies = u.devDependencies
        /\ package.publish
        /\ \A table \in {u.dependencies, u.devDependencies} :
             \A alias \in DOMAIN table : table[alias].kind = "registry"

KnowsSelected(p) ==
  SelectedOK(request[p].command, stage[p], candidate[p], selection[p], temp[p], edited[p],
             seen[p])
KnowsPlace(p) ==
  InPlaceOK(stage[p], request[p], selection[p], replaced[p], size[p], archives)

DeclaredInv ==
  /\ ParsedTree
  /\ replaced \in [Client -> BOOLEAN]
  /\ \A p \in Client : KnowsSelected(p) /\ KnowsPlace(p)
  /\ \A p \in wire : IsDeclared(upload[p])
  /\ \A version \in DOMAIN registry :
       IsDeclared(registry[version]) /\ Version(registry[version]) = version

\* Between the selection and the upload a process changes only its archive.
LEMMA SelectedOn ==
  ASSUME NEW command, NEW st, NEW cand, NEW sel, NEW tmp, NEW ed, NEW was, NEW st2, NEW tmp2,
         SelectedOK(command, st, cand, sel, tmp, ed, was),
         st \in Packing \cup Sending,
         st2 \in Packing \cup Sending \cup {"wait", "answer", "done", "failed"},
         st2 \in Sending => command = "publish",
         st2 = "rename" =>
           /\ tmp2.selection = sel
           /\ tmp2.prefix = <<sel.manifest.package.name, sel.manifest.package.version>>,
         st2 \in {"write", "close"} =>
           tmp2.prefix = <<sel.manifest.package.name, sel.manifest.package.version>>
  PROVE  SelectedOK(command, st2, cand, sel, tmp2, ed, was)
BY DEF SelectedOK, Packing, Sending

\* Nobody edited a manifest: it is still what it was.
LEMMA QuietDocument ==
  ASSUME NEW p \in Client, KnowsArchive(p), NEW place \in Place, Quiet(edited[p]),
         stage[p] \notin {"idle", "done", "failed"}
  PROVE  Document(place) = LET doc == seen[p][ManifestFile(place)]
                           IN IF doc = Absent THEN Junk ELSE doc
<1>1. ManifestFile(place) \in File \ edited[p]
  BY ManifestFiles DEF Quiet
<1>2. tree[ManifestFile(place)] = seen[p][ManifestFile(place)]
  BY <1>1 DEF KnowsArchive, PackOK
<1> QED BY <1>2 DEF Document

LEMMA ChooseSelected ==
  ASSUME JunkIsNoTable, PublishTypeOK, ParsedTree, NEW p \in Client, KnowsArchive(p),
         KnowsSelected(p), Begin(p) \/ Choose(p) \/ ValidatePublishCandidate(p)
  PROVE  KnowsSelected(p)'
<1> USE DEF PublishTypeOK, GoOn, Set, walking, sending, past
<1>1. CASE Begin(p)
  <2>1. /\ stage'[p] \in {"select", "choose"} /\ UNCHANGED <<request, edited>>
        /\ stage'[p] = (IF request[p].command = "pack" THEN "select" ELSE "choose")
    BY <1>1 DEF Begin
  <2> QED BY <2>1 DEF KnowsSelected, SelectedOK, Packing, Sending
<1>2. CASE Choose(p)
  <2>1. /\ UNCHANGED <<request, edited, seen>> /\ stage[p] = "choose"
        /\ \/ stage'[p] = "failed"
           \/ /\ stage'[p] = "validate" /\ Loadable(Root)
              /\ candidate'[p] \in Selected(Root, request[p].package)
    BY <1>2 DEF Choose
  <2>2. stage'[p] = "validate" => IsCandidate(candidate'[p], edited[p], seen[p])
    <3> SUFFICES ASSUME stage'[p] = "validate"
                 PROVE  IsCandidate(candidate'[p], edited[p], seen[p])
      OBVIOUS
    <3> DEFINE s == candidate'[p]
    <3>1. /\ s.place \in Place /\ s.manifest = LoadManifest(Document(s.place))
          /\ s.manifest.package # Absent /\ Carries(s.manifest) /\ s # Absent
      BY <2>1, SelectedManifest, PublishingAssumption
    <3>2. Quiet(edited[p]) =>
            Document(s.place) = LET doc == seen[p][ManifestFile(s.place)]
                                IN IF doc = Absent THEN Junk ELSE doc
      BY <2>1, <3>1, QuietDocument
    <3> HIDE DEF s
    <3>3. IsCandidate(s, edited[p], seen[p])
      BY <3>1, <3>2 DEF IsCandidate
    <3> QED BY <3>3 DEF s
  <2> QED BY <2>1, <2>2 DEF KnowsSelected, SelectedOK, Packing, Sending
<1>3. CASE ValidatePublishCandidate(p)
  <2>1. /\ UNCHANGED <<request, edited, seen, candidate>> /\ stage[p] = "validate"
        /\ \/ stage'[p] = "failed"
           \/ stage'[p] = "select" /\ Publishable(candidate[p].manifest.package)
    BY <1>3 DEF ValidatePublishCandidate
  <2> QED BY <2>1 DEF KnowsSelected, SelectedOK, Packing, Sending
<1> QED BY <1>1, <1>2, <1>3

LEMMA SelectSelected ==
  ASSUME JunkIsNoTable, PublishTypeOK, ParsedTree, NEW p \in Client, KnowsArchive(p),
         KnowsSelected(p), Select(p)
  PROVE  KnowsSelected(p)'
<1> DEFINE cand == candidate[p]
<1>1. /\ UNCHANGED <<request, edited, seen, candidate>> /\ stage[p] = "select"
      /\ stage'[p] \in {"walk", "failed"}
  BY DEF Select, PublishTypeOK, GoOn, past
<1>2. ASSUME stage'[p] = "walk", request[p].command # "pack", Quiet(edited[p])
      PROVE  selection'[p].place = cand.place /\ selection'[p].manifest = cand.manifest
  <2>1. IsCandidate(cand, edited[p], seen[p])
    BY <1>1, <1>2 DEF KnowsSelected, SelectedOK
  <2>2. /\ cand # Absent /\ cand.place \in Place /\ cand.manifest.package # Absent
        /\ cand.manifest.package.name \in PackageName
    BY <2>1 DEF IsCandidate, Carries
  <2>3. cand.manifest = LoadManifest(Document(cand.place))
    BY <1>1, <1>2, <2>1, <2>2, QuietDocument DEF IsCandidate
  <2>4. /\ Loadable(cand.place)
        /\ selection'[p] \in Selected(cand.place, cand.manifest.package.name)
    BY <1>1, <1>2, <2>2 DEF Select, PublishTypeOK, GoOn, Set
  <2>5. cand.manifest.package.name # Absent
    BY <2>2, ManifestAssumption
  <2> HIDE DEF cand
  <2> QED BY <2>2, <2>3, <2>4, <2>5, SelectedAgain
<1> QED BY <1>1, <1>2 DEF KnowsSelected, SelectedOK, Packing, Sending

LEMMA StepSelected ==
  ASSUME JunkIsNoTable, PublishTypeOK, SentInv, ParsedTree, NEW p \in Client,
         KnowsArchive(p), KnowsSelected(p), Step(p)
  PROVE  KnowsSelected(p)'
<1> DEFINE sel == selection[p]
           prefix == <<sel.manifest.package.name, sel.manifest.package.version>>
           Kept == UNCHANGED <<request, candidate, selection, edited, seen>>
<1>1. CASE Begin(p) \/ Choose(p) \/ ValidatePublishCandidate(p)
  BY <1>1, ChooseSelected
<1>2. CASE Select(p)
  BY <1>2, SelectSelected
<1>3. ASSUME Kept, stage[p] \in Packing \cup Sending,
             stage'[p] \in Packing \cup Sending \cup {"wait", "answer", "done", "failed"},
             stage'[p] \in Sending => request[p].command = "publish",
             stage'[p] = "rename" => temp'[p].selection = sel /\ temp'[p].prefix = prefix,
             stage'[p] \in {"write", "close"} => temp'[p].prefix = prefix
      PROVE  KnowsSelected(p)'
  BY <1>3, SelectedOn DEF KnowsSelected
<1>4. ASSUME Kept, stage'[p] \in {"wait", "answer", "done", "failed"}
      PROVE  KnowsSelected(p)'
  BY <1>4 DEF KnowsSelected, SelectedOK, Packing, Sending
<1>5. stage[p] \in Sending => request[p].command = "publish"
  BY DEF KnowsSelected, SelectedOK
<1>6. stage[p] \in {"write", "close"} =>
        /\ temp[p].prefix = prefix /\ temp[p].selection = sel
        /\ DOMAIN temp[p] = {"prefix", "own", "parts", "closed", "by", "selection", "edited"}
  BY DEF KnowsSelected, SelectedOK, KnowsArchive, PackOK, Holds
<1> USE DEF PublishTypeOK, GoOn, Set, Rewind, Packing, Sending, walking, sending, past
<1>7. CASE Walk(p)
  BY <1>3, <1>7 DEF Walk
<1>8. CASE Scan(p)
  BY <1>3, <1>8 DEF Scan
<1>9. CASE Create(p)
  <2>1. temp'[p] = [prefix |-> Prefix(p), own |-> Own(p), parts |-> Empty, closed |-> FALSE,
                    by |-> p, selection |-> selection[p], edited |-> {}]
    BY <1>9 DEF Create
  <2>2. temp'[p].prefix = prefix
    BY <2>1 DEF Prefix
  <2> HIDE DEF prefix
  <2> QED BY <1>3, <1>9, <2>2 DEF Create
<1>10. CASE Write(p)
  <2>1. /\ Kept /\ stage[p] = "write" /\ stage'[p] \in {"write", "close", "failed"}
        /\ \/ temp' = temp \/ stage'[p] = "failed"
           \/ \E parts : temp' = [temp EXCEPT ![p].parts = parts]
    BY <1>10 DEF Write
  <2>2. stage'[p] # "failed" => temp'[p].prefix = prefix
    <3> HIDE DEF prefix
    <3> QED BY <1>6, <2>1
  <2> HIDE DEF prefix
  <2> QED BY <1>3, <2>1, <2>2
<1>11. CASE Close(p)
  <2>1. /\ Kept /\ stage[p] = "close" /\ stage'[p] = "rename"
        /\ temp' = [temp EXCEPT ![p].closed = TRUE, ![p].edited = edited[p]]
    BY <1>11 DEF Close
  <2>2. temp'[p].prefix = prefix /\ temp'[p].selection = sel
    <3> HIDE DEF prefix
    <3> QED BY <1>6, <2>1
  <2> HIDE DEF prefix
  <2> QED BY <1>3, <2>1, <2>2
<1>12. CASE Rename(p)
  <2>1. /\ Kept /\ stage[p] = "rename" /\ stage'[p] \in {"secure", "done"}
        /\ stage'[p] = "secure" => request[p].command = "publish"
    BY <1>12 DEF Rename
  <2> QED BY <1>3, <2>1
<1>13. CASE \E where \in {"create", "write", "close", "rename"} : FailsAt(p, where)
  BY <1>4, <1>13 DEF FailsAt
<1>14. CASE Secure(p) \/ Measure(p)
  BY <1>3, <1>5, <1>14 DEF Secure, Measure
<1>15. CASE Read(p)
  BY <1>4, <1>15 DEF Read
<1>16. CASE Deliver(p)
  BY <1>4, <1>16 DEF Deliver, Answer, SentInv
<1>17. CASE Stray(p)
  BY <1>4, <1>17 DEF Stray, Answer
<1>18. CASE Conclude(p)
  BY <1>4, <1>18 DEF Conclude
<1> QED BY <1>1, <1>2, <1>7, <1>8, <1>9, <1>10, <1>11, <1>12, <1>13, <1>14, <1>15, <1>16,
        <1>17, <1>18 DEF Step

LEMMA PathTerms ==
  ASSUME NEW p \in Client
  PROVE  /\ ArchivePath(p) = PathOf(request[p], selection[p])
         /\ Prefix(p) = <<selection[p].manifest.package.name,
                          selection[p].manifest.package.version>>
BY DEF ArchivePath, Prefix, PathOf

\* The archive in place: only a rename puts another one there.
LEMMA StepPlace ==
  ASSUME PublishTypeOK, SentInv, NEW p \in Client, KnowsSelected(p), KnowsPlace(p), Step(p)
  PROVE  KnowsPlace(p)'
<1> USE DEF PublishTypeOK, GoOn, Set, Rewind, walking, sending, past
<1>1. CASE Rename(p)
  <2> DEFINE path == PathOf(request[p], selection[p])
  <2>1. /\ temp[p].selection = selection[p] /\ temp[p].prefix = Prefix(p)
        /\ archives' = Put(archives, path, temp[p])
        /\ UNCHANGED <<request, selection>> /\ stage'[p] \in {"secure", "done"}
    BY <1>1, PathTerms DEF Rename, KnowsSelected, SelectedOK
  <2>2. path \in DOMAIN archives' /\ archives'[path] = temp[p]
    BY <2>1 DEF Put
  <2> HIDE DEF path
  <2>3. InPlaceOK(stage'[p], request[p], selection[p], replaced'[p], size'[p], archives')
    BY <2>1, <2>2, PathTerms DEF InPlaceOK, Sending, path
  <2> QED BY <2>1, <2>3 DEF KnowsPlace
<1>2. CASE Secure(p)
  <2>1. /\ UNCHANGED <<request, selection, archives, replaced, size>>
        /\ stage[p] = "secure" /\ stage'[p] \in {"size", "failed"}
    BY <1>2 DEF Secure
  <2> QED BY <2>1 DEF KnowsPlace, InPlaceOK, Sending
<1>3. CASE Measure(p)
  <2>1. /\ UNCHANGED <<request, selection, archives, replaced>> /\ stage[p] = "size"
        /\ \/ stage'[p] = "failed"
           \/ stage'[p] = "read" /\ size'[p] = SizeOf(archives[PathOf(request[p], selection[p])])
    BY <1>3, PathTerms DEF Measure
  <2> QED BY <2>1 DEF KnowsPlace, InPlaceOK, Sending
<1>4. CASE stage'[p] \notin Sending
  BY <1>4 DEF KnowsPlace, InPlaceOK
<1>5. stage'[p] \in Sending => Rename(p) \/ Secure(p) \/ Measure(p)
  <2>1. CASE Begin(p) \/ Choose(p) \/ ValidatePublishCandidate(p) \/ Select(p)
    BY <2>1 DEF Begin, Choose, ValidatePublishCandidate, Select, Sending
  <2>2. CASE Walk(p) \/ Scan(p) \/ Create(p) \/ Write(p) \/ Close(p)
    BY <2>2 DEF Walk, Scan, Create, Write, Close, Sending
  <2>3. CASE \E where \in {"create", "write", "close", "rename"} : FailsAt(p, where)
    BY <2>3 DEF FailsAt, Sending
  <2>4. CASE Read(p)
    BY <2>4 DEF Read, Sending
  <2>5. CASE Deliver(p)
    BY <2>5 DEF Deliver, Answer, SentInv, Sending
  <2>6. CASE Stray(p)
    BY <2>6 DEF Stray, Answer, Sending
  <2>7. CASE Conclude(p)
    BY <2>7 DEF Conclude, Sending
  <2> QED BY <2>1, <2>2, <2>3, <2>4, <2>5, <2>6, <2>7 DEF Step
<1> QED BY <1>1, <1>2, <1>3, <1>4, <1>5

\* What a step of p does to the others' archives and requests.
LEMMA StepSending ==
  ASSUME PublishTypeOK, SentInv, NEW p \in Client, Step(p)
  PROVE  /\ \A q \in Client \ {p} : size'[q] = size[q] /\ upload'[q] = upload[q]
         /\ \/ UNCHANGED <<archives, replaced>>
            \/ /\ archives' = Put(archives, ArchivePath(p), temp[p])
               /\ replaced' = [q \in Client |->
                    \/ replaced[q]
                    \/ /\ q # p
                       /\ stage[q] \in Sending
                       /\ ArchivePath(q) = ArchivePath(p)]
         /\ \/ wire' \subseteq wire /\ upload' = upload
            \/ Read(p)
         /\ \/ registry' = registry
            \/ p \in wire /\ registry' = Put(registry, Version(upload[p]), upload[p])
<1> USE DEF PublishTypeOK, GoOn, Set, Rewind, walking, sending, past
<1>1. CASE Begin(p) \/ Choose(p) \/ ValidatePublishCandidate(p) \/ Select(p)
  BY <1>1 DEF Begin, Choose, ValidatePublishCandidate, Select
<1>2. CASE Walk(p) \/ Scan(p) \/ Create(p) \/ Write(p) \/ Close(p)
  BY <1>2 DEF Walk, Scan, Create, Write, Close
<1>3. CASE Rename(p)
  BY <1>3 DEF Rename, Sending
<1>4. CASE \E where \in {"create", "write", "close", "rename"} : FailsAt(p, where)
  BY <1>4 DEF FailsAt
<1>5. CASE Secure(p) \/ Measure(p) \/ Conclude(p)
  BY <1>5 DEF Secure, Measure, Conclude
<1>6. CASE Read(p)
  BY <1>6 DEF Read
<1>7. CASE Deliver(p)
  BY <1>7 DEF Deliver, Answer
<1>8. CASE Stray(p)
  BY <1>8 DEF Stray, Answer
<1> QED BY <1>1, <1>2, <1>3, <1>4, <1>5, <1>6, <1>7, <1>8 DEF Step

LEMMA OtherPlace ==
  ASSUME PublishTypeOK, SentInv, replaced \in [Client -> BOOLEAN],
         NEW p \in Client, NEW q \in Client, q # p, KnowsPlace(q), Step(p)
  PROVE  KnowsPlace(q)'
<1> DEFINE path == PathOf(request[q], selection[q])
<1>1. /\ stage'[q] = stage[q] /\ selection'[q] = selection[q] /\ request' = request
      /\ size'[q] = size[q]
  BY StepOfClient, StepSending
<1>2. CASE UNCHANGED <<archives, replaced>>
  BY <1>1, <1>2 DEF KnowsPlace
<1>3. CASE /\ archives' = Put(archives, ArchivePath(p), temp[p])
           /\ replaced' = [r \in Client |->
                \/ replaced[r]
                \/ /\ r # p
                   /\ stage[r] \in Sending
                   /\ ArchivePath(r) = ArchivePath(p)]
  <2>1. CASE stage[q] \in Sending /\ ~replaced'[q]
    <3>1. ~replaced[q] /\ path # ArchivePath(p)
      BY <1>3, <2>1, PathTerms
    <3>2. path \in DOMAIN archives =>
            path \in DOMAIN archives' /\ archives'[path] = archives[path]
      BY <1>3, <3>1 DEF Put
    <3>3. InPlaceOK(stage[q], request[q], selection[q], replaced'[q], size[q], archives')
      BY <2>1, <3>1, <3>2 DEF KnowsPlace, InPlaceOK
    <3> QED BY <1>1, <3>3 DEF KnowsPlace
  <2>2. CASE ~(stage[q] \in Sending /\ ~replaced'[q])
    BY <1>1, <2>2 DEF KnowsPlace, InPlaceOK
  <2> QED BY <2>1, <2>2
<1> QED BY <1>2, <1>3, StepSending

\* A request is what it is declared to be when it is made.
LEMMA ReadDeclares ==
  ASSUME PublishTypeOK, ArchiveInv, replaced \in [Client -> BOOLEAN],
         NEW p \in Client, KnowsSelected(p), KnowsPlace(p), Read(p), p \in wire'
  PROVE  IsDeclared(upload'[p]) \/ (p \in wire /\ upload' = upload)
<1> DEFINE path == PathOf(request[p], selection[p])
           archive == archives[path]
           cand == candidate[p]
           package == cand.manifest.package
           disturbed == replaced[p] \/ \E f \in edited[p] : f.kind = "manifest"
           u == [package |-> package.name, version |-> package.version,
                 archive |-> archive, whole |-> SizeOf(archive) = size[p],
                 dependencies |-> package.dependencies,
                 devDependencies |-> package.devDependencies, by |-> p,
                 disturbed |-> disturbed]
<1>1. stage[p] = "read" /\ ((p \in wire /\ upload' = upload) \/ upload'[p] = u)
  BY PathTerms DEF Read, PublishTypeOK, GoOn, Set, walking
<1>2. CASE disturbed
  <2>1. u.disturbed
    BY <1>2
  <2> HIDE DEF u
  <2> QED BY <1>1, <2>1 DEF IsDeclared
<1>3. CASE ~disturbed
  <2>1. ~replaced[p] /\ Quiet(edited[p])
    BY <1>3 DEF Quiet
  <2>2. /\ path \in DOMAIN archives /\ archive.selection = selection[p]
        /\ archive.prefix = <<selection[p].manifest.package.name,
                              selection[p].manifest.package.version>>
        /\ size[p] = SizeOf(archive)
    BY <1>1, <2>1 DEF KnowsPlace, InPlaceOK, Sending
  <2>3. /\ selection[p].manifest = cand.manifest /\ IsCandidate(cand, edited[p], seen[p])
        /\ Publishable(package)
    BY <1>1, <2>1 DEF KnowsSelected, SelectedOK, Sending
  <2>4. archive.parts[archive.own] = SerializeManifestCanonical(cand.manifest)
    BY <2>2, <2>3 DEF ArchiveInv, IsWhole
  <2>5. Carries(cand.manifest)
    BY <2>3 DEF IsCandidate
  <2> DEFINE document == archive.parts[archive.own]
             again == LoadManifest(document).package
  <2>6. /\ Accepted(document) /\ again.name = package.name /\ again.version = package.version
        /\ again.dependencies = package.dependencies
        /\ again.devDependencies = package.devDependencies
        /\ again.publish = package.publish
    BY <2>4, <2>5 DEF Carries
  <2>7. again.publish
    BY <2>3, <2>6 DEF Publishable
  <2>8. \A table \in {package.dependencies, package.devDependencies} :
          \A alias \in DOMAIN table : table[alias].kind = "registry"
    BY <2>3 DEF Publishable
  <2>9. archive.prefix = <<package.name, package.version>>
    BY <2>2, <2>3
  <2> HIDE DEF document, package
  <2>10. /\ u.archive = archive /\ u.whole = (SizeOf(archive) = size[p])
         /\ u.package = package.name /\ u.version = package.version
         /\ u.dependencies = package.dependencies
         /\ u.devDependencies = package.devDependencies
    <3> HIDE DEF archive, disturbed
    <3> QED OBVIOUS
  <2> HIDE DEF u, archive, again
  <2>11. u.whole
    BY <2>2, <2>10
  <2>12. IsDeclared(u)
    BY <2>6, <2>7, <2>8, <2>9, <2>10, <2>11 DEF IsDeclared, Version, document, again
  <2> QED BY <1>1, <2>12
<1> QED BY <1>2, <1>3

LEMMA StepDeclaredInv ==
  ASSUME JunkIsNoTable, PublishTypeOK, SentInv, ArchiveInv, DeclaredInv,
         NEW p \in Client, Step(p)
  PROVE  DeclaredInv'
<1>1. ParsedTree'
  BY StepOfClient DEF DeclaredInv, ParsedTree
<1>2. replaced' \in [Client -> BOOLEAN]
  BY StepSending DEF DeclaredInv
<1>3. ASSUME NEW q \in Client PROVE KnowsSelected(q)'
  <2>1. CASE q = p
    BY <2>1, StepSelected DEF DeclaredInv, ArchiveInv
  <2>2. CASE q # p
    BY <2>2, StepOfClient DEF DeclaredInv, KnowsSelected
  <2> QED BY <2>1, <2>2
<1>4. ASSUME NEW q \in Client PROVE KnowsPlace(q)'
  <2>1. CASE q = p
    BY <2>1, StepPlace DEF DeclaredInv
  <2>2. CASE q # p
    BY <2>2, OtherPlace DEF DeclaredInv
  <2> QED BY <2>1, <2>2
<1>5. ASSUME NEW q \in wire' PROVE IsDeclared(upload'[q])
  <2>1. CASE wire' \subseteq wire /\ upload' = upload
    BY <1>5, <2>1 DEF DeclaredInv
  <2>2. CASE Read(p)
    <3>1. wire' \subseteq wire \cup {p} /\ q \in Client
      BY <1>5, <2>2 DEF Read, PublishTypeOK
    <3>2. CASE q = p
      BY <1>5, <2>2, <3>2, ReadDeclares DEF DeclaredInv
    <3>3. CASE q # p
      BY <1>5, <3>1, <3>3, StepSending DEF DeclaredInv
    <3> QED BY <3>2, <3>3
  <2> QED BY <2>1, <2>2, StepSending
<1>6. ASSUME NEW version \in DOMAIN registry'
      PROVE  IsDeclared(registry'[version]) /\ Version(registry'[version]) = version
  <2>1. CASE registry' = registry
    BY <1>6, <2>1 DEF DeclaredInv
  <2>2. CASE p \in wire /\ registry' = Put(registry, Version(upload[p]), upload[p])
    <3>1. IsDeclared(upload[p])
      BY <2>2 DEF DeclaredInv
    <3>2. CASE version = Version(upload[p])
      BY <2>2, <3>1, <3>2 DEF Put
    <3>3. CASE version # Version(upload[p])
      BY <1>6, <2>2, <3>3 DEF Put, DeclaredInv
    <3> QED BY <3>2, <3>3
  <2> QED BY <2>1, <2>2, StepSending
<1> QED BY <1>1, <1>2, <1>3, <1>4, <1>5, <1>6 DEF DeclaredInv

LEMMA EditDeclaredInv ==
  ASSUME PublishTypeOK, DeclaredInv, NEW e \in Edits, Edit(e.file, e.data)
  PROVE  DeclaredInv'
<1>1. /\ UNCHANGED <<archives, registry, stage, request, candidate, selection, temp, size,
                     upload, wire, seen, replaced>>
      /\ tree' = [tree EXCEPT ![e.file] = e.data]
      /\ \A p \in Client : edited[p] \subseteq edited'[p]
  BY DEF PublishTypeOK, Edit, walking, sending
<1>2. ParsedTree'
  <2> SUFFICES ASSUME NEW place \in Place PROVE Parsed(tree'[ManifestFile(place)])
    BY DEF ParsedTree
  <2>1. CASE ManifestFile(place) = e.file
    BY <1>1, <2>1, ManifestFiles, PublishingAssumption DEF PublishTypeOK
  <2>2. CASE ManifestFile(place) # e.file
    BY <1>1, <2>2 DEF DeclaredInv, ParsedTree
  <2> QED BY <2>1, <2>2
<1>3. ASSUME NEW p \in Client PROVE KnowsSelected(p)'
  <2>1. Quiet(edited'[p]) => Quiet(edited[p])
    BY <1>1 DEF Quiet
  <2>2. \A cand : IsCandidate(cand, edited[p], seen[p]) => IsCandidate(cand, edited'[p], seen[p])
    BY <2>1 DEF IsCandidate
  <2>3. SelectedOK(request[p].command, stage[p], candidate[p], selection[p], temp[p],
                   edited[p], seen[p])
    BY DEF DeclaredInv, KnowsSelected
  <2>4. SelectedOK(request[p].command, stage[p], candidate[p], selection[p], temp[p],
                   edited'[p], seen[p])
    BY <2>1, <2>2, <2>3 DEF SelectedOK
  <2> QED BY <1>1, <2>4 DEF KnowsSelected
<1>4. \A p \in Client : KnowsPlace(p)'
  BY <1>1 DEF DeclaredInv, KnowsPlace
<1>5. (\A p \in wire : IsDeclared(upload[p]))'
  BY <1>1 DEF DeclaredInv
<1> QED BY <1>1, <1>2, <1>3, <1>4, <1>5 DEF DeclaredInv

LEMMA DeclaredInitHolds == PublishInit => DeclaredInv
<1> SUFFICES ASSUME PublishInit PROVE DeclaredInv
  OBVIOUS
<1>1. ParsedTree
  BY ManifestFiles, PublishingAssumption DEF PublishInit, ParsedTree
<1>2. DOMAIN registry = {}
  BY DEF PublishInit, Empty
<1>3. \A p \in Client : KnowsSelected(p) /\ KnowsPlace(p)
  BY DEF PublishInit, KnowsSelected, KnowsPlace, SelectedOK, InPlaceOK, Packing, Sending
<1> QED BY <1>1, <1>2, <1>3 DEF DeclaredInv, PublishInit

LEMMA NextDeclaredInv ==
  ASSUME JunkIsNoTable, PublishTypeOK, SentInv, ArchiveInv, DeclaredInv,
         [PublishNext]_publishVars
  PROVE  DeclaredInv'
<1>1. CASE UNCHANGED publishVars
  BY <1>1 DEF DeclaredInv, ParsedTree, KnowsSelected, KnowsPlace, publishVars, walking,
              sending, past
<1> QED BY <1>1, StepDeclaredInv, EditDeclaredInv DEF PublishNext

\* What the registry takes is what the request says of it, whoever publishes at
\* once: what a manifest means survives being loaded, written and loaded again.
THEOREM PublishedAreDeclared ==
  ASSUME JunkIsNoTable
  PROVE  PublishSpec => []PublishedIsDeclared
<1>1. DeclaredInv => PublishedIsDeclared
  BY DEF DeclaredInv, IsDeclared, PublishedIsDeclared
<1>2. PublishInit => PublishTypeOK /\ SentInv /\ ArchiveInv /\ DeclaredInv
  BY PublishInitHolds, PublishInitArchive, DeclaredInitHolds
<1>3. PublishTypeOK /\ SentInv /\ ArchiveInv /\ DeclaredInv /\ [PublishNext]_publishVars
        => (PublishTypeOK /\ SentInv /\ ArchiveInv /\ DeclaredInv)'
  BY PublishTypes, NextSentInv, NextArchiveInv, NextDeclaredInv
<1> QED BY <1>1, <1>2, <1>3, PTL DEF PublishSpec
=============================================================================
