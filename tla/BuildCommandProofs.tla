------------------------- MODULE BuildCommandProofs -------------------------
(* What TLAPS proves of BuildCommand, for every workspace, every request    *)
(* and everything that may change meanwhile.                                *)
EXTENDS BuildCommand, SequenceTheorems, TLAPS

-----------------------------------------------------------------------------
(* Types.                                                                   *)

LEMMA RequestType ==
  ASSUME TypeOK, NEW p \in Proc, request[p] # None
  PROVE  request[p] \in Request
BY DEF TypeOK

\* What a command has when it gets to a phase.
Ready ==
  \A p \in Proc :
    /\ phase[p] # "idle" => request[p] # None
    /\ phase[p] \in {"idle", "sync"} => graph[p] = None
    /\ phase[p] \notin {"idle", "sync", "failed"} => graph[p] # None
    /\ phase[p] \in {"idle", "sync", "probe"} => checked[p] = None
    /\ phase[p] \in {"idle", "sync", "probe", "entry"} \/ graph[p] = None =>
         stack[p] = <<>> /\ order[p] = <<>>
    /\ phase[p] \in {"order", "hash", "describe", "write", "compile",
                     "validate"} => entry[p] # None
    /\ phase[p] \in {"entry", "order", "hash", "describe", "write"} =>
         request[p].dry \/ checked[p] # None
    /\ phase[p] \in {"compile", "validate"} => checked[p] # None

\* The graph of a command is closed under dependencies, and BuildPackageOrder
\* never leaves it.
Inside ==
  \A p \in Proc : graph[p] # None =>
    /\ \A q \in Members(p) : graph[p][q].deps \subseteq Members(p)
    /\ Range(stack[p]) \subseteq Members(p)
    /\ Range(order[p]) \subseteq Members(p)

Late == {"hash", "describe", "write", "compile", "validate"}

\* What is placed or being visited is there once; the dependencies of what is
\* placed were placed before it.
Sorted ==
  \A p \in Proc :
    /\ \A i, j \in DOMAIN order[p] : order[p][i] = order[p][j] => i = j
    /\ \A i, j \in DOMAIN stack[p] : stack[p][i] = stack[p][j] => i = j
    /\ \A i \in DOMAIN order[p], j \in DOMAIN stack[p] :
         order[p][i] # stack[p][j]
    /\ \A r \in Range(order[p]) : \A q \in graph[p][r].deps : Before(p, q, r)
    /\ phase[p] \in Late => Range(order[p]) = Members(p)

IInv == TypeOK /\ Ready /\ Inside /\ Sorted

LEMMA InitIInv == ASSUME Init PROVE IInv
<1>1. TypeOK
  <2>1. sources \in [Package -> Content \cup {Absent}]
    BY BuildAssumption DEF Init
  <2>2. manifests \in [Package -> Manifest \cup {Absent}]
    BY BuildAssumption DEF Init
  <2>3. <<>> \in Seq(Package)
    OBVIOUS
  <2> QED BY <2>1, <2>2, <2>3 DEF Init, TypeOK, Phases
<1>2. Ready
  BY DEF Init, Ready
<1>3. Inside
  BY DEF Init, Inside
<1>4. Sorted
  BY DEF Init, Sorted, Late, Range
<1> QED BY <1>1, <1>2, <1>3, <1>4 DEF IInv

\* A step that leaves graph, stack and order alone, and comes to no later
\* phase but from one.
LEMMA KeepOrder ==
  ASSUME IInv, UNCHANGED <<graph, stack, order>>,
         \A p \in Proc : phase'[p] \in Late => phase[p] \in Late
  PROVE  Inside' /\ Sorted'
<1>1. Inside'
  BY DEF IInv, Inside, Members, Range
<1>2. Sorted'
  BY DEF IInv, Sorted, Members, Range, Before
<1> QED BY <1>1, <1>2

LEMMA FailIInv ==
  ASSUME IInv, NEW p \in Proc, phase[p] # "idle", Fail(p)
  PROVE  IInv'
<1>1. TypeOK'
  BY DEF IInv, TypeOK, Fail, Goto, world, history, Phases, Ended
<1>2. Ready'
  BY DEF IInv, TypeOK, Ready, Fail, Goto, world, history
<1>3. Inside' /\ Sorted'
  BY KeepOrder DEF IInv, TypeOK, Fail, Goto, Late
<1> QED BY <1>1, <1>2, <1>3 DEF IInv

LEMMA StartIInv ==
  ASSUME IInv, NEW p \in Proc, Start(p)
  PROVE  IInv'
<1>1. PICK r \in scenario.requests : request' = [request EXCEPT ![p] = r]
  BY DEF Start
<1>2. r \in Request
  BY BuildAssumption DEF IInv, TypeOK
<1>3. r # None
  BY <1>2, NoneAssumption
<1>4. TypeOK'
  BY <1>1, <1>2 DEF IInv, TypeOK, Start, Goto, world, history, Phases
<1>5. Ready'
  BY <1>1, <1>3 DEF IInv, TypeOK, Ready, Start, Goto, world, history
<1>6. Inside' /\ Sorted'
  BY KeepOrder DEF IInv, TypeOK, Start, Goto, Late
<1> QED BY <1>4, <1>5, <1>6 DEF IInv

\* What the resolver reaches is closed under dependencies.
LEMMA ReachedIsClosed ==
  ASSUME TypeOK, Resolvable, NEW q \in Reached
  PROVE  manifests[q].deps \subseteq Reached
<1>1. q \in Package /\ manifests[q] \in Manifest
  BY DEF TypeOK, Resolvable, Reached
<1>2. manifests[q].deps \subseteq Package
  BY <1>1 DEF Manifest
<1> SUFFICES ASSUME NEW r \in manifests[q].deps PROVE r \in Reached
  OBVIOUS
<1> SUFFICES ASSUME NEW S \in SUBSET Package, scenario.roots \subseteq S,
                    \A t \in S : manifests[t] # Absent => manifests[t].deps \subseteq S
             PROVE  r \in S
  BY <1>2 DEF Reached
<1>3. q \in S
  BY DEF Reached
<1> QED BY <1>3 DEF Resolvable

LEMMA SyncIInv ==
  ASSUME IInv, NEW p \in Proc, Sync(p)
  PROVE  IInv'
<1> DEFINE g == [q \in Package |->
                   IF q \in Reached THEN manifests[q] ELSE Absent]
<1>1. g \in [Package -> Manifest \cup {Absent}]
  BY DEF IInv, TypeOK
<1>2. g # None
  BY <1>1, NoneAssumption
<1>3. graph' = [graph EXCEPT ![p] = g] /\ phase[p] = "sync"
  BY DEF Sync
<1>4. \A q \in Package : g[q] # Absent => g[q].deps \subseteq {r \in Package : g[r] # Absent}
  <2> SUFFICES ASSUME NEW q \in Package, g[q] # Absent, NEW r \in g[q].deps
               PROVE  r \in Package /\ g[r] # Absent
    OBVIOUS
  <2>1. q \in Reached /\ g[q] = manifests[q]
    OBVIOUS
  <2>2. r \in Reached
    BY <2>1, ReachedIsClosed DEF IInv, Sync
  <2> QED BY <2>2 DEF Reached, Resolvable, Sync
<1>5. stack[p] = <<>> /\ order[p] = <<>>
  BY <1>3 DEF IInv, Ready
<1> HIDE DEF g
<1>6. TypeOK'
  BY <1>1, <1>3 DEF IInv, TypeOK, Sync, Goto, world, history, Phases
<1>7. Ready'
  BY ZenonT(120), <1>2, <1>3 DEF IInv, TypeOK, Ready, Sync, Goto, world, history
<1>8. Inside'
  <2> SUFFICES ASSUME NEW z \in Proc, graph'[z] # None
               PROVE  /\ \A q \in Members(z)' : graph'[z][q].deps \subseteq Members(z)'
                      /\ Range(stack'[z]) \subseteq Members(z)'
                      /\ Range(order'[z]) \subseteq Members(z)'
    BY DEF Inside, Range
  <2>1. CASE z = p
    BY <2>1, <1>3, <1>4, <1>5 DEF IInv, TypeOK, Sync, Members, Range
  <2>2. CASE z # p
    BY <2>2, <1>3 DEF IInv, TypeOK, Inside, Sync, Members, Range
  <2> QED BY <2>1, <2>2
<1>9. Sorted'
  <2> SUFFICES ASSUME NEW z \in Proc
               PROVE  /\ \A i, j \in DOMAIN order'[z] : order'[z][i] = order'[z][j] => i = j
                      /\ \A i, j \in DOMAIN stack'[z] : stack'[z][i] = stack'[z][j] => i = j
                      /\ \A i \in DOMAIN order'[z], j \in DOMAIN stack'[z] :
                           order'[z][i] # stack'[z][j]
                      /\ \A r \in Range(order'[z]) : \A q \in graph'[z][r].deps : Before(z, q, r)'
                      /\ phase'[z] \in Late => Range(order'[z]) = Members(z)'
    BY DEF Sorted, Range
  <2>1. CASE z = p
    BY <2>1, <1>3, <1>5 DEF IInv, TypeOK, Sync, Goto, Late, Range
  <2>2. CASE z # p
    <3>1. /\ graph'[z] = graph[z] /\ phase'[z] = phase[z]
          /\ UNCHANGED <<stack, order>>
      BY <2>2, <1>3 DEF IInv, TypeOK, Sync, Goto
    <3> QED BY <3>1 DEF IInv, Sorted, Members, Range, Before
  <2> QED BY <2>1, <2>2
<1> QED BY <1>6, <1>7, <1>8, <1>9 DEF IInv

LEMMA ProbeIInv ==
  ASSUME IInv, NEW p \in Proc, Probe(p)
  PROVE  IInv'
<1>1. CASE Fail(p)
  BY <1>1, FailIInv DEF Probe
<1>2. CASE ~Fail(p)
  <2>1. compiler \in Compiler /\ compiler # None
    BY <1>2, NoneAssumption DEF IInv, TypeOK, Probe, Fits
  <2>2. TypeOK'
    BY <1>2, <2>1 DEF IInv, TypeOK, Probe, Goto, world, history, Phases
  <2>3. Ready'
    BY ZenonT(120), <1>2, <2>1 DEF IInv, TypeOK, Ready, Probe, Goto, world, history
  <2>4. Inside' /\ Sorted'
    BY <1>2, KeepOrder DEF IInv, TypeOK, Probe, Goto, Late
  <2> QED BY <2>2, <2>3, <2>4 DEF IInv
<1> QED BY <1>1, <1>2

\* A sequence without its last element.
LEMMA ButTopProperties ==
  ASSUME NEW S, NEW s \in Seq(S), s # <<>>
  PROVE  LET r == SubSeq(s, 1, Len(s) - 1)
         IN  /\ r \in Seq(S)
             /\ DOMAIN r = 1..(Len(s) - 1)
             /\ \A i \in DOMAIN r : r[i] = s[i] /\ i \in DOMAIN s /\ i # Len(s)
             /\ Len(s) \in DOMAIN s /\ DOMAIN s = (DOMAIN r) \cup {Len(s)}
<1> DEFINE m == Len(s) - 1
           r == SubSeq(s, 1, m)
<1>1. m \in Nat /\ 1 \in Int /\ m \in Int /\ DOMAIN s = 1..(m + 1) /\ Len(s) = m + 1
  OBVIOUS
<1>2. \A i \in 1..m : s[i] \in S
  BY <1>1
<1> HIDE DEF m
<1>3. /\ r \in Seq(S)
      /\ Len(r) = IF 1 <= m THEN m - 1 + 1 ELSE 0
      /\ \A i \in 1..(m - 1 + 1) : r[i] = s[1 + i - 1]
  BY <1>1, <1>2, SubSeqProperties
<1>4. Len(r) = m /\ \A i \in 1..m : r[i] = s[i]
  BY <1>1, <1>3
<1>5. DOMAIN r = 1..m
  BY <1>1, <1>3, <1>4
<1>6. m = Len(s) - 1
  BY DEF m
<1> QED
  BY <1>1, <1>3, <1>4, <1>5, <1>6

LEMMA SelectEntryIInv ==
  ASSUME IInv, NEW p \in Proc, SelectEntry(p)
  PROVE  IInv'
<1>1. CASE Fail(p)
  BY <1>1, FailIInv DEF SelectEntry
<1>2. CASE ~Fail(p)
  <2>1. PICK e \in Entry : entry' = [entry EXCEPT ![p] = e]
    BY <1>2 DEF SelectEntry
  <2>2. e # None
    BY <2>1, NoneAssumption
  <2>3. /\ phase[p] = "entry" /\ Goto(p, "order")
        /\ UNCHANGED <<scenario, world, request, graph, checked, stack, order,
                       digest, dir, used, history>>
    BY <1>2 DEF SelectEntry
  <2>4. TypeOK'
    BY <2>1, <2>3 DEF IInv, TypeOK, Goto, world, history, Phases
  <2>5. Ready'
    BY <2>1, <2>2, <2>3 DEF IInv, TypeOK, Ready, Goto, world, history
  <2>6. Inside' /\ Sorted'
    BY <2>3, KeepOrder DEF IInv, TypeOK, Goto, Late
  <2> QED BY <2>4, <2>5, <2>6 DEF IInv
<1> QED BY <1>1, <1>2

\* What is on the stack, and what it leads to, is in the graph.
LEMMA UnvisitedInside ==
  ASSUME IInv, NEW p \in Proc, phase[p] = "order"
  PROVE  /\ graph[p] # None /\ stack[p] \in Seq(Package) /\ order[p] \in Seq(Package)
         /\ Unvisited(p) \subseteq Members(p)
         /\ Members(p) \subseteq Package
         /\ stack[p] # <<>> => /\ Len(stack[p]) \in DOMAIN stack[p]
                               /\ Top(p) \in Members(p)
<1>1. graph[p] # None /\ stack[p] \in Seq(Package) /\ order[p] \in Seq(Package)
  BY DEF IInv, TypeOK, Ready
<1>2. stack[p] # <<>> => Len(stack[p]) \in DOMAIN stack[p]
  BY <1>1, ButTopProperties
<1>3. stack[p] # <<>> => Top(p) \in Members(p)
  BY <1>1, <1>2 DEF IInv, Inside, Top, Range
<1>4. Unvisited(p) \subseteq Members(p)
  BY <1>1, <1>3 DEF IInv, Inside, Unvisited
<1> QED BY <1>1, <1>2, <1>3, <1>4 DEF Members

\* What another command is at does not change.
LEMMA OthersSorted ==
  ASSUME IInv, NEW z \in Proc, graph'[z] = graph[z], phase'[z] = phase[z],
         stack'[z] = stack[z], order'[z] = order[z]
  PROVE  /\ \A i, j \in DOMAIN order'[z] : order'[z][i] = order'[z][j] => i = j
         /\ \A i, j \in DOMAIN stack'[z] : stack'[z][i] = stack'[z][j] => i = j
         /\ \A i \in DOMAIN order'[z], j \in DOMAIN stack'[z] :
              order'[z][i] # stack'[z][j]
         /\ \A r \in Range(order'[z]) : \A q \in graph'[z][r].deps : Before(z, q, r)'
         /\ phase'[z] \in Late => Range(order'[z]) = Members(z)'
BY DEF IInv, Sorted, Members, Range, Before

LEMMA VisitIInv ==
  ASSUME IInv, NEW p \in Proc, Visit(p)
  PROVE  IInv'
<1>1. CASE Fail(p)
  BY <1>1, FailIInv DEF Visit
<1>2. CASE ~Fail(p)
  <2>1. PICK q \in First(Unvisited(p)) :
          /\ q \notin Range(stack[p])
          /\ stack' = [stack EXCEPT ![p] = Append(stack[p], q)]
          /\ UNCHANGED <<scenario, world, phase, request, graph, checked, entry,
                         order, digest, dir, used, history>>
    BY <1>2 DEF Visit
  <2>2. phase[p] = "order"
    BY DEF Visit
  <2>3. q \in Unvisited(p)
    BY DEF First
  <2>4. /\ graph[p] # None /\ stack[p] \in Seq(Package) /\ order[p] \in Seq(Package)
        /\ q \in Members(p) /\ q \in Package
    BY <2>2, <2>3, UnvisitedInside
  <2>5. q \notin Range(order[p])
    BY <2>3 DEF Unvisited
  <2> DEFINE s == Append(stack[p], q)
  <2>6. /\ s \in Seq(Package)
        /\ DOMAIN s = (DOMAIN stack[p]) \cup {Len(stack[p]) + 1}
        /\ \A i \in DOMAIN stack[p] : s[i] = stack[p][i]
        /\ s[Len(stack[p]) + 1] = q
    BY <2>4
  <2>7. stack' = [stack EXCEPT ![p] = s]
    BY <2>1
  <2> HIDE DEF s
  <2>8. stack'[p] = s /\ \A z \in Proc \ {p} : stack'[z] = stack[z]
    BY <2>7 DEF IInv, TypeOK
  <2>9. TypeOK'
    BY <2>1, <2>6, <2>7 DEF IInv, TypeOK, world, history
  <2>10. Ready'
    BY <2>1, <2>2, <2>4, <2>8 DEF IInv, Ready, world, history
  <2>11. Inside'
    BY <2>1, <2>4, <2>6, <2>8 DEF IInv, Inside, Members, Range
  <2>12. Sorted'
    <3> SUFFICES ASSUME NEW z \in Proc
                 PROVE  /\ \A i, j \in DOMAIN order'[z] : order'[z][i] = order'[z][j] => i = j
                        /\ \A i, j \in DOMAIN stack'[z] : stack'[z][i] = stack'[z][j] => i = j
                        /\ \A i \in DOMAIN order'[z], j \in DOMAIN stack'[z] :
                             order'[z][i] # stack'[z][j]
                        /\ \A r \in Range(order'[z]) : \A t \in graph'[z][r].deps : Before(z, t, r)'
                        /\ phase'[z] \in Late => Range(order'[z]) = Members(z)'
      BY DEF Sorted, Range
    <3>1. CASE z = p
      <4>1. \A i, j \in DOMAIN s : s[i] = s[j] => i = j
        BY <2>1, <2>6 DEF IInv, Sorted, Range
      <4>2. \A i \in DOMAIN order[p], j \in DOMAIN s : order[p][i] # s[j]
        BY <2>5, <2>6 DEF IInv, Sorted, Range
      <4>3. \A r \in Range(order[p]) : \A t \in graph[p][r].deps : Before(p, t, r)'
        BY <2>1 DEF IInv, Sorted, Before, Range
      <4> QED BY <4>1, <4>2, <4>3, <3>1, <2>1, <2>2, <2>8 DEF IInv, Sorted, Late, Range
    <3>2. CASE z # p
      BY <3>2, <2>1, <2>8, OthersSorted
    <3> QED BY <3>1, <3>2
  <2> QED BY <2>9, <2>10, <2>11, <2>12 DEF IInv
<1> QED BY <1>1, <1>2

LEMMA PlaceIInv ==
  ASSUME IInv, NEW p \in Proc, Place(p)
  PROVE  IInv'
<1> DEFINE s == ButTop(p)
           o == Append(order[p], Top(p))
           n == Len(order[p]) + 1
<1>1. /\ phase[p] = "order" /\ stack[p] # <<>> /\ Unvisited(p) = {}
      /\ order' = [order EXCEPT ![p] = o]
      /\ stack' = [stack EXCEPT ![p] = s]
      /\ UNCHANGED <<scenario, world, phase, request, graph, checked, entry,
                     digest, dir, used, history>>
  BY DEF Place
<1>2. /\ graph[p] # None /\ stack[p] \in Seq(Package) /\ order[p] \in Seq(Package)
      /\ Members(p) \subseteq Package
      /\ Len(stack[p]) \in DOMAIN stack[p] /\ Top(p) \in Members(p)
  BY <1>1, UnvisitedInside
<1>3. /\ s \in Seq(Package)
      /\ \A i \in DOMAIN s : s[i] = stack[p][i] /\ i \in DOMAIN stack[p] /\ i # Len(stack[p])
  BY <1>1, <1>2, ButTopProperties DEF ButTop
<1>4. /\ o \in Seq(Package)
      /\ DOMAIN o = (DOMAIN order[p]) \cup {n}
      /\ \A i \in DOMAIN order[p] : o[i] = order[p][i] /\ i \in Nat /\ i < n
      /\ o[n] = Top(p) /\ n \in Nat
  BY <1>2
<1> HIDE DEF s, o, n
<1>5. /\ stack'[p] = s /\ \A z \in Proc \ {p} : stack'[z] = stack[z]
      /\ order'[p] = o /\ \A z \in Proc \ {p} : order'[z] = order[z]
  BY <1>1 DEF IInv, TypeOK
<1>6. TypeOK'
  BY <1>1, <1>3, <1>4 DEF IInv, TypeOK, world, history
<1>7. Ready'
  BY <1>1, <1>2, <1>5 DEF IInv, Ready, world, history
<1>8. Inside'
  BY <1>1, <1>2, <1>3, <1>4, <1>5 DEF IInv, Inside, Members, Range
<1>9. Sorted'
  <2> SUFFICES ASSUME NEW z \in Proc
               PROVE  /\ \A i, j \in DOMAIN order'[z] : order'[z][i] = order'[z][j] => i = j
                      /\ \A i, j \in DOMAIN stack'[z] : stack'[z][i] = stack'[z][j] => i = j
                      /\ \A i \in DOMAIN order'[z], j \in DOMAIN stack'[z] :
                           order'[z][i] # stack'[z][j]
                      /\ \A r \in Range(order'[z]) : \A t \in graph'[z][r].deps : Before(z, t, r)'
                      /\ phase'[z] \in Late => Range(order'[z]) = Members(z)'
    BY DEF Sorted, Range
  <2>1. CASE z = p
    <3>1. \A i \in DOMAIN order[p] : order[p][i] # Top(p)
      BY <1>2 DEF IInv, Sorted, Top
    <3>2. \A i, j \in DOMAIN o : o[i] = o[j] => i = j
      BY <3>1, <1>4 DEF IInv, Sorted
    <3>3. \A i, j \in DOMAIN s : s[i] = s[j] => i = j
      BY <1>3 DEF IInv, Sorted
    <3>4. \A j \in DOMAIN s : s[j] # Top(p)
      BY <1>2, <1>3 DEF IInv, Sorted, Top
    <3>5. \A i \in DOMAIN o, j \in DOMAIN s : o[i] # s[j]
      BY <3>4, <1>3, <1>4 DEF IInv, Sorted
    <3>6. \A r \in Range(o) : \A t \in graph[p][r].deps :
            \E i, j \in DOMAIN o : i < j /\ o[i] = t /\ o[j] = r
      <4> SUFFICES ASSUME NEW r \in Range(o), NEW t \in graph[p][r].deps
                   PROVE  \E i, j \in DOMAIN o : i < j /\ o[i] = t /\ o[j] = r
        OBVIOUS
      <4>1. CASE r \in Range(order[p])
        <5>1. Before(p, t, r)
          BY <4>1 DEF IInv, Sorted
        <5> QED BY <5>1, <1>4 DEF Before
      <4>2. CASE r \notin Range(order[p])
        <5>1. r = Top(p)
          BY <4>2, <1>4 DEF Range
        <5>2. t \in Range(order[p])
          BY <5>1, <1>1 DEF Unvisited
        <5>3. PICK i \in DOMAIN order[p] : order[p][i] = t
          BY <5>2 DEF Range
        <5> QED BY <5>1, <5>3, <1>4
      <4> QED BY <4>1, <4>2
    <3>7. \A r \in Range(o) : \A t \in graph'[p][r].deps : Before(p, t, r)'
      BY <3>6, <1>1, <1>5 DEF Before
    <3>8. phase'[p] \notin Late
      BY <1>1 DEF Late
    <3> QED BY <2>1, <3>2, <3>3, <3>5, <3>7, <3>8, <1>5
  <2>2. CASE z # p
    BY <2>2, <1>1, <1>5, OthersSorted
  <2> QED BY <2>1, <2>2
<1> QED BY <1>6, <1>7, <1>8, <1>9 DEF IInv

LEMMA OrderedIInv ==
  ASSUME IInv, NEW p \in Proc, Ordered(p)
  PROVE  IInv'
<1>1. /\ phase[p] = "order" /\ stack[p] = <<>> /\ Unvisited(p) = {}
      /\ phase' = [phase EXCEPT ![p] = "hash"]
      /\ UNCHANGED <<scenario, world, request, graph, checked, entry, stack,
                     order, digest, dir, used, history>>
  BY DEF Ordered, Goto
<1>2. graph[p] # None /\ Range(order[p]) = Members(p)
  BY <1>1, UnvisitedInside DEF IInv, Inside, Unvisited
<1>3. TypeOK'
  BY <1>1 DEF IInv, TypeOK, world, history, Phases
<1>4. Ready'
  BY <1>1 DEF IInv, TypeOK, Ready, world, history
<1>5. Inside'
  BY <1>1 DEF IInv, Inside, Members, Range
<1>6. Sorted'
  <2>1. \A z \in Proc : phase'[z] \in Late => phase[z] \in Late \/ z = p
    BY <1>1 DEF IInv, TypeOK
  <2> QED BY <1>1, <1>2, <2>1 DEF IInv, Sorted, Members, Range, Before
<1> QED BY <1>3, <1>4, <1>5, <1>6 DEF IInv

LEMMA HashIInv ==
  ASSUME IInv, NEW p \in Proc, Hash(p)
  PROVE  IInv'
<1>1. CASE Fail(p)
  BY <1>1, FailIInv DEF Hash
<1>2. CASE ~Fail(p)
  <2>1. PICK q \in Unread(p) :
          /\ manifests[q] # Absent /\ sources[q] # Absent
          /\ digest' = [digest EXCEPT ![p][q] =
               [manifest |-> manifests[q], source |-> sources[q]]]
    BY <1>2 DEF Hash
  <2>2. phase[p] = "hash"
        /\ UNCHANGED <<scenario, world, phase, request, graph, checked, entry,
                       stack, order, dir, used, history>>
    BY <1>2 DEF Hash
  <2>3. q \in Package
    BY DEF Unread, Members
  <2> DEFINE f == [manifest |-> manifests[q], source |-> sources[q]]
             d == [digest[p] EXCEPT ![q] = f]
  <2>4. f \in FileState
    BY <2>1, <2>3 DEF IInv, TypeOK, FileState
  <2>5. d \in [Package -> FileState \cup {None}]
    BY <2>4 DEF IInv, TypeOK
  <2>6. digest' = [digest EXCEPT ![p] = d]
    BY <2>1
  <2> HIDE DEF d
  <2>7. TypeOK'
    BY <2>2, <2>5, <2>6 DEF IInv, TypeOK, world, history
  <2>8. Ready'
    BY <2>2 DEF IInv, Ready
  <2>9. Inside' /\ Sorted'
    BY <2>2, KeepOrder
  <2> QED BY <2>7, <2>8, <2>9 DEF IInv
<1> QED BY <1>1, <1>2

LEMMA PrepareIInv ==
  ASSUME IInv, NEW p \in Proc,
         Allocate(p) \/ Describe(p) \/ WritePlan(p) \/ WritePlanFails(p)
  PROVE  IInv'
<1>1. CASE Fail(p) /\ phase[p] # "idle"
  BY <1>1, FailIInv
<1>2. CASE Allocate(p)
  <2>1. TypeOK'
    BY <1>2 DEF IInv, TypeOK, Allocate, Goto, world, history, Phases, Parts
  <2>2. Ready'
    BY <1>2 DEF IInv, TypeOK, Ready, Allocate, Goto, world, history
  <2>3. Inside' /\ Sorted'
    BY <1>2, KeepOrder DEF IInv, TypeOK, Allocate, Goto, Late
  <2> QED BY <2>1, <2>2, <2>3 DEF IInv
<1>3. CASE Describe(p) /\ ~Fail(p)
  <2>1. TypeOK'
    <3>1. PICK parts \in SUBSET Parts :
            dir' = [dir EXCEPT ![p] = dir[p] \cup parts]
      BY <1>3 DEF Describe, Parts
    <3>2. dir' \in [Proc -> SUBSET Parts]
      BY <3>1 DEF IInv, TypeOK
    <3>3. phase' \in [Proc -> Phases]
      BY ZenonT(120), <1>3 DEF IInv, TypeOK, Describe, Goto, Phases
    <3> QED BY <1>3, <3>2, <3>3 DEF IInv, TypeOK, Describe, world, history
  <2>2. Ready'
    BY <1>3 DEF IInv, TypeOK, Ready, Describe, Goto, world, history
  <2>3. Inside' /\ Sorted'
    BY <1>3, KeepOrder DEF IInv, TypeOK, Describe, Goto, Late
  <2> QED BY <2>1, <2>2, <2>3 DEF IInv
<1>4. CASE WritePlan(p)
  <2>1. spoiled' \in [Proc -> BOOLEAN]
    BY <1>4 DEF IInv, TypeOK, WritePlan
  <2>2. TypeOK'
    BY <1>4, <2>1 DEF IInv, TypeOK, WritePlan, Goto, world, Phases, Ended, Parts
  <2>3. Ready'
    BY <1>4 DEF IInv, TypeOK, Ready, WritePlan, Goto, world
  <2>4. Inside' /\ Sorted'
    BY <1>4, KeepOrder DEF IInv, TypeOK, WritePlan, Goto, Late
  <2> QED BY <2>2, <2>3, <2>4 DEF IInv
<1> QED BY <1>1, <1>2, <1>3, <1>4 DEF Allocate, Describe, WritePlan, WritePlanFails

\* What the compiler is given.
LEMMA GivenType ==
  ASSUME IInv, NEW p \in Proc, Compile(p)
  PROVE  Given(p) \in Inputs /\ Given(p) # None
<1>1. /\ compiler \in Compiler /\ request[p] \in Request /\ entry[p] \in Entry
      /\ graph[p] \in [Package -> Manifest \cup {Absent}]
  BY DEF IInv, TypeOK, Ready, Compile
<1>2. \A q \in Members(p) :
        [manifest |-> graph[p][q], source |-> sources[q]] \in FileState
  BY <1>1 DEF IInv, TypeOK, Compile, Members, FileState
<1> DEFINE f == [q \in Package |-> IF q \in Members(p)
             THEN [manifest |-> graph[p][q], source |-> sources[q]] ELSE None]
<1>3. f \in [Package -> FileState \cup {None}]
  BY <1>2
<1>4. Given(p) = [version |-> compiler.version, intent |-> request[p].intent,
                  options |-> request[p].options, entry |-> entry[p],
                  files |-> f]
  BY DEF Given
<1> HIDE DEF f
<1>5. request[p].intent \in Intent /\ request[p].options \in Options
  BY <1>1 DEF Request
<1>6. compiler.version \in {c.version : c \in Compiler}
  BY <1>1
<1>7. Given(p) \in Inputs
  BY <1>1, <1>3, <1>4, <1>5, <1>6 DEF Inputs
<1> QED BY <1>7, NoneAssumption

LEMMA CompileIInv ==
  ASSUME IInv, NEW p \in Proc, Compile(p) \/ CompileFails(p) \/ Validate(p)
  PROVE  IInv'
<1>1. CASE Compile(p)
  <2>1. dir' \in [Proc -> SUBSET Parts]
    <3>1. CASE dir' = [dir EXCEPT ![p] = @ \cup {"receipt"}]
      <4>1. PICK parts \in SUBSET Parts :
              dir' = [dir EXCEPT ![p] = dir[p] \cup parts]
        BY <3>1 DEF Parts
      <4> QED BY <4>1 DEF IInv, TypeOK
    <3>2. CASE dir' = dir
      BY <3>2 DEF IInv, TypeOK
    <3> QED BY <1>1, <3>1, <3>2 DEF Compile
  <2>2. TypeOK'
    <3> DEFINE given == Given(p)
    <3>1. given \in Inputs
      BY <1>1, GivenType
    <3>2. used' = [used EXCEPT ![p] = given]
      BY <1>1 DEF Compile
    <3> HIDE DEF given
    <3>3. used' \in [Proc -> Inputs \cup {None}]
      BY <3>1, <3>2 DEF IInv, TypeOK
    <3>4. phase' \in [Proc -> Phases]
      BY <1>1 DEF IInv, TypeOK, Compile, Goto, Phases
    <3> QED BY <1>1, <2>1, <3>3, <3>4 DEF IInv, TypeOK, Compile, world, history
  <2>3. Ready'
    BY <1>1 DEF IInv, TypeOK, Ready, Compile, Goto, world, history
  <2>4. Inside' /\ Sorted'
    BY <1>1, KeepOrder DEF IInv, TypeOK, Compile, Goto, Late
  <2> QED BY <2>2, <2>3, <2>4 DEF IInv
<1>2. CASE CompileFails(p)
  BY <1>2, FailIInv DEF CompileFails
<1>3. CASE Validate(p)
  <2>1. TypeOK'
    BY <1>3 DEF IInv, TypeOK, Validate, Goto, world, history, Phases, Ended
  <2>2. Ready'
    BY <1>3 DEF IInv, TypeOK, Ready, Validate, Goto, world, history
  <2>3. Inside' /\ Sorted'
    BY <1>3, KeepOrder DEF IInv, TypeOK, Validate, Goto, Late
  <2> QED BY <2>1, <2>2, <2>3 DEF IInv
<1> QED BY <1>1, <1>2, <1>3

LEMMA ChangeIInv ==
  ASSUME IInv, EditManifest \/ EditSource \/ Install \/ Prune
  PROVE  IInv'
<1>1. CASE EditManifest
  <2>1. manifests' \in [Package -> Manifest \cup {Absent}]
    BY <1>1, BuildAssumption DEF IInv, TypeOK, EditManifest
  <2>2. moved' \in [Proc -> BOOLEAN]
    BY <1>1 DEF IInv, TypeOK, EditManifest
  <2>3. TypeOK'
    BY <1>1, <2>1, <2>2 DEF IInv, TypeOK, EditManifest
  <2>4. Ready'
    BY <1>1 DEF IInv, Ready, EditManifest
  <2>5. Inside' /\ Sorted'
    BY <1>1, KeepOrder DEF EditManifest
  <2> QED BY <2>3, <2>4, <2>5 DEF IInv
<1>2. CASE EditSource
  <2>1. PICK q \in scenario.touched, c \in Content \cup {Absent} :
          /\ sources' = [sources EXCEPT ![q] = c]
          /\ moved' = [p \in Proc |-> moved[p] \/ (Running(p) /\ digest[p][q] # None)]
    BY <1>2 DEF EditSource
  <2>2. moved' \in [Proc -> BOOLEAN] /\ sources' \in [Package -> Content \cup {Absent}]
    BY <2>1 DEF IInv, TypeOK
  <2>3. TypeOK'
    BY <1>2, <2>2 DEF IInv, TypeOK, EditSource
  <2>4. Ready'
    BY <1>2 DEF IInv, Ready, EditSource
  <2>5. Inside' /\ Sorted'
    BY <1>2, KeepOrder DEF EditSource
  <2> QED BY <2>3, <2>4, <2>5 DEF IInv
<1>3. CASE Install
  <2>1. moved' \in [Proc -> BOOLEAN] /\ compiler' \in Compiler \cup {Absent}
    BY <1>3 DEF IInv, TypeOK, Install
  <2>2. TypeOK'
    BY <1>3, <2>1 DEF IInv, TypeOK, Install
  <2>3. Ready'
    BY <1>3 DEF IInv, Ready, Install
  <2>4. Inside' /\ Sorted'
    BY <1>3, KeepOrder DEF Install
  <2> QED BY <2>2, <2>3, <2>4 DEF IInv
<1>4. CASE Prune
  <2>1. dir' \in [Proc -> SUBSET Parts] /\ spoiled' \in [Proc -> BOOLEAN]
    BY <1>4 DEF IInv, TypeOK, Prune
  <2>2. TypeOK'
    BY <1>4, <2>1 DEF IInv, TypeOK, Prune, world
  <2>3. Ready'
    BY <1>4 DEF IInv, Ready, Prune
  <2>4. Inside' /\ Sorted'
    BY <1>4, KeepOrder DEF Prune
  <2> QED BY <2>2, <2>3, <2>4 DEF IInv
<1> QED BY <1>1, <1>2, <1>3, <1>4

LEMMA NextIInv == ASSUME IInv, [Next]_vars PROVE IInv'
<1>1. CASE \E p \in Proc : Step(p)
  BY <1>1, StartIInv, SyncIInv, FailIInv, ProbeIInv, SelectEntryIInv, VisitIInv,
     PlaceIInv, OrderedIInv, HashIInv, PrepareIInv, CompileIInv
  DEF Step, SyncFails, Fail
<1>2. CASE EditManifest \/ EditSource \/ Install \/ Prune
  BY <1>2, ChangeIInv
<1>3. CASE UNCHANGED vars
  <2>1. TypeOK'
    BY <1>3 DEF IInv, TypeOK, vars, world, history
  <2>2. Ready'
    BY <1>3 DEF IInv, Ready, vars
  <2>3. Inside' /\ Sorted'
    BY <1>3, KeepOrder DEF vars
  <2> QED BY <2>1, <2>2, <2>3 DEF IInv
<1> QED BY <1>1, <1>2, <1>3 DEF Next

LEMMA InvariantHolds == Spec => []IInv
BY InitIInv, NextIInv, PTL DEF Spec

\* Every variable keeps its type.
THEOREM TypeCorrect == Spec => []TypeOK
<1>1. IInv => TypeOK
  BY DEF IInv
<1> QED BY <1>1, InvariantHolds, PTL

\* BuildPackageOrder: the packages of a plan come each once and after those they
\* depend on, and they are all of the graph that sync resolved.
THEOREM OrderCorrect == Spec => []OrderIsTopological
<1>1. IInv => OrderIsTopological
  BY DEF IInv, Sorted, OrderIsTopological, Late
<1> QED BY <1>1, InvariantHolds, PTL

-----------------------------------------------------------------------------
(* The cache key.                                                           *)

\* What the compiler should have been given.
Expected(p) ==
  [version |-> checked[p].version, intent |-> request[p].intent,
   options |-> request[p].options, entry |-> entry[p], files |-> digest[p]]

\* While a command runs and nothing it looked at changed, what it remembers is
\* what is there; past the hash it remembers everything; and what a compiler
\* was given is what it remembers.
Sound(p) ==
  /\ Running(p) /\ ~moved[p] =>
       /\ graph[p] # None => \A q \in Members(p) : graph[p][q] = manifests[q]
       /\ checked[p] # None => checked[p] = compiler
       /\ \A q \in Package : digest[p][q] # None =>
            digest[p][q] = [manifest |-> manifests[q], source |-> sources[q]]
  /\ \A q \in Package : digest[p][q] # None => graph[p] # None /\ q \in Members(p)
  /\ phase[p] \in {"describe", "write", "compile"} =>
       \A q \in Members(p) : digest[p][q] # None
  /\ used[p] # None =>
       /\ phase[p] \in {"validate", "succeeded", "failed"}
       /\ ~moved[p] => used[p] = Expected(p)

KInv == IInv /\ \A p \in Proc : Sound(p)

LEMMA InitKInv == ASSUME Init PROVE KInv
<1>1. \A p \in Proc : Sound(p)
  BY DEF Init, Sound
<1> QED BY <1>1, InitIInv DEF KInv

\* A command that takes no part in a step, or only goes from one phase to another.
LEMMA StaysSound ==
  ASSUME NEW p \in Proc, Sound(p), UNCHANGED world,
         graph'[p] = graph[p], checked'[p] = checked[p], request'[p] = request[p],
         entry'[p] = entry[p], digest'[p] = digest[p], used'[p] = used[p],
         moved'[p] = moved[p], Running(p)' => Running(p),
         phase'[p] \in {"describe", "write", "compile"} =>
           phase[p] \in {"describe", "write", "compile"},
         used[p] # None => phase'[p] \in {"validate", "succeeded", "failed"}
  PROVE  Sound(p)'
BY DEF Sound, Members, Expected, world

\* The steps in which a command takes nothing in.
LEMMA QuietSound ==
  ASSUME KInv, NEW p \in Proc,
         \/ SyncFails(p) \/ Visit(p) \/ Place(p) \/ Ordered(p) \/ Describe(p)
         \/ WritePlan(p) \/ WritePlanFails(p) \/ CompileFails(p) \/ Validate(p)
         \/ Fail(p) /\ Running(p),
         NEW z \in Proc
  PROVE  Sound(z)'
<1>1. UNCHANGED <<world, request, graph, checked, entry, digest, used, moved>>
  BY DEF SyncFails, Visit, Place, Ordered, Describe, WritePlan, WritePlanFails,
         CompileFails, Validate, Fail, Goto, history
<1>2. \A y \in Proc \ {p} : phase'[y] = phase[y]
  BY DEF KInv, IInv, TypeOK, SyncFails, Visit, Place, Ordered, Describe, WritePlan,
         WritePlanFails, CompileFails, Validate, Fail, Goto
<1>3. /\ Running(p)
      /\ phase'[p] \in {"describe", "write", "compile"} =>
           phase[p] \in {"describe", "write", "compile"}
      /\ used[p] # None => phase'[p] \in {"validate", "succeeded", "failed"}
  <2>1. used[p] # None => phase[p] \in {"validate", "succeeded", "failed"}
    BY DEF KInv, Sound
  <2> QED
    BY <2>1 DEF KInv, IInv, TypeOK, SyncFails, Visit, Place, Ordered, Describe, WritePlan,
         WritePlanFails, CompileFails, Validate, Fail, Goto, Running, Ended
<1>4. CASE z = p
  BY <1>1, <1>3, <1>4, StaysSound DEF KInv
<1>5. CASE z # p
  <2>1. used[z] # None => phase[z] \in {"validate", "succeeded", "failed"}
    BY DEF KInv, Sound
  <2> QED BY <1>1, <1>2, <1>5, <2>1, StaysSound DEF KInv, Running
<1> QED BY <1>4, <1>5

\* A command is not concerned by what another takes in.
LEMMA OthersSound ==
  ASSUME KInv, NEW z \in Proc, UNCHANGED world,
         graph'[z] = graph[z], checked'[z] = checked[z], request'[z] = request[z],
         entry'[z] = entry[z], digest'[z] = digest[z], used'[z] = used[z],
         moved'[z] = moved[z], phase'[z] = phase[z]
  PROVE  Sound(z)'
BY DEF KInv, Sound, Members, Expected, Running, world

LEMMA StartSound ==
  ASSUME KInv, NEW p \in Proc, Start(p), NEW z \in Proc
  PROVE  Sound(z)'
<1>1. PICK r : request' = [request EXCEPT ![p] = r]
  BY DEF Start
<1>2. /\ phase[p] = "idle" /\ phase' = [phase EXCEPT ![p] = "sync"]
      /\ UNCHANGED <<world, graph, checked, entry, digest, used, moved>>
  BY DEF Start, Goto, history
<1>3. graph[p] = None /\ checked[p] = None
  BY <1>2 DEF KInv, IInv, Ready
<1>4. used[p] = None /\ \A q \in Package : digest[p][q] = None
  BY <1>2, <1>3 DEF KInv, Sound
<1>5. CASE z = p
  BY <1>2, <1>3, <1>4, <1>5 DEF Sound, KInv, IInv, TypeOK
<1>6. CASE z # p
  BY <1>1, <1>2, <1>6, OthersSound DEF KInv, IInv, TypeOK
<1> QED BY <1>5, <1>6

LEMMA SyncSound ==
  ASSUME KInv, NEW p \in Proc, Sync(p), NEW z \in Proc
  PROVE  Sound(z)'
<1> DEFINE g == [q \in Package |->
                   IF q \in Reached THEN manifests[q] ELSE Absent]
<1>1. \A q \in Package : g[q] # Absent => g[q] = manifests[q]
  OBVIOUS
<1>2. /\ graph' = [graph EXCEPT ![p] = g] /\ phase[p] = "sync"
      /\ phase' = [phase EXCEPT ![p] = phase'[p]] /\ phase'[p] \in {"entry", "probe"}
      /\ UNCHANGED <<world, request, checked, entry, digest, used, moved>>
  BY DEF Sync, Goto, history, KInv, IInv, TypeOK
<1> HIDE DEF g
<1>3. graph[p] = None /\ checked[p] = None
  BY <1>2 DEF KInv, IInv, Ready
<1>4. used[p] = None /\ \A q \in Package : digest[p][q] = None
  BY <1>2, <1>3 DEF KInv, Sound
<1>5. graph'[p] = g
  BY <1>2 DEF KInv, IInv, TypeOK
<1>6. CASE z = p
  BY <1>1, <1>2, <1>3, <1>4, <1>5, <1>6 DEF Sound, Members, world
<1>7. CASE z # p
  BY <1>2, <1>7, OthersSound DEF KInv, IInv, TypeOK
<1> QED BY <1>6, <1>7

LEMMA ProbeSound ==
  ASSUME KInv, NEW p \in Proc, Probe(p), NEW z \in Proc
  PROVE  Sound(z)'
<1>1. phase[p] = "probe" /\ used[p] = None
  BY DEF KInv, Sound, Probe
<1>2. CASE Fail(p)
  BY <1>1, <1>2, QuietSound DEF Running, Ended
<1>3. CASE ~Fail(p)
  <2>1. /\ checked' = [checked EXCEPT ![p] = compiler]
        /\ phase' = [phase EXCEPT ![p] = "entry"]
        /\ UNCHANGED <<world, request, graph, entry, digest, used, moved>>
    BY <1>3 DEF Probe, Goto, history
  <2>2. checked'[p] = compiler /\ phase'[p] = "entry" /\ Running(p)
    BY <1>1, <2>1 DEF KInv, IInv, TypeOK, Running, Ended
  <2>3. CASE z = p
    <3>1. Sound(p)
      BY DEF KInv
    <3> QED BY <1>1, <2>1, <2>2, <2>3, <3>1 DEF Sound, Members, world
  <2>4. CASE z # p
    BY <2>1, <2>4, OthersSound DEF KInv, IInv, TypeOK
  <2> QED BY <2>3, <2>4
<1> QED BY <1>2, <1>3

LEMMA SelectEntrySound ==
  ASSUME KInv, NEW p \in Proc, SelectEntry(p), NEW z \in Proc
  PROVE  Sound(z)'
<1>1. phase[p] = "entry" /\ used[p] = None
  BY DEF KInv, Sound, SelectEntry
<1>2. CASE Fail(p)
  BY <1>1, <1>2, QuietSound DEF Running, Ended
<1>3. CASE ~Fail(p)
  <2>1. PICK e : entry' = [entry EXCEPT ![p] = e]
    BY <1>3 DEF SelectEntry
  <2>2. /\ phase' = [phase EXCEPT ![p] = "order"]
        /\ UNCHANGED <<world, request, graph, checked, digest, used, moved>>
    BY <1>3 DEF SelectEntry, Goto, history
  <2>3. phase'[p] = "order" /\ Running(p)
    BY <1>1, <2>2 DEF KInv, IInv, TypeOK, Running, Ended
  <2>4. CASE z = p
    <3>1. Sound(p)
      BY DEF KInv
    <3> QED BY <1>1, <2>2, <2>3, <2>4, <3>1 DEF Sound, Members, world
  <2>5. CASE z # p
    BY <2>1, <2>2, <2>5, OthersSound DEF KInv, IInv, TypeOK
  <2> QED BY <2>4, <2>5
<1> QED BY <1>2, <1>3

LEMMA HashSound ==
  ASSUME KInv, NEW p \in Proc, Hash(p), NEW z \in Proc
  PROVE  Sound(z)'
<1>1. phase[p] = "hash" /\ used[p] = None /\ Running(p)
  BY DEF KInv, Sound, Hash, Running, Ended
<1>2. CASE Fail(p)
  BY <1>1, <1>2, QuietSound
<1>3. CASE ~Fail(p)
  <2>1. PICK q \in Unread(p) :
          digest' = [digest EXCEPT ![p][q] =
            [manifest |-> manifests[q], source |-> sources[q]]]
    BY <1>3 DEF Hash
  <2>2. UNCHANGED <<world, phase, request, graph, checked, entry, used, moved>>
    BY <1>3 DEF Hash, history
  <2>3. q \in Package /\ q \in Members(p)
    BY DEF Unread, Members
  <2> DEFINE f == [manifest |-> manifests[q], source |-> sources[q]]
             d == [digest[p] EXCEPT ![q] = f]
  <2>4. /\ \A r \in Package \ {q} : d[r] = digest[p][r]
        /\ d[q] = f
    BY <2>3 DEF KInv, IInv, TypeOK
  <2>5. digest' = [digest EXCEPT ![p] = d]
    BY <2>1
  <2> HIDE DEF d
  <2>6. digest'[p] = d /\ \A y \in Proc \ {p} : digest'[y] = digest[y]
    BY <2>5 DEF KInv, IInv, TypeOK
  <2>7. graph[p] # None
    BY <1>1 DEF KInv, IInv, Ready
  <2>8. CASE z = p
    <3>1. Sound(p)
      BY DEF KInv
    <3>2. \A r \in Package : digest'[p][r] # None => r \in Members(p)
      BY <2>3, <2>4, <2>6, <3>1 DEF Sound
    <3>3. Running(p) /\ ~moved[p] => \A r \in Package : digest'[p][r] # None =>
            digest'[p][r] = [manifest |-> manifests[r], source |-> sources[r]]
      BY <2>4, <2>6, <3>1 DEF Sound
    <3> QED BY <1>1, <2>2, <2>7, <2>8, <3>1, <3>2, <3>3 DEF Sound, Members, Running, world
  <2>9. CASE z # p
    BY <2>2, <2>6, <2>9, OthersSound
  <2> QED BY <2>8, <2>9
<1> QED BY <1>2, <1>3

LEMMA AllocateSound ==
  ASSUME KInv, NEW p \in Proc, Allocate(p), NEW z \in Proc
  PROVE  Sound(z)'
<1>1. /\ phase[p] = "hash" /\ Unread(p) = {}
      /\ phase' = [phase EXCEPT ![p] = "describe"]
      /\ UNCHANGED <<world, request, graph, checked, entry, digest, used, moved>>
  BY DEF Allocate, Goto, history
<1>2. phase'[p] = "describe" /\ Running(p) /\ used[p] = None
  BY <1>1 DEF KInv, IInv, TypeOK, Running, Ended, Sound
<1>3. CASE z = p
  <2>1. Sound(p)
    BY DEF KInv
  <2>2. \A q \in Members(p) : digest[p][q] # None
    BY <1>1 DEF Unread
  <2> QED BY <1>1, <1>2, <1>3, <2>1, <2>2 DEF Sound, Members, world
<1>4. CASE z # p
  BY <1>1, <1>4, OthersSound DEF KInv, IInv, TypeOK
<1> QED BY <1>3, <1>4

LEMMA CompileSound ==
  ASSUME KInv, NEW p \in Proc, Compile(p), NEW z \in Proc
  PROVE  Sound(z)'
<1> DEFINE given == Given(p)
<1>1. /\ phase[p] = "compile" /\ used' = [used EXCEPT ![p] = given]
      /\ phase' = [phase EXCEPT ![p] = "validate"]
      /\ UNCHANGED <<world, request, graph, checked, entry, digest, moved>>
  BY DEF Compile, Goto, history
<1>2. ~moved[p] => given = Expected(p)
  <2> SUFFICES ASSUME ~moved[p] PROVE given = Expected(p)
    OBVIOUS
  <2>1. Sound(p) /\ Running(p) /\ graph[p] # None /\ checked[p] # None
    BY <1>1 DEF KInv, IInv, Ready, Running, Ended
  <2>2. compiler = checked[p]
    BY <2>1 DEF Sound
  <2>3. \A q \in Package :
          digest[p][q] = IF q \in Members(p)
            THEN [manifest |-> graph[p][q], source |-> sources[q]] ELSE None
    BY <1>1, <2>1 DEF Sound
  <2>4. digest[p] = [q \in Package |-> IF q \in Members(p)
            THEN [manifest |-> graph[p][q], source |-> sources[q]] ELSE None]
    BY <2>3 DEF KInv, IInv, TypeOK
  <2> QED BY <2>2, <2>4 DEF Given, Expected
<1> HIDE DEF given
<1>3. used'[p] = given /\ phase'[p] = "validate" /\ Running(p)
  BY <1>1 DEF KInv, IInv, TypeOK, Running, Ended
<1>4. CASE z = p
  <2>1. Sound(p)
    BY DEF KInv
  <2> QED BY <1>1, <1>2, <1>3, <1>4, <2>1 DEF Sound, Members, Expected, world
<1>5. CASE z # p
  BY <1>1, <1>5, OthersSound DEF KInv, IInv, TypeOK
<1> QED BY <1>4, <1>5

LEMMA ChangeSound ==
  ASSUME KInv, EditManifest \/ EditSource \/ Install \/ Prune, NEW z \in Proc
  PROVE  Sound(z)'
<1>1. Sound(z)
  BY DEF KInv
<1>2. UNCHANGED <<phase, request, graph, checked, entry, digest, used>>
  BY DEF EditManifest, EditSource, Install, Prune
<1>3. CASE EditManifest
  <2>1. /\ moved'[z] <=> moved[z] \/ (Running(z) /\ graph[z] # None)
        /\ UNCHANGED <<sources, compiler>>
    BY <1>3 DEF EditManifest
  <2> QED BY <1>1, <1>2, <2>1 DEF Sound, Members, Expected, Running
<1>4. CASE EditSource
  <2>1. PICK q \in scenario.touched, c \in Content \cup {Absent} :
          /\ sources' = [sources EXCEPT ![q] = c]
          /\ moved' = [p \in Proc |-> moved[p] \/ (Running(p) /\ digest[p][q] # None)]
          /\ UNCHANGED <<manifests, compiler>>
    BY <1>4 DEF EditSource
  <2>2. \A r \in Package \ {q} : sources'[r] = sources[r]
    BY <2>1 DEF KInv, IInv, TypeOK
  <2>3. moved'[z] <=> moved[z] \/ (Running(z) /\ digest[z][q] # None)
    BY <2>1
  <2> QED BY <1>1, <1>2, <2>1, <2>2, <2>3 DEF Sound, Members, Expected, Running
<1>5. CASE Install
  <2>1. /\ moved'[z] <=> moved[z] \/ (Running(z) /\ checked[z] # None)
        /\ UNCHANGED <<sources, manifests>>
    BY <1>5 DEF Install
  <2> QED BY <1>1, <1>2, <2>1 DEF Sound, Members, Expected, Running
<1>6. CASE Prune
  BY <1>1, <1>2, <1>6 DEF Prune, Sound, Members, Expected, Running, world
<1> QED BY <1>3, <1>4, <1>5, <1>6

LEMMA NextKInv == ASSUME KInv, [Next]_vars PROVE KInv'
<1>1. IInv'
  BY NextIInv DEF KInv
<1>2. \A z \in Proc : Sound(z)'
  <2> TAKE z \in Proc
  <2>1. CASE \E p \in Proc : Step(p)
    <3> PICK p \in Proc : Step(p)
      BY <2>1
    <3> QED
      BY StartSound, SyncSound, ProbeSound, SelectEntrySound, QuietSound, HashSound,
         AllocateSound, CompileSound DEF Step
  <2>2. CASE EditManifest \/ EditSource \/ Install \/ Prune
    BY <2>2, ChangeSound
  <2>3. CASE UNCHANGED vars
    BY <2>3, OthersSound DEF vars, history
  <2> QED BY <2>1, <2>2, <2>3 DEF Next
<1> QED BY <1>1, <1>2 DEF KInv

\* "cache_key identifies equivalent compilation inputs": of two commands whose
\* surroundings did not change after they had looked, the same key means that the
\* compiler was given the same.
THEOREM KeyCorrect == Spec => []KeyIdentifiesInputs
<1>1. KInv => KeyIdentifiesInputs
  <2> SUFFICES ASSUME KInv, NEW p \in Proc, NEW q \in Proc,
                      used[p] # None, used[q] # None, ~moved[p], ~moved[q],
                      Key(p) = Key(q)
               PROVE  used[p] = used[q]
    BY DEF KeyIdentifiesInputs
  <2>1. used[p] = Expected(p) /\ used[q] = Expected(q)
    BY DEF KInv, Sound
  <2>2. /\ checked[p].version = checked[q].version
        /\ request[p].intent = request[q].intent
        /\ request[p].options = request[q].options
        /\ entry[p] = entry[q] /\ digest[p] = digest[q]
    BY DEF Key
  <2> QED BY <2>1, <2>2 DEF Expected
<1> QED BY <1>1, InitKInv, NextKInv, PTL DEF Spec

-----------------------------------------------------------------------------
(* What success means.                                                      *)

\* What is in the directory of a command that nobody disturbed.
Contents(p) ==
  CASE phase[p] = "describe" -> {"root"}
    [] phase[p] = "write" -> {"root", "artifacts", "diag"}
    [] phase[p] \in {"compile", "planned"} -> {"root", "artifacts", "diag", "plan"}
    [] OTHER -> Parts

\* All parts come in their order, the receipt when the compiler has ended.
Whole(p) ==
  ~spoiled[p] =>
    /\ phase[p] \in {"describe", "write", "compile", "planned", "succeeded"} =>
         dir[p] = Contents(p)
    /\ phase[p] = "validate" => {"root", "artifacts", "diag", "plan"} \subseteq dir[p]

\* The compiler's inputs are there once it has run.
Informed(p) == phase[p] \in {"validate", "succeeded"} => used[p] # None

WInv == KInv /\ \A p \in Proc : Whole(p) /\ Informed(p)

LEMMA InitWInv == ASSUME Init PROVE WInv
<1>1. \A p \in Proc : Whole(p) /\ Informed(p)
  BY DEF Init, Whole, Informed
<1> QED BY <1>1, InitKInv DEF WInv

\* A step that leaves the directory alone and leads to none of the phases that
\* say something of it.
LEMMA QuietWhole ==
  ASSUME NEW p \in Proc, phase'[p] \notin
           {"describe", "write", "compile", "planned", "validate", "succeeded"}
  PROVE  Whole(p)' /\ Informed(p)'
BY DEF Whole, Informed

LEMMA OthersWhole ==
  ASSUME WInv, NEW z \in Proc, phase'[z] = phase[z], dir'[z] = dir[z],
         used'[z] = used[z], spoiled'[z] = spoiled[z]
  PROVE  Whole(z)' /\ Informed(z)'
BY DEF WInv, Whole, Informed, Contents

LEMMA StepWhole ==
  ASSUME WInv, NEW p \in Proc, Step(p), NEW z \in Proc
  PROVE  Whole(z)' /\ Informed(z)'
<1> USE DEF WInv, KInv, IInv
<1>1. CASE z # p
  <2>1. /\ phase'[z] = phase[z] /\ dir'[z] = dir[z]
        /\ used'[z] = used[z] /\ spoiled'[z] = spoiled[z]
    BY <1>1 DEF TypeOK, Step, Start, Sync, SyncFails, Probe, SelectEntry, Visit, Place,
         Ordered, Hash, Allocate, Describe, WritePlan, WritePlanFails, Compile,
         CompileFails, Validate, Fail, Goto, history
  <2> QED BY <2>1, OthersWhole
<1>2. CASE z = p
  <2>1. CASE Start(p) \/ Sync(p) \/ SyncFails(p) \/ Probe(p) \/ SelectEntry(p)
             \/ Ordered(p)
    <3>1. phase'[p] \in {"sync", "entry", "probe", "failed", "order", "hash"}
      BY <2>1 DEF TypeOK, Start, Sync, SyncFails, Probe, SelectEntry, Ordered, Fail, Goto
    <3> QED BY <1>2, <3>1, QuietWhole
  <2>2. CASE Visit(p) \/ Place(p) \/ Hash(p) \/ Fail(p)
    <3>1. phase'[p] \in {"order", "hash", "failed"}
      BY <2>2 DEF TypeOK, Visit, Place, Hash, Fail, Goto
    <3> QED BY <1>2, <3>1, QuietWhole
  <2>3. CASE Allocate(p)
    <3>1. phase'[p] = "describe" /\ dir'[p] = {"root"}
      BY <2>3 DEF TypeOK, Allocate, Goto
    <3> QED BY <1>2, <3>1 DEF Whole, Informed, Contents
  <2>4. CASE Describe(p) /\ ~Fail(p)
    <3>1. /\ phase[p] = "describe" /\ phase'[p] = "write"
          /\ dir'[p] = dir[p] \cup {"root", "artifacts", "diag"}
          /\ spoiled' = spoiled
      BY <2>4 DEF TypeOK, Describe, Goto, history
    <3> QED BY <1>2, <3>1 DEF Whole, Informed, Contents
  <2>5. CASE WritePlan(p)
    <3>1. /\ phase[p] = "write" /\ phase'[p] \in {"planned", "compile"}
          /\ dir'[p] = dir[p] \cup {"plan"}
          /\ ~spoiled'[p] => ~spoiled[p]
      BY <2>5 DEF TypeOK, WritePlan, Goto
    <3> QED BY <1>2, <3>1 DEF Whole, Informed, Contents
  <2>6. CASE Compile(p)
    <3>1. /\ phase[p] = "compile" /\ phase'[p] = "validate"
          /\ dir[p] \subseteq dir'[p] /\ spoiled' = spoiled
      BY <2>6 DEF TypeOK, Compile, Goto, history
    <3>2. used'[p] = Given(p) /\ Given(p) # None
      BY <2>6, GivenType DEF TypeOK, Compile
    <3> QED BY <1>2, <3>1, <3>2 DEF Whole, Informed, Contents
  <2>7. CASE Validate(p)
    <3>1. /\ phase[p] = "validate"
          /\ phase'[p] = IF {"root", "artifacts", "diag", "receipt"} \subseteq dir[p]
                           THEN "succeeded" ELSE "failed"
          /\ dir' = dir /\ used' = used /\ spoiled' = spoiled
      BY <2>7 DEF TypeOK, Validate, Goto, history
    <3>2. dir[p] \subseteq Parts
      BY DEF TypeOK
    <3> QED BY <1>2, <3>1, <3>2 DEF Whole, Informed, Contents, Parts
  <2> QED
    BY <2>1, <2>2, <2>3, <2>4, <2>5, <2>6, <2>7
    DEF Step, WritePlanFails, CompileFails
<1> QED BY <1>1, <1>2

LEMMA NextWInv == ASSUME WInv, [Next]_vars PROVE WInv'
<1>1. KInv'
  BY NextKInv DEF WInv
<1>2. \A z \in Proc : Whole(z)' /\ Informed(z)'
  <2> TAKE z \in Proc
  <2>1. CASE \E p \in Proc : Step(p)
    BY <2>1, StepWhole
  <2>2. CASE EditManifest \/ EditSource \/ Install
    BY <2>2, OthersWhole DEF EditManifest, EditSource, Install
  <2>3. CASE Prune
    <3>1. PICK p, kept :
            /\ p \in Proc /\ dir' = [dir EXCEPT ![p] = kept]
            /\ spoiled' = [spoiled EXCEPT ![p] = TRUE]
            /\ UNCHANGED <<phase, used>>
      BY <2>3 DEF Prune
    <3>2. CASE z = p
      <4>1. spoiled'[z] = TRUE
        BY <3>1, <3>2 DEF WInv, KInv, IInv, TypeOK
      <4> QED BY <3>1, <4>1 DEF WInv, Whole, Informed
    <3>3. CASE z # p
      BY <3>1, <3>3, OthersWhole DEF WInv, KInv, IInv, TypeOK
    <3> QED BY <3>2, <3>3
  <2>4. CASE UNCHANGED vars
    BY <2>4, OthersWhole DEF vars, history
  <2> QED BY <2>1, <2>2, <2>3, <2>4 DEF Next
<1> QED BY <1>1, <1>2 DEF WInv

\* A command that ends well has its plan, its directories and the compiler's
\* receipt, and the compiler was the one that had been found fit; a dry run has
\* its plan and ran no compiler.
THEOREM SuccessCorrect == Spec => []SuccessIsWhole
<1>1. WInv => SuccessIsWhole
  <2> SUFFICES ASSUME WInv, NEW p \in Proc, ~spoiled[p]
               PROVE  /\ phase[p] = "planned" => "plan" \in dir[p] /\ used[p] = None
                      /\ phase[p] = "succeeded" =>
                           /\ dir[p] = Parts
                           /\ ~moved[p] => used[p].version = checked[p].version
    BY DEF SuccessIsWhole
  <2>1. Whole(p) /\ Informed(p) /\ Sound(p)
    BY DEF WInv, KInv
  <2>2. phase[p] = "planned" => "plan" \in dir[p] /\ used[p] = None
    BY <2>1 DEF Whole, Contents, Sound
  <2>3. phase[p] = "succeeded" => dir[p] = Parts
    BY <2>1 DEF Whole, Contents
  <2>4. phase[p] = "succeeded" /\ ~moved[p] => used[p] = Expected(p)
    BY <2>1 DEF Informed, Sound
  <2> QED BY <2>2, <2>3, <2>4 DEF Expected
<1> QED BY <1>1, InitWInv, NextWInv, PTL DEF Spec

-----------------------------------------------------------------------------
(* The entry target.                                                        *)

\* The kinds of target a request may mean in a package of manifest m, and the
\* targets there are of them.
Kinds(r, m) ==
  IF r.intent = "check" /\ r.pick = {}
    THEN IF \E t \in m.targets : t.kind # "test" THEN {"lib", "bin"} ELSE {"test"}
    ELSE Accepted(r.intent)

Meant(r, m) == {t \in m.targets : r.pick \subseteq {t} /\ t.kind \in Kinds(r, m)}

\* A package has one library at most.
LEMMA OneLibrary ==
  ASSUME NEW t \in Target, NEW u \in Target, t.kind = "lib", u.kind = "lib"
  PROVE  t = u
BY DEF Target

\* ResolveEntryTarget finds a target exactly when no other is meant.
LEMMA EntryTargetIsTheOne ==
  ASSUME NEW r \in Request, NEW m \in Manifest,
         \A t \in r.pick : t.kind \in Accepted(r.intent), NEW t \in Target
  PROVE  t \in EntryTarget(r, m) <=> Meant(r, m) = {t}
<1>1. m.targets \subseteq Target /\ r.pick \subseteq Target /\ r.intent \in Intent
  BY DEF Request, Manifest
<1>2. \A u \in Target : u.kind \in {"lib", "bin", "test"}
  BY DEF Target
<1>3. CASE r.pick # {}
  <2>1. EntryTarget(r, m) = IfSingle(r.pick) \cap m.targets
    BY <1>3 DEF EntryTarget
  <2>2. Kinds(r, m) = Accepted(r.intent)
    BY <1>3 DEF Kinds
  <2> QED BY <1>3, <2>1, <2>2 DEF IfSingle, Meant
<1>4. CASE r.pick = {} /\ r.intent = "test"
  <2>1. EntryTarget(r, m) = IfSingle(OfKind(m, "test"))
    BY <1>4 DEF EntryTarget
  <2>2. Kinds(r, m) = {"test"}
    BY <1>4 DEF Kinds, Accepted
  <2> QED BY <1>4, <2>1, <2>2 DEF IfSingle, OfKind, Meant
<1>5. CASE r.pick = {} /\ r.intent = "run"
  <2>1. EntryTarget(r, m) = IfSingle(OfKind(m, "bin"))
    BY <1>5 DEF EntryTarget
  <2>2. Kinds(r, m) = {"bin"}
    BY <1>5 DEF Kinds, Accepted
  <2> QED BY <1>5, <2>1, <2>2 DEF IfSingle, OfKind, Meant
<1>6. CASE r.pick = {} /\ r.intent \in {"check", "build"}
  <2> DEFINE lib == OfKind(m, "lib")
             bins == OfKind(m, "bin")
             tests == OfKind(m, "test")
  <2>1. EntryTarget(r, m) =
          IF bins = {} /\ lib # {} THEN lib
          ELSE IF lib = {} /\ bins # {} THEN IfSingle(bins)
          ELSE IF r.intent = "check" /\ lib \cup bins = {} THEN IfSingle(tests)
          ELSE {}
    BY <1>6 DEF EntryTarget
  <2>2. Meant(r, m) = IF r.intent = "check" /\ lib \cup bins = {} THEN tests
                      ELSE lib \cup bins
    <3>1. (\E u \in m.targets : u.kind # "test") <=> lib \cup bins # {}
      BY <1>1, <1>2 DEF OfKind
    <3>2. Kinds(r, m) = IF r.intent = "check" /\ lib \cup bins = {} THEN {"test"}
                        ELSE {"lib", "bin"}
      BY <1>6, <3>1 DEF Kinds, Accepted
    <3> QED BY <1>6, <3>2 DEF Meant, OfKind
  <2>3. \A u, v \in lib : u = v
    BY <1>1, OneLibrary DEF OfKind
  <2>4. \A u \in lib : \A v \in bins : u # v
    BY DEF OfKind
  <2> HIDE DEF lib, bins, tests
  <2>5. CASE bins = {} /\ lib # {}
    BY <2>1, <2>2, <2>3, <2>5
  <2>6. CASE bins # {} /\ lib = {}
    BY <2>1, <2>2, <2>6 DEF IfSingle
  <2>7. CASE bins # {} /\ lib # {}
    BY <2>1, <2>2, <2>4, <2>7
  <2>8. CASE bins = {} /\ lib = {}
    BY <2>1, <2>2, <2>8 DEF IfSingle
  <2> QED BY <2>5, <2>6, <2>7, <2>8
<1> QED BY <1>1, <1>3, <1>4, <1>5, <1>6 DEF Intent

\* The roots are in every graph, and a request names targets of a kind that its
\* command takes.
Rooted(p) ==
  /\ graph[p] # None => scenario.roots \subseteq Members(p)
  /\ request[p] # None =>
       \A t \in request[p].pick : t.kind \in Accepted(request[p].intent)

RInv == IInv /\ \A p \in Proc : Rooted(p)

LEMMA InitRInv == ASSUME Init PROVE RInv
<1>1. \A p \in Proc : Rooted(p)
  BY DEF Init, Rooted
<1> QED BY <1>1, InitIInv DEF RInv

LEMMA NextRInv == ASSUME RInv, [Next]_vars PROVE RInv'
<1>1. IInv'
  BY NextIInv DEF RInv
<1>2. \A z \in Proc : Rooted(z)'
  <2> TAKE z \in Proc
  <2>1. CASE UNCHANGED <<scenario, graph, request>>
    BY <2>1 DEF RInv, Rooted, Members
  <2>2. ASSUME NEW p \in Proc, Start(p) PROVE Rooted(z)'
    <3>1. PICK r \in scenario.requests :
            /\ \A t \in r.pick : t.kind \in Accepted(r.intent)
            /\ request' = [request EXCEPT ![p] = r]
      BY <2>2 DEF Start
    <3>2. UNCHANGED <<scenario, graph>>
      BY <2>2 DEF Start
    <3>3. request'[z] = IF z = p THEN r ELSE request[z]
      BY <3>1 DEF RInv, IInv, TypeOK
    <3> QED BY <3>1, <3>2, <3>3 DEF RInv, Rooted, Members
  <2>3. ASSUME NEW p \in Proc, Sync(p) PROVE Rooted(z)'
    <3> DEFINE g == [q \in Package |->
                       IF q \in Reached THEN manifests[q] ELSE Absent]
    <3>1. scenario.roots \subseteq {q \in Package : g[q] # Absent}
      <4>1. scenario.roots \subseteq Package
        BY BuildAssumption DEF RInv, IInv, TypeOK
      <4>2. scenario.roots \subseteq Reached
        BY <4>1 DEF Reached
      <4> QED BY <4>1, <4>2, <2>3 DEF Sync, Resolvable
    <3>2. graph' = [graph EXCEPT ![p] = g] /\ UNCHANGED <<scenario, request>>
      BY <2>3 DEF Sync
    <3> HIDE DEF g
    <3>3. graph'[z] = IF z = p THEN g ELSE graph[z]
      BY <3>2 DEF RInv, IInv, TypeOK
    <3> QED BY <3>1, <3>2, <3>3 DEF RInv, Rooted, Members
  <2> QED
    BY <2>1, <2>2, <2>3
    DEF Next, Step, SyncFails, Probe, SelectEntry, Visit, Place, Ordered, Hash,
        Allocate, Describe, WritePlan, WritePlanFails, Compile, CompileFails, Validate,
        Fail, EditManifest, EditSource, Install, Prune, vars
<1> QED BY <1>1, <1>2 DEF RInv

\* What SelectEntry finds is the one entry that the request can mean.
LEMMA FoundIsTheOne ==
  ASSUME RInv, NEW p \in Proc, phase[p] = "entry", NEW e \in Entry
  PROVE  LET found == /\ e.package \in EntryPackage(p)
                      /\ e.target \in EntryTarget(request[p], graph[p][e.package])
             unnamed == request[p].package = None /\ scenario.top = None
         IN  /\ found => Candidates(p) = {e}
             /\ Candidates(p) = {e} =>
                  \/ found
                  \/ unnamed /\ \A q \in Package : scenario.roots # {q}
<1> DEFINE r == request[p]
           packages == (IF r.package # None THEN {r.package}
                        ELSE IF scenario.top # None THEN {scenario.top}
                        ELSE scenario.roots) \cap scenario.roots
           meant(q) == Meant(r, graph[p][q])
<1>1. /\ r \in Request /\ r # None /\ graph[p] # None
      /\ graph[p] \in [Package -> Manifest \cup {Absent}]
      /\ scenario.roots \subseteq Package /\ scenario.roots # {}
      /\ scenario.top \in scenario.roots \cup {None}
  <2>1. request[p] # None /\ graph[p] # None
    BY DEF RInv, IInv, Ready
  <2>2. r \in Request /\ graph[p] \in [Package -> Manifest \cup {Absent}]
    BY <2>1 DEF RInv, IInv, TypeOK
  <2>3. scenario \in Scenarios
    BY DEF RInv, IInv, TypeOK
  <2>4. /\ scenario.roots \in (SUBSET Package) \ {{}}
        /\ scenario.top \in scenario.roots \cup {None}
    BY <2>3, BuildAssumption
  <2>5. scenario.roots \subseteq Package /\ scenario.roots # {}
    BY <2>4
  <2>6. r # None
    BY <2>1
  <2> QED BY <2>1, <2>2, <2>4, <2>5, <2>6
<1>2. /\ scenario.roots \subseteq Members(p)
      /\ \A t \in r.pick : t.kind \in Accepted(r.intent)
  BY <1>1 DEF RInv, Rooted
<1>3. \A q \in scenario.roots : graph[p][q] \in Manifest
  BY <1>1, <1>2 DEF Members
<1>4. Candidates(p) = {f \in Entry : f.package \in packages /\ f.target \in meant(f.package)}
  BY DEF Candidates, Kinds, Meant
<1>5. \A q \in scenario.roots : \A t \in Target :
        t \in EntryTarget(r, graph[p][q]) <=> meant(q) = {t}
  BY <1>1, <1>2, <1>3, EntryTargetIsTheOne
<1>6. \A q \in scenario.roots : meant(q) \subseteq Target
  BY <1>3 DEF Meant, Manifest
<1>7. EntryPackage(p) \subseteq packages /\ \A q \in EntryPackage(p) : packages = {q}
  BY <1>1 DEF EntryPackage
<1>8. packages # {} => \/ EntryPackage(p) = packages
                       \/ /\ r.package = None /\ scenario.top = None
                          /\ \A q \in Package : scenario.roots # {q}
  BY <1>1 DEF EntryPackage
<1>9. /\ e.package \in Package /\ e.target \in Target
      /\ \A f \in Entry : f.package = e.package /\ f.target = e.target => f = e
      /\ \A t \in Target : /\ [package |-> e.package, target |-> t] \in Entry
                           /\ [package |-> e.package, target |-> t].package = e.package
                           /\ [package |-> e.package, target |-> t].target = t
  BY DEF Entry
<1>10. packages \subseteq scenario.roots
  OBVIOUS
<1> HIDE DEF packages, meant
<1>11. ASSUME e.package \in EntryPackage(p), e.target \in EntryTarget(r, graph[p][e.package])
       PROVE  Candidates(p) = {e}
  <2>1. e.package \in packages /\ meant(e.package) = {e.target}
    BY <1>5, <1>7, <1>9, <1>10, <1>11
  <2>2. \A f \in Candidates(p) : f.package = e.package
    BY <1>4, <1>7, <1>11
  <2>3. \A f \in Candidates(p) : f = e
    BY <1>4, <1>9, <2>1, <2>2
  <2> QED BY <1>4, <2>1, <2>3
<1>12. ASSUME Candidates(p) = {e} PROVE meant(e.package) = {e.target} /\ e.package \in packages
  <2>1. e.target \in meant(e.package) /\ e.package \in packages
    BY <1>4, <1>12
  <2>2. ASSUME NEW t \in meant(e.package) PROVE t = e.target
    <3> DEFINE f == [package |-> e.package, target |-> t]
    <3>1. t \in Target
      BY <1>6, <1>10, <2>1
    <3>2. f \in Entry /\ f.package = e.package /\ f.target = t
      BY <1>9, <3>1
    <3>3. f \in Candidates(p)
      BY <1>4, <2>1, <3>2
    <3> QED BY <1>12, <3>2, <3>3
  <2> QED BY <2>1, <2>2
<1> QED BY <1>5, <1>8, <1>9, <1>10, <1>11, <1>12

\* A command leaves the choice of its entry by choosing.
LEMMA OnlySelects ==
  ASSUME IInv, NEW p \in Proc, phase[p] = "entry", phase'[p] # "entry", [Next]_vars
  PROVE  SelectEntry(p)
<1>1. \E z \in Proc : Step(z)
  BY DEF Next, EditManifest, EditSource, Install, Prune, vars
<1>2. PICK z \in Proc : Step(z)
  BY <1>1
<1>3. z = p
  BY <1>2 DEF IInv, TypeOK, Step, Start, Sync, SyncFails, Probe, SelectEntry, Visit, Place,
     Ordered, Hash, Allocate, Describe, WritePlan, WritePlanFails, Compile,
     CompileFails, Validate, Fail, Goto
<1> QED
  BY <1>2, <1>3 DEF Step, Start, Sync, SyncFails, Probe, Visit, Place, Ordered, Hash,
     Allocate, Describe, WritePlan, WritePlanFails, Compile, CompileFails, Validate

\* A command builds the one target that its request can mean, and refuses a
\* request with one meaning only for a missing file, mixed editions or want of
\* --package.
THEOREM EntryCorrect == Spec => EntryIsDetermined
<1> DEFINE Determined(p) ==
      \/ entry'[p] # None /\ Candidates(p) = {entry'[p]}
      \/ /\ phase'[p] = "failed"
         /\ \/ \A e \in Entry : Candidates(p) # {e}
            \/ ~Uniform(p)
            \/ \E q \in Package : Absent \in {sources[q], manifests[q]}
            \/ /\ request[p].package = None /\ scenario.top = None
               /\ \A q \in Package : scenario.roots # {q}
<1>1. ASSUME RInv, [Next]_vars, NEW p \in Proc, phase[p] = "entry", phase'[p] # "entry"
      PROVE  Determined(p)
  <2> DEFINE found == {e \in Entry :
                /\ e.package \in EntryPackage(p)
                /\ e.target \in EntryTarget(request[p], graph[p][e.package])}
             present == /\ scenario.top # None => manifests[scenario.top] # Absent
                        /\ \A e \in found : sources[e.package] # Absent
  <2>1. SelectEntry(p)
    BY <1>1, OnlySelects DEF RInv
  <2>2. CASE Uniform(p) /\ found # {} /\ present
    <3>1. PICK e \in found : entry' = [entry EXCEPT ![p] = e]
      BY <2>1, <2>2 DEF SelectEntry
    <3>2. entry'[p] = e /\ e \in Entry /\ e # None
      BY <3>1, <1>1, NoneAssumption DEF RInv, IInv, TypeOK
    <3>3. Candidates(p) = {e}
      BY <1>1, <3>1, <3>2, FoundIsTheOne
    <3> QED BY <3>2, <3>3
  <2>3. CASE ~(Uniform(p) /\ found # {} /\ present)
    <3>1. Fail(p)
      BY <2>1, <2>3 DEF SelectEntry
    <3>2. phase'[p] = "failed"
      BY <1>1, <3>1 DEF RInv, IInv, TypeOK, Fail, Goto
    <3>3. CASE found = {}
      <4>1. \/ \A e \in Entry : Candidates(p) # {e}
            \/ /\ request[p].package = None /\ scenario.top = None
               /\ \A q \in Package : scenario.roots # {q}
        BY <1>1, <3>3, FoundIsTheOne
      <4> QED BY <3>2, <4>1
    <3>4. CASE ~present
      <4>1. scenario.top # None => scenario.top \in Package
        BY BuildAssumption, <1>1 DEF RInv, IInv, TypeOK
      <4>2. \A e \in Entry : e.package \in Package
        BY DEF Entry
      <4>3. \E q \in Package : Absent \in {sources[q], manifests[q]}
        BY <3>4, <4>1, <4>2
      <4> QED BY <3>2, <4>3
    <3> QED BY <2>3, <3>2, <3>3, <3>4
  <2> QED BY <2>2, <2>3
<1>2. RInv /\ [Next]_vars =>
        [\A p \in Proc : phase[p] = "entry" /\ phase'[p] # "entry" => Determined(p)]_vars
  BY <1>1
<1> QED BY <1>2, InitRInv, NextRInv, PTL DEF Spec, EntryIsDetermined
=============================================================================
