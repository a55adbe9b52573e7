--------------------------- MODULE ResolverProofs ---------------------------
(* Proofs about Resolver: what the walk keeps, for every set of manifests.  *)
EXTENDS Resolver, SequenceTheorems, WellFoundedInduction, TLAPS

(***************************************************************************)
(* Types                                                                   *)
(***************************************************************************)

\* What is read for a place is a manifest, if there is one.
LEMMA ManifestType ==
  ASSUME TypeOK, NEW p \in Place \cup Digest
  PROVE  Manifest(p) \in Manifests \cup {None}
BY ResolverAssumption DEF TypeOK, Manifest

\* The origin of a selection is one the walk knows.
LEMMA PlacedType ==
  ASSUME NEW p, NEW origin \in Origins
  PROVE  Placed(p, origin) \in Origins
BY DEF Placed, Origins

\* What is selected is a place with its origin.
LEMMA SelectType ==
  ASSUME TypeOK, NEW p \in Place \cup Digest, NEW origin \in Origins, NEW name,
         Manifest(p) # None
  PROVE  Select(p, origin, name) \subseteq Selections
<1>1. Manifest(p) \in Manifests
  BY ManifestType
<1> DEFINE members == IF name = None THEN {}
                      ELSE Manifest(p).members \ Manifest(p).excluded
<1>2. members \subseteq Place
  BY <1>1 DEF Manifests
<1>3. ASSUME NEW q \in {p} \cup members
      PROVE  [place |-> q, origin |-> Placed(q, origin)] \in Selections
  BY <1>2, <1>3, PlacedType DEF Selections
<1> QED
  BY <1>3 DEF Select

\* So is what a dependency leads to.
LEMMA TargetsType ==
  ASSUME TypeOK, NEW n \in Nodes, NEW d \in Dependencies,
         d.kind = "registry" => chosen[ReleaseOf(d)] # None
  PROVE  Targets(n, d) \subseteq Selections
<1>1. n.origin \in Origins /\ NoSource \in Origins
  BY DEF Nodes, Origins, NoSource
<1>2. CASE d.kind = "path"
  <2>1. d.to \in Place
    BY <1>2 DEF Dependencies
  <2> QED
    BY <1>1, <1>2, <2>1, SelectType DEF Targets
<1>3. CASE d.kind = "git"
  <2>1. d.to \in Repo /\ Top[d.to] \in Place
    BY <1>3, ResolverAssumption DEF Dependencies
  <2>2. [kind |-> "git", snap |-> d.to] \in Origins
    BY <2>1 DEF Origins
  <2> QED
    BY <1>3, <2>1, <2>2, SelectType DEF Targets
<1>4. CASE d.kind = "registry"
  <2>1. /\ chosen[ReleaseOf(d)] \in Digest
        /\ Manifest(chosen[ReleaseOf(d)]) # None
    BY <1>4, ResolverAssumption DEF TypeOK, Dependencies, Manifest
  <2>2. [kind |-> "registry", snap |-> chosen[ReleaseOf(d)]] \in Origins
    BY <2>1 DEF Origins
  <2> QED
    BY <1>4, <2>1, <2>2, SelectType DEF Targets
<1> QED
  BY <1>2, <1>3, <1>4 DEF Dependencies

\* The frame at the top of the stack and its node.
LEMMA FrameType ==
  ASSUME TypeOK, stack # <<>>
  PROVE  /\ Len(stack) \in DOMAIN stack /\ Len(stack) \in Nat \ {0}
         /\ Frame \in Frames /\ Frame.node \in DOMAIN nodes
         /\ nodes[Frame.node] \in Nodes
<1>1. Len(stack) \in DOMAIN stack /\ Len(stack) \in Nat \ {0}
  BY DEF TypeOK
<1> QED
  BY <1>1 DEF TypeOK, Frame

\* Everything but the stack and the nodes: what a step may do to them.
OtherTypes ==
  /\ tree \in [Place -> Manifests \cup {None}] /\ tree[Root] # None
  /\ archive \in [Digest -> Manifests \cup {None}]
  /\ index \in [Release -> Digest \cup {None}] /\ cached \subseteq Digest
  /\ runs \in Nat /\ {locked, steady} \subseteq BOOLEAN
  /\ phase \in {"idle", "walking"}
  /\ root \in Manifests /\ tops \subseteq Place
  /\ hints \in [Release -> Digest \cup {None}]
  /\ chosen \in [Release -> Digest \cup {None}]
  /\ seeds \subseteq Selections /\ call \in Selections \cup {None}
  /\ \A d \in cached : archive[d] # None
  /\ \A r \in Release :
       /\ index[r] # None => archive[index[r]] # None
       /\ chosen[r] # None => archive[chosen[r]] # None
WalkTypes ==
  /\ stack \in Seq(Frames) /\ nodes \in Seq(Nodes)
  /\ \A k \in DOMAIN stack :
       /\ stack[k].node \in DOMAIN nodes
       /\ k < Len(stack) \/ call # None => stack[k].dep # None

LEMMA TypeParts == TypeOK <=> OtherTypes /\ WalkTypes
BY DEF TypeOK, OtherTypes, WalkTypes

\* A node that is returned to the caller leaves frames and changes nothing
\* but the caller's.
LEMMA ReturnType ==
  ASSUME NEW i \in Nat, NEW rest \in Seq(Frames), Return(i, rest),
         phase \in {"idle", "walking"},
         rest # <<>> => rest[Len(rest)].dep \in Dependencies
  PROVE  /\ stack' \in Seq(Frames)
         /\ DOMAIN stack' = DOMAIN rest
         /\ \A k \in DOMAIN rest :
              /\ stack'[k].node = rest[k].node
              /\ k < Len(rest) => stack'[k].dep = rest[k].dep
              /\ stack'[k].edges \subseteq rest[k].edges \cup [alias : Alias, to : {i}]
         /\ phase' \in {"idle", "walking"}
<1>1. CASE rest = <<>>
  BY <1>1 DEF Return, ended
<1>2. CASE rest # <<>> /\ stack' = rest
  BY <1>2 DEF Return, ended, End
<1> DEFINE f == rest[Len(rest)]
           g == [f EXCEPT !.dep = None, !.todo = @ \ {f.dep},
                          !.edges = @ \cup {[alias |-> f.dep.alias, to |-> i]}]
<1>3. CASE rest # <<>> /\ stack' = [rest EXCEPT ![Len(rest)] = g] /\ UNCHANGED ended
  <2>1. Len(rest) \in DOMAIN rest /\ f \in Frames /\ f.dep \in Dependencies
    BY <1>3
  <2>2. [alias |-> f.dep.alias, to |-> i] \in Edges
    BY <2>1 DEF Dependencies, Edges
  <2>3. g \in Frames
    BY <2>1, <2>2 DEF Frames
  <2>4. g.node = f.node /\ g.edges = f.edges \cup {[alias |-> f.dep.alias, to |-> i]}
    BY <2>1 DEF Frames
  <2>5. f.dep.alias \in Alias
    BY <2>1 DEF Dependencies
  <2>6. stack' \in Seq(Frames) /\ DOMAIN stack' = DOMAIN rest
    BY <1>3, <2>3, <2>1
  <2>7. \A k \in DOMAIN rest : stack'[k] = IF k = Len(rest) THEN g ELSE rest[k]
    BY <1>3
  <2> QED
    BY <2>4, <2>5, <2>6, <2>7, <1>3 DEF ended
<1> QED
  BY <1>1, <1>2, <1>3 DEF Return

LEMMA InitType == Init => TypeOK
<1> SUFFICES ASSUME Init PROVE TypeOK
  OBVIOUS
<1>1. OtherTypes
  BY ResolverAssumption DEF Init, OtherTypes
<1>2. WalkTypes
  BY DEF Init, WalkTypes
<1> QED
  BY <1>1, <1>2, TypeParts

\* Each step keeps the types.
LEMMA BeginType ==
  ASSUME TypeOK, NEW l \in BOOLEAN, Begin(l)
  PROVE  TypeOK'
<1> USE TypeParts
<1>1. tree[Root] \in Manifests
  BY ResolverAssumption DEF OtherTypes
<1>2. Seeds(tree[Root]) \subseteq Place
  BY <1>1, ResolverAssumption DEF Seeds, Manifests
<1>3. {[place |-> p, origin |-> Workspace] : p \in Seeds(tree[Root])} \subseteq Selections
  BY <1>2 DEF Selections, Origins, Workspace
<1>4. hints' \in [Release -> Digest \cup {None}]
  BY DEF Begin, Hints
<1> QED
  <2>1. OtherTypes'
    BY <1>1, <1>2, <1>3, <1>4 DEF Begin, OtherTypes, world
  <2>2. WalkTypes'
    BY DEF Begin, WalkTypes
  <2> QED
    BY <2>1, <2>2, TypeParts, PTL

LEMMA PickEffect ==
  ASSUME TypeOK, NEW d, Pick(d), d \in Frame.todo
  PROVE  /\ stack' \in Seq(Frames) /\ DOMAIN stack' = DOMAIN stack
         /\ Len(stack') = Len(stack) /\ Len(stack) \in DOMAIN stack
         /\ stack'[Len(stack)].dep # None
         /\ \A k \in DOMAIN stack :
              /\ stack'[k].node = stack[k].node
              /\ stack'[k].edges = stack[k].edges
              /\ k # Len(stack) => stack'[k].dep = stack[k].dep
<1>1. Len(stack) \in DOMAIN stack /\ Frame \in Frames /\ stack # <<>>
  BY FrameType DEF Pick
<1> DEFINE f == [Frame EXCEPT !.dep = d]
<1>2. f \in Frames /\ f.node = Frame.node /\ f.edges = Frame.edges /\ f.dep # None
  <2>1. d \in Dependencies /\ d # None
    BY <1>1, ResolverAssumption DEF Frames
  <2>2. ASSUME NEW h \in Frames
        PROVE  LET g == [h EXCEPT !.dep = d]
               IN  /\ g \in Frames /\ g.node = h.node /\ g.edges = h.edges
                   /\ g.dep = d
    BY <2>1 DEF Frames
  <2> QED
    BY <1>1, <2>1, <2>2
<1>3. stack' \in Seq(Frames) /\ DOMAIN stack' = DOMAIN stack /\ Len(stack') = Len(stack)
  BY <1>1, <1>2 DEF Pick, SetFrame, TypeOK
<1>4. \A k \in DOMAIN stack : stack'[k] = IF k = Len(stack) THEN f ELSE stack[k]
  BY <1>1 DEF Pick, SetFrame, TypeOK
<1>5. Frame = stack[Len(stack)]
  BY DEF Frame
<1> HIDE DEF f
<1> QED
  BY <1>1, <1>2, <1>3, <1>4, <1>5

LEMMA PickType ==
  ASSUME TypeOK, NEW d, Pick(d), d \in Frame.todo
  PROVE  TypeOK'
<1>1. \A k \in DOMAIN stack : k < Len(stack) => k # Len(stack)
  BY DEF TypeOK
<1>2. WalkTypes'
  BY <1>1, PickEffect, TypeParts DEF Pick, Idle, WalkTypes
<1>3. OtherTypes'
  BY TypeParts DEF Pick, OtherTypes, world, kept, ended, given
<1> QED
  BY <1>2, <1>3, TypeParts, PTL

LEMMA MaterializeType ==
  ASSUME TypeOK, Materialize
  PROVE  TypeOK'
<1>1. Frame \in Frames /\ Frame.dep \in Dependencies
  BY FrameType DEF Materialize, Picked, Frames
<1>2. ReleaseOf(Frame.dep) \in Release
  BY <1>1 DEF Materialize, Dependencies
<1> DEFINE r == ReleaseOf(Frame.dep)
           found == IF hints[r] \in cached THEN hints[r] ELSE index[r]
<1>3. found # None => found \in Digest /\ archive[found] # None
  BY <1>2 DEF TypeOK
<1>4. CASE \E how \in {"unpinned", "fetch", "changed"} : Stop(how)
  <2>1. OtherTypes' /\ WalkTypes'
    BY <1>4, TypeParts DEF Stop, End, OtherTypes, WalkTypes, world, kept, given, walk
  <2> QED
    BY <2>1, TypeParts, PTL
<1>5. CASE /\ found # None
           /\ chosen' = [chosen EXCEPT ![r] = found]
           /\ cached' = cached \cup {found}
           /\ UNCHANGED <<world, kept, ended, given, walk>>
  <2>1. chosen' \in [Release -> Digest \cup {None}] /\ cached' \subseteq Digest
    BY <1>3, <1>5 DEF TypeOK
  <2>2. \A q \in Release : chosen'[q] = IF q = r THEN found ELSE chosen[q]
    BY <1>5 DEF TypeOK
  <2>3. OtherTypes'
    BY <1>3, <1>5, <2>1, <2>2, TypeParts DEF OtherTypes, world, kept, ended, given, walk
  <2>4. WalkTypes'
    BY <1>5, TypeParts DEF WalkTypes, walk
  <2> QED
    BY <2>3, <2>4, TypeParts, PTL
<1> QED
  BY <1>4, <1>5 DEF Materialize

LEMMA CallDependencyType ==
  ASSUME TypeOK, CallDependency
  PROVE  TypeOK'
<1>1. /\ Frame \in Frames /\ Frame.dep \in Dependencies
      /\ nodes[Frame.node] \in Nodes
  BY FrameType DEF CallDependency, Ready, Picked, Frames
<1>2. Targets(nodes[Frame.node], Frame.dep) \subseteq Selections
  BY <1>1, TargetsType DEF CallDependency, Ready
<1>3. CASE Stop("target")
  <2>1. OtherTypes' /\ WalkTypes'
    BY <1>3, TypeParts DEF Stop, End, OtherTypes, WalkTypes, world, kept, given, walk
  <2> QED
    BY <2>1, TypeParts, PTL
<1>4. CASE \E s \in Targets(nodes[Frame.node], Frame.dep) :
              /\ call' = s
              /\ UNCHANGED <<world, cached, kept, ended, given, chosen, seeds, stack, nodes>>
  <2>1. OtherTypes'
    BY <1>2, <1>4, TypeParts DEF OtherTypes, world, kept, ended, given
  <2>2. \A k \in DOMAIN stack : k < Len(stack) \/ k = Len(stack)
    BY DEF TypeOK
  <2>3. stack[Len(stack)].dep # None
    BY DEF CallDependency, Ready, Picked, Frame
  <2>4. WalkTypes'
    BY <1>4, <2>2, <2>3, TypeParts DEF WalkTypes
  <2> QED
    BY <2>1, <2>4, TypeParts, PTL
<1> QED
  BY <1>3, <1>4 DEF CallDependency

\* The caller gets an edge to a package that is done.
LEMMA ReuseEffect ==
  ASSUME TypeOK, Reuse
  PROVE  /\ stack' \in Seq(Frames) /\ DOMAIN stack' = DOMAIN stack
         /\ Len(stack') = Len(stack) /\ phase' \in {"idle", "walking"}
         /\ \E i \in DOMAIN nodes :
              /\ nodes[i].done
              /\ \A k \in DOMAIN stack :
                   /\ stack'[k].node = stack[k].node
                   /\ k < Len(stack) => stack'[k].dep = stack[k].dep
                   /\ stack'[k].edges \subseteq
                        stack[k].edges \cup [alias : Alias, to : {i}]
<1>1. PICK i \in At(call) : nodes[i].done /\ Return(i, stack)
  BY DEF Reuse
<1>2. i \in DOMAIN nodes /\ i \in Nat
  BY <1>1 DEF At, TypeOK
<1>3. stack # <<>> => stack[Len(stack)].dep \in Dependencies
  <2> SUFFICES ASSUME stack # <<>> PROVE stack[Len(stack)].dep \in Dependencies
    OBVIOUS
  <2>1. Len(stack) \in DOMAIN stack /\ stack[Len(stack)] \in Frames
    BY FrameType DEF Frame
  <2>2. stack[Len(stack)].dep # None
    BY <2>1 DEF Reuse, Calling, TypeOK
  <2> QED
    BY <2>1, <2>2 DEF Frames
<1>4. /\ stack' \in Seq(Frames) /\ DOMAIN stack' = DOMAIN stack
      /\ \A k \in DOMAIN stack :
           /\ stack'[k].node = stack[k].node
           /\ k < Len(stack) => stack'[k].dep = stack[k].dep
           /\ stack'[k].edges \subseteq
                stack[k].edges \cup [alias : Alias, to : {i}]
      /\ phase' \in {"idle", "walking"}
  BY <1>1, <1>2, <1>3, ReturnType DEF TypeOK
<1>5. Len(stack') = Len(stack)
  BY <1>4 DEF TypeOK
<1> QED
  BY <1>1, <1>2, <1>4, <1>5

LEMMA ReuseType ==
  ASSUME TypeOK, Reuse
  PROVE  TypeOK'
<1>1. WalkTypes'
  BY ReuseEffect, TypeParts DEF WalkTypes, Reuse
<1>2. OtherTypes'
  BY ReuseEffect, TypeParts DEF OtherTypes, Reuse, world, kept, given
<1> QED
  BY <1>1, <1>2, TypeParts, PTL

\* Visit adds a node with no edges and a frame for it.
LEMMA VisitEffect ==
  ASSUME TypeOK, Visit
  PROVE  LET i == Len(nodes) + 1
         IN  /\ nodes' \in Seq(Nodes) /\ stack' \in Seq(Frames)
             /\ i \in Nat /\ i \notin DOMAIN nodes
             /\ DOMAIN nodes' = DOMAIN nodes \cup {i}
             /\ \A j \in DOMAIN nodes : nodes'[j] = nodes[j]
             /\ nodes'[i].edges = {} /\ nodes'[i].done = FALSE
             /\ nodes'[i].name = Manifest(call.place).package.name
             /\ Len(stack) + 1 \notin DOMAIN stack
             /\ DOMAIN stack' = DOMAIN stack \cup {Len(stack) + 1}
             /\ Len(stack') = Len(stack) + 1
             /\ \A k \in DOMAIN stack : stack'[k] = stack[k] /\ k < Len(stack) + 1
             /\ stack'[Len(stack) + 1].node = i
             /\ stack'[Len(stack) + 1].edges = {}
<1> DEFINE m == Manifest(call.place)
           i == Len(nodes) + 1
           above == IF stack = <<>> THEN <<>> ELSE nodes[Frame.node].chain
           new == [place |-> call.place, origin |-> call.origin,
                   name |-> m.package.name, version |-> m.package.version,
                   chain |-> Append(above, i), edges |-> {}, done |-> FALSE]
           open == [node |-> i, todo |-> m.deps, dep |-> None, edges |-> {}]
<1>1. call \in Selections /\ m \in Manifests /\ m.package \in Packages
  <2>1. call \in Selections
    BY DEF Visit, Calling, TypeOK
  <2>2. call.place \in Place \cup Digest
    BY <2>1 DEF Selections
  <2> QED
    BY <2>1, <2>2, ManifestType DEF Visit, HasPackage, Manifests
<1>2. above \in Seq(Nat)
  BY FrameType DEF Nodes
<1>3. i \in Nat
  BY DEF TypeOK
<1>4. new \in Nodes
  BY <1>1, <1>2, <1>3 DEF Nodes, Selections, Packages
<1>5. open \in Frames
  BY <1>1, <1>3 DEF Frames, Manifests
<1>6. nodes' = Append(nodes, new) /\ stack' = Append(stack, open)
  BY DEF Visit
<1> HIDE DEF new, open
<1>7. /\ nodes' \in Seq(Nodes) /\ i \notin DOMAIN nodes
      /\ DOMAIN nodes' = DOMAIN nodes \cup {i}
      /\ \A j \in DOMAIN nodes : nodes'[j] = nodes[j]
      /\ nodes'[i] = new
  BY <1>4, <1>6 DEF TypeOK
<1>8. /\ stack' \in Seq(Frames) /\ Len(stack) + 1 \notin DOMAIN stack
      /\ DOMAIN stack' = DOMAIN stack \cup {Len(stack) + 1}
      /\ Len(stack') = Len(stack) + 1
      /\ \A k \in DOMAIN stack : stack'[k] = stack[k] /\ k < Len(stack) + 1
      /\ stack'[Len(stack) + 1] = open
  BY <1>5, <1>6 DEF TypeOK
<1>9. new.edges = {} /\ new.done = FALSE /\ new.name = m.package.name
  BY DEF new
<1>10. open.node = i /\ open.edges = {}
  BY DEF open
<1> QED
  BY <1>3, <1>7, <1>8, <1>9, <1>10

LEMMA VisitType ==
  ASSUME TypeOK, Visit
  PROVE  TypeOK'
<1>1. \A k \in DOMAIN stack : stack[k].dep # None
  BY DEF Visit, Calling, TypeOK
<1>2. WalkTypes'
  <2>1. call' = None
    BY DEF Visit
  <2>2. ASSUME NEW k \in DOMAIN stack'
        PROVE  /\ stack'[k].node \in DOMAIN nodes'
               /\ k < Len(stack') => stack'[k].dep # None
    <3>1. CASE k \in DOMAIN stack
      <4>1. stack[k].node \in DOMAIN nodes /\ stack[k].dep # None
        BY <1>1, <3>1 DEF TypeOK
      <4>2. stack'[k] = stack[k] /\ DOMAIN nodes \subseteq DOMAIN nodes'
        BY <3>1, VisitEffect
      <4> QED
        BY <4>1, <4>2
    <3>2. CASE k = Len(stack) + 1
      <4>1. Len(stack') = k /\ Len(stack') \in Nat
        BY <3>2, VisitEffect
      <4>2. stack'[k].node \in DOMAIN nodes'
        BY <3>2, VisitEffect
      <4> QED
        BY <4>1, <4>2
    <3> QED
      BY <2>2, <3>1, <3>2, VisitEffect
  <2> QED
    BY <2>1, <2>2, VisitEffect DEF WalkTypes
<1>3. OtherTypes'
  BY TypeParts DEF OtherTypes, Visit, world, kept, given, ended
<1> QED
  BY <1>2, <1>3, TypeParts, PTL

\* A sequence without its last element.
LEMMA ButLast ==
  ASSUME NEW S, NEW s \in Seq(S), s # <<>>
  PROVE  LET r == SubSeq(s, 1, Len(s) - 1)
         IN  /\ r \in Seq(S) /\ Len(r) = Len(s) - 1
             /\ DOMAIN r = 1..(Len(s) - 1)
             /\ \A k \in DOMAIN r : r[k] = s[k] /\ k \in DOMAIN s /\ k < Len(s)
<1> DEFINE m == Len(s) - 1
           r == SubSeq(s, 1, m)
<1>1. m \in Nat /\ 1 \in Int /\ m \in Int /\ DOMAIN s = 1..(m + 1) /\ Len(s) = m + 1
  OBVIOUS
<1>2. \A i \in 1..m : s[i] \in S
  BY <1>1
<1> HIDE DEF m
<1>3. /\ r \in Seq(S)
      /\ Len(r) = IF 1 <= m THEN m - 1 + 1 ELSE 0
      /\ \A i \in 1..(m - 1 + 1) : r[i] = s[1 + i - 1]
  BY <1>1, <1>2, SubSeqProperties
<1>4. Len(r) = m /\ \A i \in 1..m : r[i] = s[i]
  BY <1>1, <1>3
<1>5. DOMAIN r = 1..m
  BY <1>1, <1>3, <1>4
<1>6. m = Len(s) - 1
  BY DEF m
<1> QED
  BY <1>1, <1>3, <1>4, <1>5, <1>6

\* What Leave does to the nodes and the stack.
LEMMA LeaveEffect ==
  ASSUME TypeOK, Leave
  PROVE  /\ stack # <<>> /\ Frame.node \in DOMAIN nodes /\ Frame.node \in Nat
         /\ nodes' \in Seq(Nodes) /\ DOMAIN nodes' = DOMAIN nodes
         /\ \A i \in DOMAIN nodes :
              /\ nodes'[i].name = nodes[i].name
              /\ nodes'[i].edges = IF i = Frame.node THEN Frame.edges ELSE nodes[i].edges
              /\ nodes'[i].done <=> (nodes[i].done \/ i = Frame.node)
         /\ stack' \in Seq(Frames)
         /\ DOMAIN stack' = 1..(Len(stack) - 1) /\ Len(stack') = Len(stack) - 1
         /\ \A k \in DOMAIN stack' :
              /\ k \in DOMAIN stack /\ k < Len(stack)
              /\ stack'[k].node = stack[k].node
              /\ k < Len(stack') => stack'[k].dep = stack[k].dep
              /\ stack'[k].edges \subseteq
                   stack[k].edges \cup [alias : Alias, to : {Frame.node}]
         /\ phase' \in {"idle", "walking"}
<1> DEFINE n == Frame.node
           rest == SubSeq(stack, 1, Len(stack) - 1)
<1>1. /\ stack # <<>> /\ Len(stack) \in Nat \ {0} /\ Len(stack) \in DOMAIN stack
      /\ Frame \in Frames /\ n \in DOMAIN nodes /\ nodes[n] \in Nodes /\ n \in Nat
  BY FrameType DEF Leave, Frames
<1>2. Frame.edges \in SUBSET Edges
  BY <1>1 DEF Frames
<1>3. nodes' = [nodes EXCEPT ![n] = [@ EXCEPT !.edges = Frame.edges, !.done = TRUE]]
  BY DEF Leave
<1>4. ASSUME NEW h \in Nodes, NEW es \in SUBSET Edges
      PROVE  LET g == [h EXCEPT !.edges = es]
             IN  g \in Nodes /\ g.name = h.name /\ g.edges = es
  BY DEF Nodes
<1>15. ASSUME NEW h \in Nodes
       PROVE  LET g == [h EXCEPT !.done = TRUE]
              IN  /\ g \in Nodes /\ g.name = h.name /\ g.edges = h.edges
                  /\ g.done = TRUE
  BY DEF Nodes
<1> DEFINE left == [nodes[n] EXCEPT !.edges = Frame.edges, !.done = TRUE]
<1>5. /\ left \in Nodes /\ left.name = nodes[n].name /\ left.edges = Frame.edges
      /\ left.done = TRUE
  <2> DEFINE half == [nodes[n] EXCEPT !.edges = Frame.edges]
  <2>1. half \in Nodes /\ half.name = nodes[n].name /\ half.edges = Frame.edges
    BY <1>1, <1>2, <1>4
  <2>2. left = [half EXCEPT !.done = TRUE]
    OBVIOUS
  <2> HIDE DEF half, left
  <2> QED
    BY <2>1, <2>2, <1>15
<1>14. nodes' = [nodes EXCEPT ![n] = left]
  BY <1>1, <1>3, Zenon
<1> HIDE DEF left
<1>13. nodes' \in Seq(Nodes) /\ DOMAIN nodes' = DOMAIN nodes
  BY <1>1, <1>5, <1>14 DEF TypeOK
<1>6. \A i \in DOMAIN nodes : nodes'[i] = IF i = n THEN left ELSE nodes[i]
  BY <1>1, <1>14 DEF TypeOK
<1>7. /\ rest \in Seq(Frames) /\ DOMAIN rest = 1..(Len(stack) - 1)
      /\ Len(rest) = Len(stack) - 1
      /\ \A k \in DOMAIN rest : rest[k] = stack[k] /\ k \in DOMAIN stack /\ k < Len(stack)
  BY <1>1, ButLast DEF TypeOK
<1>8. rest # <<>> => rest[Len(rest)].dep \in Dependencies
  BY <1>7 DEF TypeOK, Frames
<1>9. Return(n, rest)
  BY DEF Leave
<1>10. /\ stack' \in Seq(Frames) /\ DOMAIN stack' = DOMAIN rest
       /\ \A k \in DOMAIN rest :
            /\ stack'[k].node = rest[k].node
            /\ k < Len(rest) => stack'[k].dep = rest[k].dep
            /\ stack'[k].edges \subseteq rest[k].edges \cup [alias : Alias, to : {n}]
       /\ phase' \in {"idle", "walking"}
  <2>1. phase \in {"idle", "walking"}
    BY DEF TypeOK
  <2>2. n \in Nat
    BY <1>1
  <2> HIDE DEF rest, n
  <2> QED
    BY <1>7, <1>8, <1>9, <2>1, <2>2, ReturnType
<1>11. Len(stack') = Len(rest)
  BY <1>7, <1>10
<1>12. \A i \in DOMAIN nodes :
              /\ nodes'[i].name = nodes[i].name
              /\ nodes'[i].edges = IF i = n THEN Frame.edges ELSE nodes[i].edges
              /\ nodes'[i].done <=> (nodes[i].done \/ i = n)
  <2> SUFFICES ASSUME NEW i \in DOMAIN nodes
               PROVE  /\ nodes'[i].name = nodes[i].name
                      /\ nodes'[i].edges = IF i = n THEN Frame.edges ELSE nodes[i].edges
                      /\ nodes'[i].done <=> (nodes[i].done \/ i = n)
    OBVIOUS
  <2>1. CASE i = n
    BY <1>5, <1>6, <2>1
  <2>2. CASE i # n
    <3>1. nodes'[i] = nodes[i]
      BY <1>6, <2>2
    <3>2. nodes[i] \in Nodes
      BY DEF TypeOK
    <3>3. nodes[i].done \in BOOLEAN
      BY <3>2 DEF Nodes
    <3> QED
      BY <2>2, <3>1, <3>3
  <2> QED
    BY <2>1, <2>2
<1> QED
  BY <1>1, <1>13, <1>7, <1>10, <1>11, <1>12

LEMMA LeaveType ==
  ASSUME TypeOK, Leave
  PROVE  TypeOK'
<1>1. WalkTypes'
  BY ZenonT(120), LeaveEffect, TypeParts DEF WalkTypes, Leave, Idle
<1>2. OtherTypes'
  BY LeaveEffect, TypeParts DEF OtherTypes, Leave, world, kept, given
<1> QED
  BY <1>1, <1>2, TypeParts, PTL

\* A resolution that ends, and a step that leaves the walk alone.
LEMMA StopType ==
  ASSUME TypeOK, NEW how, Stop(how)
  PROVE  TypeOK'
<1>1. OtherTypes' /\ WalkTypes'
  BY TypeParts DEF Stop, End, OtherTypes, WalkTypes, world, kept, given, walk
<1> QED
  BY <1>1, TypeParts, PTL

LEMMA SeedType ==
  ASSUME TypeOK, NEW s, CallSeed(s)
  PROVE  TypeOK'
<1>1. OtherTypes'
  BY TypeParts DEF CallSeed, OtherTypes, world, kept, ended, given
<1>2. DOMAIN stack = {}
  BY DEF CallSeed, TypeOK
<1>3. WalkTypes'
  BY <1>2, TypeParts DEF CallSeed, WalkTypes
<1> QED
  BY <1>1, <1>3, TypeParts, PTL

LEMMA FinishType ==
  ASSUME TypeOK, Finish
  PROVE  TypeOK'
<1>1. CASE \E how \in {"alias", "stale", "ok"} : Stop(how)
  BY <1>1, StopType
<1>2. CASE End("ok") /\ UNCHANGED <<world, cached, runs, given, chosen, walk>>
  <2>1. OtherTypes' /\ WalkTypes'
    BY <1>2, TypeParts DEF End, OtherTypes, WalkTypes, world, given, walk
  <2> QED
    BY <2>1, TypeParts, PTL
<1> QED
  BY <1>1, <1>2 DEF Finish

LEMMA EditType ==
  ASSUME TypeOK, Edit
  PROVE  TypeOK'
<1>1. OtherTypes' /\ WalkTypes'
  BY ResolverAssumption, TypeParts
     DEF Edit, OtherTypes, WalkTypes, kept, ended, given, walk
<1> QED
  BY <1>1, TypeParts, PTL

LEMMA MoveType ==
  ASSUME TypeOK, NEW h, Move(h)
  PROVE  TypeOK'
<1>1. OtherTypes' /\ WalkTypes'
  BY TypeParts DEF Move, OtherTypes, WalkTypes, kept, ended, given, walk
<1> QED
  BY <1>1, TypeParts, PTL

\* What was archived stays, whatever is published.
LEMMA PublishType ==
  ASSUME TypeOK, NEW p \in Place, NEW d \in Digest, Publish(p, d)
  PROVE  TypeOK'
<1>1. tree[p] \in Manifests /\ tree[p] # None /\ tree[p].package \in Release
  BY DEF Publish, TypeOK
<1>2. /\ archive' \in [Digest -> Manifests \cup {None}]
      /\ \A e \in Digest : archive'[e] = IF e = d THEN tree[p] ELSE archive[e]
  BY <1>1 DEF Publish, TypeOK
<1>3. /\ index' \in [Release -> Digest \cup {None}]
      /\ \A r \in Release : index'[r] = IF r = tree[p].package THEN d ELSE index[r]
  BY <1>1 DEF Publish, TypeOK
<1>4. d # None /\ \A e \in Digest : archive[e] # None => archive'[e] # None
  BY <1>1, <1>2, ResolverAssumption
<1>5. OtherTypes'
  BY <1>1, <1>2, <1>3, <1>4, TypeParts
     DEF Publish, OtherTypes, kept, ended, given, walk
<1>6. WalkTypes'
  BY TypeParts DEF Publish, WalkTypes, walk
<1> QED
  BY <1>5, <1>6, TypeParts, PTL

LEMMA CleanType ==
  ASSUME TypeOK, Clean
  PROVE  TypeOK'
<1>1. OtherTypes' /\ WalkTypes'
  BY TypeParts DEF Clean, OtherTypes, WalkTypes, world, kept, ended, given, walk
<1> QED
  BY <1>1, TypeParts, PTL

LEMMA StutterType ==
  ASSUME TypeOK, UNCHANGED vars
  PROVE  TypeOK'
<1>1. OtherTypes' /\ WalkTypes'
  BY TypeParts DEF vars, OtherTypes, WalkTypes, world, kept, ended, given, walk
<1> QED
  BY <1>1, TypeParts, PTL

LEMMA NextType ==
  ASSUME TypeOK, [Next]_vars
  PROVE  TypeOK'
<1>1. CASE \E l \in BOOLEAN : Begin(l)
  BY <1>1, BeginType
<1>2. CASE \E s \in seeds : CallSeed(s)
  BY <1>2, SeedType
<1>3. CASE \E d \in Frame.todo : Pick(d)
  BY <1>3, PickType
<1>4. CASE Materialize
  BY <1>4, MaterializeType
<1>5. CASE CallDependency
  BY <1>5, CallDependencyType
<1>6. CASE Reuse
  BY <1>6, ReuseType
<1>7. CASE Visit
  BY <1>7, VisitType
<1>8. CASE Leave
  BY <1>8, LeaveType
<1>9. CASE FetchFails \/ Cycle \/ NoPackage \/ Conflict
  BY <1>9, StopType DEF FetchFails, Cycle, NoPackage, Conflict
<1>10. CASE Finish
  BY <1>10, FinishType
<1>11. CASE Edit \/ Clean
  BY <1>11, EditType, CleanType
<1>12. CASE \E h \in Home : Move(h)
  BY <1>12, MoveType
<1>13. CASE \E p \in Place, d \in Digest : Publish(p, d)
  BY <1>13, PublishType
<1>14. CASE UNCHANGED vars
  BY <1>14, StutterType
<1> QED
  BY <1>1, <1>2, <1>3, <1>4, <1>5, <1>6, <1>7, <1>8, <1>9, <1>10, <1>11, <1>12,
     <1>13, <1>14 DEF Next, Step

\* Every variable of the resolver keeps its type, whatever the manifests say
\* and whatever happens between and during resolutions (the whole of
\* SingleVersionResolver).
THEOREM TypeCorrect == Spec => []TypeOK
<1>1. Init => TypeOK
  BY InitType
<1>2. TypeOK /\ [Next]_vars => TypeOK'
  BY NextType
<1> QED
  BY <1>1, <1>2, PTL DEF Spec

(***************************************************************************)
(* The graph                                                               *)
(***************************************************************************)

\* Steps that leave the nodes and the frames alone.
Quiet == UNCHANGED <<stack, nodes>>

LEMMA Steps ==
  ASSUME [Next]_vars
  PROVE  \/ Quiet
         \/ \E l \in BOOLEAN : Begin(l)
         \/ \E d \in Frame.todo : Pick(d)
         \/ Reuse \/ Visit \/ Leave
<1>1. CASE \E s \in seeds : CallSeed(s)
  BY <1>1 DEF CallSeed, Quiet
<1>2. CASE Materialize
  BY <1>2 DEF Materialize, Stop, walk, Quiet
<1>3. CASE CallDependency
  BY <1>3 DEF CallDependency, Stop, walk, Quiet
<1>4. CASE FetchFails \/ Cycle \/ NoPackage \/ Conflict
  BY <1>4 DEF FetchFails, Cycle, NoPackage, Conflict, Stop, walk, Quiet
<1>5. CASE Finish
  BY <1>5 DEF Finish, Stop, walk, Quiet
<1>6. CASE Edit \/ Clean
  BY <1>6 DEF Edit, Clean, walk, Quiet
<1>7. CASE \E h \in Home : Move(h)
  BY <1>7 DEF Move, walk, Quiet
<1>8. CASE \E p \in Place, d \in Digest : Publish(p, d)
  BY <1>8 DEF Publish, walk, Quiet
<1>9. CASE UNCHANGED vars
  BY <1>9 DEF vars, walk, Quiet
<1> QED
  BY <1>1, <1>2, <1>3, <1>4, <1>5, <1>6, <1>7, <1>8, <1>9 DEF Next, Step

\* A resolution starts with no nodes.
LEMMA BeginEffect ==
  ASSUME NEW l, Begin(l)
  PROVE  nodes' = <<>> /\ stack' = <<>> /\ DOMAIN nodes' = {} /\ DOMAIN stack' = {}
BY DEF Begin

\* Two nodes never have one name, whatever is edited while the graph is walked
\* (ResolveNode compares names before it adds a node).
THEOREM NamesAreUnique == Spec => []OneSourcePerName
<1>1. Init => OneSourcePerName
  BY DEF Init, OneSourcePerName
<1>2. ASSUME TypeOK, OneSourcePerName, [Next]_vars
      PROVE  OneSourcePerName'
  <2>1. CASE Quiet
    BY <1>2, <2>1 DEF Quiet, OneSourcePerName
  <2>2. CASE \E l \in BOOLEAN : Begin(l)
    BY <2>2, BeginEffect DEF OneSourcePerName
  <2>3. CASE (\E d \in Frame.todo : Pick(d)) \/ Reuse
    BY <1>2, <2>3 DEF Pick, Reuse, OneSourcePerName
  <2>4. CASE Visit
    <3>1. \A i \in DOMAIN nodes : nodes[i].name # nodes'[Len(nodes) + 1].name
      BY <1>2, <2>4, VisitEffect DEF Visit, NamedLike
    <3> QED
      BY <1>2, <2>4, <3>1, VisitEffect DEF OneSourcePerName
  <2>5. CASE Leave
    BY <1>2, <2>5, LeaveEffect DEF OneSourcePerName
  <2> QED
    BY <1>2, <2>1, <2>2, <2>3, <2>4, <2>5, Steps
<1> QED
  BY <1>1, <1>2, TypeCorrect, PTL DEF Spec

\* Depth first, step by step.
LEMMA NextDepthFirst ==
  ASSUME TypeOK, DepthFirst, [Next]_vars
  PROVE  DepthFirst'
<1>1. CASE Quiet
  BY <1>1 DEF Quiet, DepthFirst
<1>2. CASE \E l \in BOOLEAN : Begin(l)
  BY <1>2, BeginEffect DEF DepthFirst
<1>3. CASE \E d \in Frame.todo : Pick(d)
  <2>1. nodes' = nodes
    BY <1>3 DEF Pick
  <2> QED
    BY <1>3, <2>1, PickEffect DEF DepthFirst
<1>4. CASE Reuse
  <2>1. nodes' = nodes
    BY <1>4 DEF Reuse
  <2>2. PICK i \in DOMAIN nodes :
          /\ nodes[i].done
          /\ \A k \in DOMAIN stack :
               /\ stack'[k].node = stack[k].node
               /\ stack'[k].edges \subseteq stack[k].edges \cup [alias : Alias, to : {i}]
    BY <1>4, ReuseEffect
  <2>3. DOMAIN stack' = DOMAIN stack
    BY <1>4, ReuseEffect
  <2>4. \A k \in DOMAIN stack' : \A e \in stack'[k].edges :
          e.to \in DOMAIN nodes' /\ nodes'[e.to].done
    BY <2>1, <2>2, <2>3 DEF DepthFirst
  <2> QED
    BY <2>1, <2>2, <2>3, <2>4 DEF DepthFirst
<1>5. CASE Visit
  <2> DEFINE i == Len(nodes) + 1
             t == Len(stack) + 1
  <2>1. /\ i \notin DOMAIN nodes /\ DOMAIN nodes' = DOMAIN nodes \cup {i}
        /\ \A j \in DOMAIN nodes : nodes'[j] = nodes[j]
        /\ nodes'[i].edges = {} /\ ~nodes'[i].done
        /\ t \notin DOMAIN stack /\ DOMAIN stack' = DOMAIN stack \cup {t}
        /\ \A k \in DOMAIN stack : stack'[k] = stack[k]
        /\ stack'[t].node = i /\ stack'[t].edges = {}
    BY <1>5, VisitEffect
  <2>2. \A k \in DOMAIN stack : stack[k].node \in DOMAIN nodes
    BY DEF TypeOK
  <2> HIDE DEF i, t
  <2>3. \A k \in DOMAIN stack' :
          /\ ~nodes'[stack'[k].node].done
          /\ \A m \in DOMAIN stack' : stack'[k].node = stack'[m].node => k = m
          /\ \A e \in stack'[k].edges : e.to \in DOMAIN nodes' /\ nodes'[e.to].done
    BY <2>1, <2>2 DEF DepthFirst
  <2>4. \A j \in DOMAIN nodes' :
          /\ nodes'[j].done \/ \E k \in DOMAIN stack' : stack'[k].node = j
          /\ \A e \in nodes'[j].edges :
               nodes'[j].done /\ e.to \in DOMAIN nodes' /\ nodes'[e.to].done
    BY <2>1, <2>2 DEF DepthFirst
  <2> QED
    BY <2>3, <2>4 DEF DepthFirst
<1>6. CASE Leave
  <2> DEFINE n == Frame.node
             t == Len(stack)
  <2>1. /\ n \in DOMAIN nodes /\ DOMAIN nodes' = DOMAIN nodes
        /\ \A i \in DOMAIN nodes :
             /\ nodes'[i].edges = IF i = n THEN Frame.edges ELSE nodes[i].edges
             /\ nodes'[i].done <=> (nodes[i].done \/ i = n)
        /\ DOMAIN stack' = 1..(t - 1)
        /\ \A k \in DOMAIN stack' :
             /\ k \in DOMAIN stack /\ k < t /\ stack'[k].node = stack[k].node
             /\ stack'[k].edges \subseteq stack[k].edges \cup [alias : Alias, to : {n}]
    BY <1>6, LeaveEffect
  <2>2. t \in DOMAIN stack /\ stack[t] = Frame /\ DOMAIN stack = DOMAIN stack' \cup {t}
    <3>1. stack # <<>> /\ t \in DOMAIN stack /\ t \in Nat \ {0}
      BY <1>6, FrameType DEF Leave
    <3>2. DOMAIN stack = 1..t
      BY DEF TypeOK
    <3>3. DOMAIN stack = 1..(t - 1) \cup {t}
      BY <3>1, <3>2
    <3> QED
      BY <2>1, <3>1, <3>3 DEF Frame
  <2>3. \A k \in DOMAIN stack' : stack'[k].node # n
    <3> SUFFICES ASSUME NEW k \in DOMAIN stack' PROVE stack'[k].node # n
      OBVIOUS
    <3>1. k \in DOMAIN stack /\ k # t /\ stack'[k].node = stack[k].node
      BY <1>6, <2>1, FrameType DEF Leave, TypeOK
    <3>2. stack[t].node = n
      BY <2>2
    <3> HIDE DEF n, t
    <3> QED
      BY <2>2, <3>1, <3>2 DEF DepthFirst
  <2>4. \A e \in Frame.edges : e.to \in DOMAIN nodes /\ nodes[e.to].done
    BY <2>2 DEF DepthFirst
  <2>5. \A k \in DOMAIN stack : stack[k].node \in DOMAIN nodes
    BY DEF TypeOK
  <2> HIDE DEF n, t
  <2>6. \A k \in DOMAIN stack' :
          /\ ~nodes'[stack'[k].node].done
          /\ \A m \in DOMAIN stack' : stack'[k].node = stack'[m].node => k = m
    BY <2>1, <2>3, <2>5 DEF DepthFirst
  <2>7. \A k \in DOMAIN stack' : \A e \in stack'[k].edges :
          e.to \in DOMAIN nodes' /\ nodes'[e.to].done
    BY <2>1 DEF DepthFirst
  <2>8. \A j \in DOMAIN nodes' :
          nodes'[j].done \/ \E k \in DOMAIN stack' : stack'[k].node = j
    BY <2>1, <2>2 DEF DepthFirst, n
  <2>9. \A j \in DOMAIN nodes' : \A e \in nodes'[j].edges :
          nodes'[j].done /\ e.to \in DOMAIN nodes' /\ nodes'[e.to].done
    BY <2>1, <2>4 DEF DepthFirst
  <2> QED
    BY <2>6, <2>7, <2>8, <2>9 DEF DepthFirst
<1> QED
  BY <1>1, <1>2, <1>3, <1>4, <1>5, <1>6, Steps

\* The walk is depth first: a package is done only when all its edges lead to
\* packages that are, and those still open are on the stack (ResolveNode's
\* recursion and its state per node).
THEOREM WalkIsDepthFirst == Spec => []DepthFirst
<1>1. Init => DepthFirst
  BY DEF Init, DepthFirst
<1> QED
  BY <1>1, NextDepthFirst, TypeCorrect, PTL DEF Spec

\* Of the packages that are done, every set has one with no edge into it.
Done == {i \in DOMAIN nodes : nodes[i].done}
NoCycle ==
  \A C \in (SUBSET Done) \ {{}} : \E i \in C : \A e \in nodes[i].edges : e.to \notin C

LEMMA NextNoCycle ==
  ASSUME TypeOK, DepthFirst, NoCycle, [Next]_vars
  PROVE  NoCycle'
<1>1. CASE Quiet
  BY <1>1 DEF Quiet, NoCycle, Done
<1>2. CASE \E l \in BOOLEAN : Begin(l)
  BY <1>2, BeginEffect DEF NoCycle, Done
<1>3. CASE (\E d \in Frame.todo : Pick(d)) \/ Reuse
  <2>1. nodes' = nodes
    BY <1>3 DEF Pick, Reuse
  <2> QED
    BY <2>1 DEF NoCycle, Done
<1>4. CASE Visit
  <2>1. Done' = Done
    BY <1>4, VisitEffect DEF Done
  <2>2. \A i \in Done : nodes'[i] = nodes[i]
    BY <1>4, VisitEffect DEF Done
  <2> QED
    BY <2>1, <2>2 DEF NoCycle
<1>5. CASE Leave
  <2> DEFINE n == Frame.node
  <2>1. /\ n \in DOMAIN nodes /\ DOMAIN nodes' = DOMAIN nodes
        /\ \A i \in DOMAIN nodes :
             /\ nodes'[i].edges = IF i = n THEN Frame.edges ELSE nodes[i].edges
             /\ nodes'[i].done <=> (nodes[i].done \/ i = n)
    BY <1>5, LeaveEffect
  <2>2. ~nodes[n].done /\ \A e \in Frame.edges : nodes[e.to].done
    <3>1. Len(stack) \in DOMAIN stack
      BY <1>5, FrameType DEF Leave
    <3> QED
      BY <3>1 DEF DepthFirst, Frame
  <2>3. \A i \in DOMAIN nodes : \A e \in nodes[i].edges : e.to # n
    BY <2>2 DEF DepthFirst
  <2> HIDE DEF n
  <2>4. SUFFICES ASSUME NEW C \in (SUBSET Done') \ {{}}
                 PROVE  \E i \in C : \A e \in nodes'[i].edges : e.to \notin C
    BY DEF NoCycle
  <2>5. C \subseteq Done \cup {n} /\ n \notin Done
    BY <2>1, <2>2, <2>4 DEF Done
  <2>6. CASE C = {n}
    BY <2>1, <2>2, <2>6
  <2>7. CASE C # {n}
    <3>1. C \ {n} \in (SUBSET Done) \ {{}}
      BY <2>4, <2>5, <2>7
    <3>2. PICK i \in C \ {n} : \A e \in nodes[i].edges : e.to \notin C \ {n}
      BY <3>1 DEF NoCycle
    <3>3. i \in DOMAIN nodes /\ nodes'[i].edges = nodes[i].edges
      BY <2>1, <3>1, <3>2 DEF Done
    <3> QED
      BY <2>3, <3>2, <3>3
  <2> QED
    BY <2>6, <2>7
<1> QED
  BY <1>1, <1>2, <1>3, <1>4, <1>5, Steps

\* A graph the resolver accepts has no cycle, for every set of manifests and
\* every edit of them during the walk (the check for an active node in
\* ResolveNode).
THEOREM GraphHasNoCycle == Spec => []GraphIsAcyclic
<1>1. Init => NoCycle
  BY DEF Init, NoCycle, Done
<1>2. TypeOK /\ DepthFirst /\ NoCycle => GraphIsAcyclic
  <2> SUFFICES ASSUME TypeOK, DepthFirst, NoCycle, Walked
               PROVE  \A C \in (SUBSET DOMAIN nodes) \ {{}} :
                        \E i \in C : \A e \in nodes[i].edges : e.to \notin C
    BY DEF GraphIsAcyclic
  <2>1. DOMAIN stack = {}
    BY DEF Walked
  <2>2. Done = DOMAIN nodes
    BY <2>1 DEF DepthFirst, Done
  <2> QED
    BY <2>2 DEF NoCycle
<1> QED
  BY <1>1, <1>2, NextNoCycle, TypeCorrect, WalkIsDepthFirst, PTL DEF Spec
(***************************************************************************)
(* The lockfile                                                            *)
(***************************************************************************)

\* The release a node or an entry of the lockfile is of.
Of(x) == [name |-> x.name, version |-> x.version]
IsRelease(d, r) == d \in Digest /\ archive[d] # None /\ archive[d].package = r

\* Whatever the registry declares, the lock pins and a resolution has chosen for
\* a release is an archive of that release; what was chosen is what was pinned,
\* and what the graph has of a release is what was chosen.
Entries == IF lock \in NoLock THEN {} ELSE lock
PinsInv ==
  /\ \A r \in Release :
       /\ index[r] # None => IsRelease(index[r], r)
       /\ hints[r] # None => IsRelease(hints[r], r)
       /\ chosen[r] # None => IsRelease(chosen[r], r) /\ hints[r] \in {None, chosen[r]}
  /\ phase = "walking" => hints = Hints(Entries)
EntriesInv ==
  /\ \A e, f \in Entries : e.id.name = f.id.name => e = f
  /\ \A e \in Entries : e.id.kind = "registry" =>
       Of(e.id) \in Release /\ IsRelease(e.id.snap, Of(e.id))
ChosenInv ==
  /\ \A s \in seeds : s.origin = Workspace
  /\ call # None /\ call.origin.kind = "registry" =>
       \E r \in Release : chosen[r] = call.place /\ chosen[r] = call.origin.snap
  /\ \A i \in DOMAIN nodes : nodes[i].origin.kind = "registry" =>
       /\ Of(nodes[i]) \in Release /\ nodes[i].origin.snap # None
       /\ chosen[Of(nodes[i])] = nodes[i].origin.snap
LockInv == PinsInv /\ EntriesInv /\ ChosenInv

\* Only a dependency on a release leads to one.
LEMMA RegistryTarget ==
  ASSUME TypeOK, NEW n \in Nodes, NEW d \in Dependencies,
         d.kind = "registry" => chosen[ReleaseOf(d)] # None,
         NEW s \in Targets(n, d), s.origin.kind = "registry"
  PROVE  /\ d.kind = "registry" /\ ReleaseOf(d) \in Release
         /\ s.place = chosen[ReleaseOf(d)] /\ s.origin.snap = chosen[ReleaseOf(d)]
<1>1. ASSUME NEW p, NEW origin, NEW name, s \in Select(p, origin, name)
      PROVE  s.origin = Placed(s.place, origin)
  BY <1>1 DEF Select
<1>2. ASSUME NEW p, NEW origin \in Origins, origin.kind # "registry"
      PROVE  Placed(p, origin).kind # "registry"
  BY <1>2 DEF Placed, Origins
<1>3. d.kind # "path"
  <2> SUFFICES ASSUME d.kind = "path" PROVE FALSE
    OBVIOUS
  <2> DEFINE origin == IF n.origin.snap = None THEN NoSource ELSE n.origin
  <2>1. s \in Select(d.to, origin, d.package) /\ IsPart(d.to, n.origin)
    BY DEF Targets
  <2>2. origin \in Origins /\ origin.kind # "registry"
    BY <2>1 DEF Nodes, Origins, NoSource, IsPart
  <2> HIDE DEF origin
  <2> QED
    BY <1>1, <1>2, <2>1, <2>2
<1>4. d.kind # "git"
  <2> SUFFICES ASSUME d.kind = "git" PROVE FALSE
    OBVIOUS
  <2> DEFINE origin == [kind |-> "git", snap |-> d.to]
  <2>1. s \in Select(Top[d.to], origin, d.package)
    BY DEF Targets
  <2>2. origin \in Origins /\ origin.kind # "registry"
    BY DEF Dependencies, Origins
  <2> HIDE DEF origin
  <2> QED
    BY <1>1, <1>2, <2>1, <2>2
<1>5. d.kind = "registry" /\ ReleaseOf(d) \in Release
  BY <1>3, <1>4 DEF Dependencies
<1> DEFINE c == chosen[ReleaseOf(d)]
           origin == [kind |-> "registry", snap |-> c]
<1>6. s \in Select(c, origin, d.package)
  BY <1>5 DEF Targets
<1>7. s.place = c
  <2> DEFINE members == IF d.package = None THEN {}
                        ELSE Manifest(c).members \ Manifest(c).excluded
  <2>1. s.place \in {c} \cup members /\ \A m \in members : IsPart(m, origin)
    BY <1>6 DEF Select
  <2>2. \A m : ~IsPart(m, origin)
    BY DEF IsPart
  <2> QED
    BY <2>1, <2>2
<1>8. s.origin = origin
  BY <1>1, <1>5, <1>6, ResolverAssumption DEF Placed, TypeOK
<1> QED
  BY <1>5, <1>7, <1>8

\* The steps that touch neither what is pinned nor what is chosen, but may end
\* the resolution.
LEMMA PinsStay ==
  ASSUME LockInv, UNCHANGED <<archive, index, lock, hints, chosen>>,
         phase' = "walking" => phase = "walking"
  PROVE  PinsInv' /\ EntriesInv'
<1>1. Entries' = Entries /\ Hints(Entries)' = Hints(Entries)
  BY DEF Entries, Hints
<1>2. PinsInv'
  BY <1>1 DEF LockInv, PinsInv, IsRelease
<1>3. EntriesInv'
  BY <1>1 DEF LockInv, EntriesInv, IsRelease
<1> QED
  BY <1>2, <1>3

LEMMA ChosenStays ==
  ASSUME LockInv, UNCHANGED <<chosen, nodes, seeds>>, call' \in {call, None}
  PROVE  ChosenInv'
BY DEF LockInv, ChosenInv, Of

LEMMA InitLockInv == Init => LockInv
BY DEF Init, LockInv, PinsInv, EntriesInv, ChosenInv, Entries, NoLock

LEMMA BeginLock ==
  ASSUME TypeOK, LockInv, NEW l, Begin(l)
  PROVE  LockInv'
<1>1. /\ UNCHANGED <<archive, index, lock>> /\ hints' = Hints(Entries)
      /\ chosen' = [r \in Release |-> None] /\ call' = None /\ nodes' = <<>>
      /\ \A s \in seeds' : s.origin = Workspace
  BY DEF Begin, world, Entries
<1>2. Entries' = Entries /\ Hints(Entries)' = Hints(Entries)
  BY <1>1 DEF Entries, Hints
<1>3. ASSUME NEW r \in Release, hints'[r] # None
      PROVE  IsRelease(hints'[r], r)
  <2> DEFINE digests == {e.id.snap : e \in {x \in Entries :
                       x.id.kind = "registry" /\ r = [name |-> x.id.name,
                                                      version |-> x.id.version]}}
  <2>1. hints'[r] \in digests
    BY <1>1, <1>3 DEF Hints
  <2>2. PICK e \in Entries : /\ e.id.kind = "registry" /\ r = Of(e.id)
                             /\ hints'[r] = e.id.snap
    BY <2>1 DEF Of
  <2> QED
    BY <2>2 DEF LockInv, EntriesInv
<1>4. PinsInv'
  BY <1>1, <1>2, <1>3 DEF LockInv, PinsInv, IsRelease
<1>5. EntriesInv' /\ ChosenInv'
  BY <1>1, <1>2 DEF LockInv, EntriesInv, ChosenInv, IsRelease
<1> QED
  BY <1>4, <1>5 DEF LockInv

LEMMA MaterializeLock ==
  ASSUME TypeOK, LockInv, Materialize
  PROVE  LockInv'
<1>1. Frame \in Frames /\ Frame.dep \in Dependencies
  BY FrameType DEF Materialize, Picked, Frames
<1> DEFINE r == ReleaseOf(Frame.dep)
           found == IF hints[r] \in cached THEN hints[r] ELSE index[r]
<1>2. r \in Release /\ chosen[r] = None
  BY <1>1 DEF Materialize, Dependencies
<1>3. CASE \E how \in {"unpinned", "fetch", "changed"} : Stop(how)
  BY <1>3, PinsStay, ChosenStays
  DEF Stop, End, LockInv, world, kept, given, walk
<1>4. CASE /\ found # None
           /\ hints[r] = found \/ (hints[r] = None /\ ~locked)
           /\ chosen' = [chosen EXCEPT ![r] = found]
           /\ UNCHANGED <<world, kept, ended, given, walk>>
  <2>1. IsRelease(found, r)
    BY <1>2, <1>4, ResolverAssumption DEF LockInv, PinsInv, TypeOK
  <2>2. \A q \in Release : chosen'[q] = IF q = r THEN found ELSE chosen[q]
    BY <1>4 DEF TypeOK
  <2>3. UNCHANGED <<archive, index, lock, hints, phase, seeds, call, nodes>>
    BY <1>4 DEF world, kept, ended, given, walk
  <2>4. UNCHANGED Entries /\ Hints(Entries)' = Hints(Entries)
    BY <2>3 DEF Entries, Hints
  <2> HIDE DEF r, found
  <2>5. PinsInv'
    BY <1>4, <2>1, <2>2, <2>3, <2>4 DEF LockInv, PinsInv, IsRelease
  <2>6. EntriesInv'
    BY <2>3, <2>4 DEF LockInv, EntriesInv, IsRelease
  <2>7. \A q \in Release : chosen[q] # None => chosen'[q] = chosen[q]
    BY <1>2, <2>2
  <2>8. call # None => call.place # None
    BY ResolverAssumption DEF TypeOK, Selections
  <2>9. \A i \in DOMAIN nodes : nodes[i].origin.kind = "registry" =>
          nodes[i].origin.snap # None
    BY DEF LockInv, ChosenInv
  <2>10. ChosenInv'
    BY <1>2, <2>2, <2>3, <2>7, <2>8, <2>9 DEF LockInv, ChosenInv
  <2> QED
    BY <2>5, <2>6, <2>10 DEF LockInv
<1> QED
  BY <1>3, <1>4 DEF Materialize

LEMMA CallDependencyLock ==
  ASSUME TypeOK, LockInv, CallDependency
  PROVE  LockInv'
<1>1. /\ Frame \in Frames /\ Frame.dep \in Dependencies
      /\ nodes[Frame.node] \in Nodes
  BY FrameType DEF CallDependency, Ready, Picked, Frames
<1>2. CASE Stop("target")
  BY <1>2, PinsStay, ChosenStays DEF Stop, End, LockInv, world, kept, given, walk
<1>3. CASE \E s \in Targets(nodes[Frame.node], Frame.dep) :
              /\ call' = s
              /\ UNCHANGED <<world, cached, kept, ended, given, chosen, seeds, stack, nodes>>
  <2>1. PICK s \in Targets(nodes[Frame.node], Frame.dep) : call' = s
    BY <1>3
  <2>2. UNCHANGED <<archive, index, lock, hints, chosen, phase, seeds, nodes>>
    BY <1>3 DEF world, kept, ended, given
  <2>3. s.origin.kind = "registry" =>
          \E r \in Release : chosen[r] = s.place /\ chosen[r] = s.origin.snap
    BY <1>1, RegistryTarget DEF CallDependency, Ready
  <2>4. ChosenInv'
    BY <2>1, <2>2, <2>3 DEF LockInv, ChosenInv, Of
  <2> QED
    BY <2>2, <2>4, PinsStay DEF LockInv
<1> QED
  BY <1>2, <1>3 DEF CallDependency

LEMMA VisitLock ==
  ASSUME TypeOK, LockInv, Visit
  PROVE  LockInv'
<1> DEFINE i == Len(nodes) + 1
           m == Manifest(call.place)
<1>1. /\ DOMAIN nodes' = DOMAIN nodes \cup {i}
      /\ \A j \in DOMAIN nodes : nodes'[j] = nodes[j]
  BY VisitEffect
<1>2. /\ nodes'[i].origin = call.origin /\ Of(nodes'[i]) = Of(m.package)
  BY DEF Visit, Of, TypeOK
<1>3. UNCHANGED <<archive, index, lock, hints, chosen, phase, seeds>> /\ call' = None
  BY DEF Visit, world, kept, ended, given
<1>4. ASSUME call.origin.kind = "registry"
      PROVE  /\ Of(m.package) \in Release /\ call.origin.snap # None
             /\ chosen[Of(m.package)] = call.origin.snap
  <2>1. PICK r \in Release : chosen[r] = call.place /\ chosen[r] = call.origin.snap
    BY <1>4 DEF Visit, Calling, LockInv, ChosenInv
  <2>2. call.place # None
    BY ResolverAssumption DEF Visit, Calling, TypeOK, Selections
  <2>3. IsRelease(call.place, r)
    BY <2>1, <2>2 DEF LockInv, PinsInv
  <2>4. m = archive[call.place]
    BY <2>3, ResolverAssumption DEF Manifest, IsRelease
  <2>5. m.package = r /\ r \in Packages
    BY <2>3, <2>4, ResolverAssumption DEF IsRelease
  <2>6. Of(r) = r
    BY <2>5 DEF Of, Packages
  <2> QED
    BY <2>1, <2>2, <2>5, <2>6
<1> HIDE DEF i, m
<1>5. ChosenInv'
  <2> SUFFICES ASSUME NEW j \in DOMAIN nodes', nodes'[j].origin.kind = "registry"
               PROVE  /\ Of(nodes'[j]) \in Release /\ nodes'[j].origin.snap # None
                      /\ chosen[Of(nodes'[j])] = nodes'[j].origin.snap
    BY <1>3 DEF LockInv, ChosenInv, Of
  <2>1. CASE j \in DOMAIN nodes
    BY <1>1, <2>1 DEF LockInv, ChosenInv
  <2>2. CASE j = i
    BY <1>2, <1>4, <2>2
  <2> QED
    BY <1>1, <2>1, <2>2
<1> QED
  BY <1>3, <1>5, PinsStay DEF LockInv

LEMMA LeaveLock ==
  ASSUME TypeOK, LockInv, Leave
  PROVE  LockInv'
<1>1. Frame.node \in DOMAIN nodes
  BY LeaveEffect
<1>2. UNCHANGED <<archive, index, lock, hints, chosen, seeds, call>>
  BY DEF Leave, world, kept, given
<1>3. /\ DOMAIN nodes' = DOMAIN nodes
      /\ \A j \in DOMAIN nodes : nodes'[j].origin = nodes[j].origin
                                 /\ Of(nodes'[j]) = Of(nodes[j])
  BY <1>1 DEF Leave, TypeOK, Nodes, Of
<1>4. ChosenInv'
  <2> SUFFICES ASSUME NEW j \in DOMAIN nodes', nodes'[j].origin.kind = "registry"
               PROVE  /\ Of(nodes'[j]) \in Release /\ nodes'[j].origin.snap # None
                      /\ chosen'[Of(nodes'[j])] = nodes'[j].origin.snap
    BY <1>2 DEF ChosenInv, LockInv, Of
  <2> QED
    BY <1>2, <1>3 DEF LockInv, ChosenInv
<1> QED
  BY <1>2, <1>4, PinsStay DEF LockInv, Leave, Idle

\* The lock that is written names each package once, and each release by the
\* archive that was chosen.
LEMMA RenderedEntries ==
  ASSUME TypeOK, LockInv, OneSourcePerName
  PROVE  /\ \A e, f \in Rendered : e.id.name = f.id.name => e = f
         /\ \A e \in Rendered : e.id.kind = "registry" =>
              /\ Of(e.id) \in Release /\ IsRelease(e.id.snap, Of(e.id))
              /\ chosen[Of(e.id)] = e.id.snap
<1>1. ASSUME NEW e \in Rendered, NEW f \in Rendered, e.id.name = f.id.name
      PROVE  e = f
  <2>1. PICK i \in DOMAIN nodes :
          e = [id |-> Id(nodes[i]), url |-> Url(nodes[i]),
               deps |-> {Id(nodes[x.to]) : x \in nodes[i].edges}]
    BY DEF Rendered
  <2>2. PICK j \in DOMAIN nodes :
          f = [id |-> Id(nodes[j]), url |-> Url(nodes[j]),
               deps |-> {Id(nodes[x.to]) : x \in nodes[j].edges}]
    BY DEF Rendered
  <2>3. e.id.name = nodes[i].name /\ f.id.name = nodes[j].name
    BY <2>1, <2>2 DEF Id
  <2> QED
    BY <1>1, <2>1, <2>2, <2>3 DEF OneSourcePerName
<1>2. ASSUME NEW e \in Rendered, e.id.kind = "registry"
      PROVE  /\ Of(e.id) \in Release /\ IsRelease(e.id.snap, Of(e.id))
             /\ chosen[Of(e.id)] = e.id.snap
  <2>1. PICK i \in DOMAIN nodes : e.id = Id(nodes[i])
    BY DEF Rendered
  <2>2. /\ nodes[i].origin.kind = "registry" /\ Of(e.id) = Of(nodes[i])
        /\ e.id.snap = nodes[i].origin.snap
    BY <1>2, <2>1 DEF Id, Of
  <2>3. Of(e.id) \in Release /\ chosen[Of(e.id)] = e.id.snap
    BY <2>2 DEF LockInv, ChosenInv
  <2>4. e.id.snap # None
    BY <2>2 DEF LockInv, ChosenInv
  <2> QED
    BY <2>3, <2>4 DEF LockInv, PinsInv
<1> QED
  BY <1>1, <1>2

LEMMA FinishLock ==
  ASSUME TypeOK, LockInv, OneSourcePerName, Finish
  PROVE  LockInv'
<1>1. CASE \E how \in {"alias", "stale", "ok"} : Stop(how)
  BY <1>1, PinsStay, ChosenStays DEF Stop, End, LockInv, world, kept, given, walk
<1>2. CASE /\ lock' = Rendered /\ End("ok")
           /\ UNCHANGED <<world, cached, runs, given, chosen, walk>>
  <2>1. UNCHANGED <<archive, index, hints, chosen, seeds, call, nodes>> /\ phase' = "idle"
    BY <1>2 DEF End, world, given, walk
  <2>2. ChosenInv'
    BY <2>1, ChosenStays
  <2>3. PinsInv'
    BY <2>1 DEF LockInv, PinsInv, IsRelease
  <2>4. Entries' \subseteq Rendered
    BY <1>2 DEF Entries
  <2>5. EntriesInv'
    BY <2>1, <2>4, RenderedEntries DEF EntriesInv, IsRelease
  <2> QED
    BY <2>2, <2>3, <2>5 DEF LockInv
<1> QED
  BY <1>1, <1>2 DEF Finish

\* A version that is archived keeps its archive, whatever is published.
LEMMA PublishLock ==
  ASSUME TypeOK, LockInv, NEW p \in Place, NEW d \in Digest, Publish(p, d)
  PROVE  LockInv'
<1>1. tree[p] # None /\ tree[p].package \in Release
  BY DEF Publish
<1>2. \A e \in Digest : archive'[e] = IF e = d THEN tree[p] ELSE archive[e]
  BY DEF Publish, TypeOK
<1>3. \A r \in Release : index'[r] = IF r = tree[p].package THEN d ELSE index[r]
  BY DEF Publish, TypeOK
<1>4. UNCHANGED <<tree, lock, hints, chosen, phase, seeds, call, nodes>>
  BY DEF Publish, kept, ended, given, walk
<1>10. \A e \in Digest : archive[e] # None => archive'[e] = archive[e]
  BY <1>2 DEF Publish
<1>5. \A e, r : IsRelease(e, r) => IsRelease(e, r)'
  BY <1>10 DEF IsRelease
<1>6. IsRelease(d, tree[p].package)'
  BY <1>1, <1>2, <1>4 DEF IsRelease
<1>7. Entries' = Entries /\ Hints(Entries)' = Hints(Entries)
  BY <1>4 DEF Entries, Hints
<1>8. PinsInv'
  <2>1. ASSUME NEW r \in Release, index'[r] # None
        PROVE  IsRelease(index[r], r)'
    <3>1. CASE r = tree[p].package
      BY <1>3, <1>4, <1>6, <3>1 DEF IsRelease
    <3>2. CASE r # tree[p].package
      BY <1>3, <1>5, <2>1, <3>2 DEF LockInv, PinsInv, IsRelease
    <3> QED
      BY <3>1, <3>2
  <2>2. ASSUME NEW r \in Release
        PROVE  /\ hints[r] # None => IsRelease(hints[r], r)'
               /\ chosen[r] # None =>
                    IsRelease(chosen[r], r)' /\ hints[r] \in {None, chosen[r]}
    BY <1>4, <1>5 DEF LockInv, PinsInv, IsRelease
  <2> QED
    BY <1>4, <1>7, <2>1, <2>2 DEF LockInv, PinsInv
<1>9. EntriesInv'
  BY <1>5, <1>7 DEF LockInv, EntriesInv, IsRelease
<1> QED
  BY <1>4, <1>8, <1>9, ChosenStays DEF LockInv

LEMMA NextLockInv ==
  ASSUME TypeOK, LockInv, OneSourcePerName, [Next]_vars
  PROVE  LockInv'
<1>1. CASE \E l \in BOOLEAN : Begin(l)
  BY <1>1, BeginLock
<1>2. CASE Materialize
  BY <1>2, MaterializeLock
<1>3. CASE CallDependency
  BY <1>3, CallDependencyLock
<1>4. CASE Visit
  BY <1>4, VisitLock
<1>5. CASE Leave
  BY <1>5, LeaveLock
<1>6. CASE Finish
  BY <1>6, FinishLock
<1>7. CASE \E p \in Place, d \in Digest : Publish(p, d)
  BY <1>7, PublishLock
<1>8. CASE \E s \in seeds : CallSeed(s)
  <2>1. PICK s \in seeds : CallSeed(s)
    BY <1>8
  <2>2. s.origin.kind # "registry"
    BY DEF LockInv, ChosenInv, Workspace
  <2>3. /\ call' = s /\ seeds' \subseteq seeds
        /\ UNCHANGED <<archive, index, lock, hints, chosen, phase, nodes>>
    BY <2>1 DEF CallSeed, world, kept, ended, given
  <2>4. ChosenInv'
    BY <2>2, <2>3 DEF LockInv, ChosenInv, Of
  <2> QED
    BY <2>3, <2>4, PinsStay DEF LockInv
<1>9. CASE FetchFails \/ Cycle \/ NoPackage \/ Conflict
  BY <1>9, PinsStay, ChosenStays
  DEF FetchFails, Cycle, NoPackage, Conflict, Stop, End, LockInv, world, kept, given, walk
<1>10. CASE (\E d \in Frame.todo : Pick(d)) \/ Edit \/ Clean \/ \E h \in Home : Move(h)
  BY <1>10, PinsStay, ChosenStays
  DEF Pick, Edit, Clean, Move, LockInv, world, kept, ended, given, walk
<1>11. CASE Reuse
  BY <1>11, PinsStay, ChosenStays
  DEF Reuse, Calling, LockInv, world, kept, given
<1>12. CASE UNCHANGED vars
  BY <1>12, PinsStay, ChosenStays DEF vars, LockInv, world, kept, ended, given, walk
<1> QED
  BY <1>1, <1>2, <1>3, <1>4, <1>5, <1>6, <1>7, <1>8, <1>9, <1>10, <1>11, <1>12
  DEF Next, Step

\* A release keeps the archive the lockfile gives it, whatever is published or
\* republished and whatever is in the cache (MaterializeRegistry and the pins it
\* takes from the lock).
THEOREM LockKeepsReleases == Spec => LockIsHonoured
<1> DEFINE Honoured ==
      \A new \in (IF lock' = lock THEN {} ELSE lock') : \A old \in Entries :
         (/\ new.id.kind = "registry" /\ old.id.kind = "registry"
          /\ new.id.name = old.id.name /\ new.id.version = old.id.version)
         => new.id.snap = old.id.snap
<1>1. Spec => []LockInv
  BY InitLockInv, NextLockInv, TypeCorrect, NamesAreUnique, PTL DEF Spec
<1>2. TypeOK /\ LockInv /\ OneSourcePerName /\ [Next]_vars => [Honoured]_vars
  <2> SUFFICES ASSUME TypeOK, LockInv, OneSourcePerName, Next, lock' # lock,
                      NEW new \in lock', NEW old \in Entries,
                      new.id.kind = "registry", old.id.kind = "registry",
                      new.id.name = old.id.name, new.id.version = old.id.version
               PROVE  new.id.snap = old.id.snap
    BY DEF vars, kept
  <2>1. lock' = Rendered /\ phase = "walking"
    BY DEF Next, Step, Begin, CallSeed, Pick, FetchFails, Materialize, CallDependency,
       Cycle, Reuse, NoPackage, Conflict, Visit, Leave, Finish, Edit, Move, Publish,
       Clean, Stop, Idle, kept
  <2> DEFINE r == Of(old.id)
             digests == {e.id.snap : e \in {x \in Entries :
                           x.id.kind = "registry" /\ r = [name |-> x.id.name,
                                                          version |-> x.id.version]}}
  <2>2. r \in Release /\ old.id.snap \in Digest
    BY DEF LockInv, EntriesInv, IsRelease
  <2>3. digests = {old.id.snap}
    BY DEF LockInv, EntriesInv, Of
  <2>4. hints[r] = old.id.snap
    <3>1. hints[r] = IF \E d \in Digest : digests = {d}
                     THEN CHOOSE d \in Digest : digests = {d} ELSE None
      BY <2>1, <2>2 DEF LockInv, PinsInv, Hints
    <3> HIDE DEF digests
    <3> QED
      BY <2>2, <2>3, <3>1
  <2>5. chosen[r] = new.id.snap /\ IsRelease(new.id.snap, r)
    BY <2>1, RenderedEntries DEF Of
  <2>6. hints[r] \in {None, chosen[r]} /\ old.id.snap # None /\ new.id.snap # None
    BY <2>2, <2>5, ResolverAssumption DEF LockInv, PinsInv, IsRelease
  <2> QED
    BY <2>4, <2>5, <2>6
<1> QED
  BY <1>1, <1>2, TypeCorrect, NamesAreUnique, PTL DEF Spec, LockIsHonoured, Entries
(***************************************************************************)
(* The graph that is found                                                 *)
(***************************************************************************)

\* Nothing that was read is edited, and what was chosen stays chosen.
Settled ==
  /\ UNCHANGED <<tree, root, tops>>
  /\ \A d \in Digest : archive[d] # None => archive'[d] = archive[d]
  /\ \A r \in Release : chosen[r] # None => chosen'[r] = chosen[r]

LEMMA ManifestStays ==
  ASSUME Settled, NEW p \in Place \cup Digest, p \in Place \/ Manifest(p) # None
  PROVE  Manifest(p)' = Manifest(p)
BY ResolverAssumption DEF Settled, Manifest

LEMMA SelectStays ==
  ASSUME TypeOK, Settled, NEW p \in Place \cup Digest, Manifest(p) # None,
         NEW origin, NEW name
  PROVE  Select(p, origin, name)' = Select(p, origin, name)
<1> DEFINE Members(m) == IF name = None THEN {} ELSE m.members \ m.excluded
           members == Members(Manifest(p))
           Fits(q, m) == m # None /\ m.package # None /\ name \in {None, m.package.name}
<1>1. Manifest(p)' = Manifest(p) /\ Manifest(p) \in Manifests
  BY ManifestStays, ManifestType
<1>2. members \subseteq Place
  BY <1>1 DEF Manifests
<1>3. \A q \in {p} \cup members : Manifest(q)' = Manifest(q)
  BY <1>2, ManifestStays
<1>4. \A q \in {p} \cup members : HasPackage(q)' = HasPackage(q)
  BY <1>3 DEF HasPackage
<1>5. \A q : Placed(q, origin)' = Placed(q, origin)
  BY DEF Placed, Settled
<1> DEFINE matches == {q \in {p} \cup members :
                         HasPackage(q) /\ name \in {None, Manifest(q).package.name}}
<1>6. (members')= members
  BY <1>1
<1> HIDE DEF members
<1>7. (matches') = matches
  BY <1>3, <1>4, <1>6
<1> HIDE DEF matches
<1>8. Select(p, origin, name) =
        {[place |-> q, origin |-> Placed(q, origin)] : q \in
          {q \in matches : /\ matches = {q}
                           /\ \A s \in members : IsPart(s, origin) /\ HasPackage(s)}}
  BY DEF Select, matches, members
<1>9. Select(p, origin, name)' =
        {[place |-> q, origin |-> Placed(q, origin)'] : q \in
          {q \in matches' : /\ matches' = {q}
                            /\ \A s \in members' : IsPart(s, origin) /\ HasPackage(s)'}}
  BY DEF Select, matches, members
<1> QED
  BY <1>4, <1>5, <1>6, <1>7, <1>8, <1>9

\* One dependency leads to one place at most.
LEMMA TargetIsOne ==
  ASSUME NEW n, NEW d \in Dependencies, NEW s \in Targets(n, d), NEW t \in Targets(n, d)
  PROVE  s = t
<1>1. ASSUME NEW p, NEW origin, NEW name,
             s \in Select(p, origin, name), t \in Select(p, origin, name)
      PROVE  s = t
  BY <1>1 DEF Select
<1> QED
  BY <1>1 DEF Targets, Dependencies

Resolved(d) == d.kind = "registry" => chosen[ReleaseOf(d)] # None

LEMMA TargetsStay ==
  ASSUME TypeOK, Settled, NEW n \in Nodes, NEW d \in Dependencies, Resolved(d)
  PROVE  Targets(n, d)' = Targets(n, d) /\ Resolved(d)'
<1>1. CASE d.kind = "path"
  <2>1. d.to \in Place
    BY <1>1 DEF Dependencies
  <2>2. Manifest(d.to)' = Manifest(d.to)
    BY <2>1, ManifestStays
  <2> DEFINE origin == IF n.origin.snap = None THEN NoSource ELSE n.origin
  <2>3. Manifest(d.to) # None =>
          Select(d.to, origin, d.package)' = Select(d.to, origin, d.package)
    BY <2>1, SelectStays
  <2> QED
    BY <1>1, <2>2, <2>3 DEF Targets, Resolved
<1>2. CASE d.kind = "git"
  <2>1. Top[d.to] \in Place
    BY <1>2, ResolverAssumption DEF Dependencies
  <2>2. Manifest(Top[d.to])' = Manifest(Top[d.to])
    BY <2>1, ManifestStays
  <2> DEFINE origin == [kind |-> "git", snap |-> d.to]
  <2>3. Manifest(Top[d.to]) # None =>
          Select(Top[d.to], origin, d.package)' = Select(Top[d.to], origin, d.package)
    BY <2>1, SelectStays
  <2> QED
    BY <1>2, <2>2, <2>3 DEF Targets, Resolved
<1>3. CASE d.kind = "registry"
  <2> DEFINE r == ReleaseOf(d)
  <2>1. r \in Release /\ chosen[r] \in Digest /\ chosen[r] # None /\ chosen'[r] = chosen[r]
    BY <1>3 DEF Dependencies, Resolved, Settled, TypeOK
  <2>2. PICK c \in Digest : c = chosen[r] /\ c # None
    BY <2>1
  <2>3. Manifest(c) # None
    BY <2>1, <2>2, ResolverAssumption DEF Manifest, TypeOK
  <2>4. Select(c, [kind |-> "registry", snap |-> c], d.package)'
          = Select(c, [kind |-> "registry", snap |-> c], d.package)
    BY <2>3, SelectStays
  <2>5. Targets(n, d) = Select(c, [kind |-> "registry", snap |-> c], d.package)
    BY <1>3, <2>2 DEF Targets
  <2>6. Targets(n, d)' = Select(c, [kind |-> "registry", snap |-> c], d.package)'
    BY <1>3, <2>1, <2>2 DEF Targets
  <2> QED
    BY <2>1, <2>4, <2>5, <2>6, ResolverAssumption DEF Resolved
<1> QED
  BY <1>1, <1>2, <1>3 DEF Dependencies
LEMMA NodeType ==
  ASSUME TypeOK, NEW i \in DOMAIN nodes
  PROVE  /\ nodes[i] \in Nodes /\ i \in Nat /\ nodes[i].place \in Place \cup Digest
         /\ nodes[i].chain \in Seq(Nat) /\ nodes[i].edges \subseteq Edges
<1>1. nodes[i] \in Nodes /\ i \in Nat
  BY DEF TypeOK
<1> QED
  BY <1>1 DEF Nodes

\* Dependency d of node i leads to node j; an edge for it; a package has the edges
\* for some of its dependencies and no others.
Lead(i, d, j) == Resolved(d) /\ \E s \in Targets(nodes[i], d) : j \in At(s)
Edge(i, d, e) == e.alias = d.alias /\ Lead(i, d, e.to)
Exact(i, D, es) ==
  /\ \A d \in D : \E e \in es : Edge(i, d, e)
  /\ \A e \in es : \E d \in D : Edge(i, d, e)
Starts == {[place |-> p, origin |-> Workspace] : p \in Seeds(root)}
IsStart(i) == nodes[i].place \in Seeds(root)

\* While nothing is edited: each package is there once.
PlacesInv ==
  /\ \A i \in DOMAIN nodes : Manifest(nodes[i].place) # None
  /\ \A i, j \in DOMAIN nodes :
       nodes[i].place = nodes[j].place /\ nodes[i].origin = nodes[j].origin => i = j
\* What is left of the project's own packages, and where a call comes from.
SeedsInv ==
  /\ seeds \subseteq Starts
  /\ \A s \in Starts : s # None /\ (s \in seeds \/ call = s \/ At(s) # {})
CallInv ==
  /\ call # None /\ stack = <<>> => call \in Starts
  /\ call # None /\ stack # <<>> =>
       /\ Resolved(Frame.dep) /\ call \in Targets(nodes[Frame.node], Frame.dep)
\* The packages that are open and those that are done have the edges they should.
FramesInv ==
  \A k \in DOMAIN stack :
    LET f == stack[k]
    IN  /\ f.todo \subseteq Deps(f.node) /\ f.dep \in f.todo \cup {None}
        /\ Exact(f.node, Deps(f.node) \ f.todo, f.edges)
DoneInv == \A i \in DOMAIN nodes : nodes[i].done => Exact(i, Deps(i), nodes[i].edges)
\* Each package is there for a reason: as one of the project's, or as somebody's
\* dependency.
PathInv ==
  /\ \A k \in DOMAIN stack : k # 1 =>
       /\ k - 1 \in DOMAIN stack
       /\ Lead(stack[k - 1].node, stack[k - 1].dep, stack[k].node)
  /\ 1 \in DOMAIN stack => IsStart(stack[1].node)
ReachedInv ==
  \A j \in DOMAIN nodes :
    \/ IsStart(j)
    \/ \E i \in DOMAIN nodes : \E e \in nodes[i].edges : e.to = j
    \/ \E k \in DOMAIN stack : \E e \in stack[k].edges : e.to = j
    \/ \E k \in DOMAIN stack : stack[k].node = j
Connected(c) ==
  /\ \A k \in DOMAIN c : c[k] \in DOMAIN nodes
  /\ IsStart(c[1])
  /\ \A k \in 1..(Len(c) - 1) : \E d \in Deps(c[k]) : Lead(c[k], d, c[k + 1])
ChainsInv ==
  \A i \in DOMAIN nodes :
    LET c == nodes[i].chain IN c # <<>> /\ c[Len(c)] = i /\ Connected(c)

\* A resolution goes on, or it has ended in a call of ResolveNode.
Live == phase = "walking" \/ call # None
GraphInv ==
  /\ PlacesInv /\ SeedsInv /\ CallInv /\ FramesInv /\ DoneInv /\ PathInv
  /\ ReachedInv /\ ChainsInv
CycleInv ==
  phase = "idle" /\ call # None /\ outcome = "cycle" =>
    \E i \in At(call) : ~nodes[i].done
WalkInv == Live /\ steady => GraphInv /\ CycleInv

\* Nodes are added and change nothing but their edges and their state.
Grown ==
  /\ DOMAIN nodes \subseteq DOMAIN nodes'
  /\ \A i \in DOMAIN nodes :
       /\ nodes'[i].place = nodes[i].place /\ nodes'[i].origin = nodes[i].origin
       /\ nodes'[i].chain = nodes[i].chain

LEMMA DepsStay ==
  ASSUME TypeOK, PlacesInv, Settled, Grown, NEW i \in DOMAIN nodes
  PROVE  /\ Deps(i)' = Deps(i) /\ Deps(i) \subseteq Dependencies
         /\ Manifest(nodes[i].place)' = Manifest(nodes[i].place)
         /\ IsStart(i)' = IsStart(i)
<1>1. nodes[i].place \in Place \cup Digest /\ nodes[i] \in Nodes
  BY NodeType
<1>2. \A p \in Place \cup Digest : Manifest(p) # None => Manifest(p)' = Manifest(p)
  BY ManifestStays
<1>3. Manifest(nodes[i].place)' = Manifest(nodes[i].place)
  BY <1>1, <1>2 DEF PlacesInv, Grown
<1>4. Manifest(nodes[i].place) \in Manifests
  BY <1>1, ManifestType DEF PlacesInv
<1>5. IsStart(i)' = IsStart(i)
  BY DEF IsStart, Settled, Grown
<1> QED
  BY <1>3, <1>4, <1>5 DEF Deps, Manifests

LEMMA AtStays ==
  ASSUME Grown, NEW s, NEW j \in At(s)
  PROVE  j \in At(s)'
BY DEF Grown, At

LEMMA LeadStays ==
  ASSUME TypeOK, TypeOK', PlacesInv, Settled, Grown,
         NEW i \in DOMAIN nodes, NEW d \in Deps(i), NEW j, Lead(i, d, j)
  PROVE  Lead(i, d, j)'
<1>1. d \in Dependencies
  BY DepsStay
<1>2. nodes[i] \in Nodes /\ nodes'[i] \in Nodes /\ nodes'[i].origin = nodes[i].origin
  BY DEF Grown, TypeOK
<1>3. \A n \in Nodes : Targets(n, d)' = Targets(n, d)
  BY <1>1, TargetsStay DEF Lead
<1>4. \A n, m \in Nodes : n.origin = m.origin => Targets(n, d) = Targets(m, d)
  BY DEF Targets
<1>5. Resolved(d)'
  BY <1>1, <1>2, TargetsStay DEF Lead
<1>6. PICK s \in Targets(nodes[i], d) : j \in At(s)
  BY DEF Lead
<1>7. s \in Targets(nodes[i], d)'
  BY <1>2, <1>3, <1>4, <1>6
<1> QED
  BY <1>5, <1>6, <1>7, AtStays DEF Lead

LEMMA ExactStays ==
  ASSUME TypeOK, TypeOK', PlacesInv, Settled, Grown,
         NEW i \in DOMAIN nodes, NEW D \in SUBSET Deps(i), NEW es, Exact(i, D, es)
  PROVE  Exact(i, D, es)'
<1>1. ASSUME NEW d \in D, NEW e, Edge(i, d, e)
      PROVE  Edge(i, d, e)'
  BY <1>1, LeadStays DEF Edge
<1> QED
  BY <1>1 DEF Exact
LEMMA ConnectedStays ==
  ASSUME TypeOK, TypeOK', PlacesInv, Settled, Grown,
         NEW c \in Seq(Nat), c # <<>>, Connected(c)
  PROVE  Connected(c)'
<1>1. /\ \A k \in DOMAIN c : c[k] \in DOMAIN nodes /\ c[k] \in DOMAIN nodes'
      /\ 1 \in DOMAIN c
  BY DEF Connected, Grown
<1>2. IsStart(c[1])'
  BY <1>1, DepsStay DEF Connected
<1>3. ASSUME NEW k \in 1..(Len(c) - 1)
      PROVE  \E d \in Deps(c[k])' : Lead(c[k], d, c[k + 1])'
  <2>1. c[k] \in DOMAIN nodes
    BY <1>1
  <2>2. PICK d \in Deps(c[k]) : Lead(c[k], d, c[k + 1])
    BY DEF Connected
  <2> QED
    BY <2>1, <2>2, DepsStay, LeadStays
<1> QED
  BY <1>1, <1>2, <1>3 DEF Connected

\* The nodes stay as they are.
LEMMA NodesKept ==
  ASSUME TypeOK, TypeOK', GraphInv, Settled, UNCHANGED nodes
  PROVE  PlacesInv' /\ DoneInv' /\ ChainsInv' /\ Grown
<1>1. Grown /\ PlacesInv
  BY DEF Grown, GraphInv
<1>2. PlacesInv'
  <2>1. \A i \in DOMAIN nodes : Manifest(nodes[i].place)' = Manifest(nodes[i].place)
    BY <1>1, DepsStay
  <2> QED
    BY <1>1, <2>1 DEF PlacesInv
<1>3. DoneInv'
  <2> SUFFICES ASSUME NEW i \in DOMAIN nodes, nodes[i].done
               PROVE  Exact(i, Deps(i), nodes[i].edges)'
    BY DEF DoneInv
  <2>1. Exact(i, Deps(i), nodes[i].edges)
    BY DEF GraphInv, DoneInv
  <2>2. Deps(i)' = Deps(i)
    BY <1>1, DepsStay
  <2>3. \A D \in SUBSET Deps(i) : \A es : Exact(i, D, es) => Exact(i, D, es)'
    BY <1>1, ExactStays
  <2> QED
    BY <2>1, <2>2, <2>3
<1>4. ChainsInv'
  <2> SUFFICES ASSUME NEW i \in DOMAIN nodes
               PROVE  /\ nodes[i].chain # <<>>
                      /\ nodes[i].chain[Len(nodes[i].chain)] = i
                      /\ Connected(nodes[i].chain)'
    BY DEF ChainsInv
  <2>1. \A c \in Seq(Nat) : c # <<>> /\ Connected(c) => Connected(c)'
    BY <1>1, ConnectedStays
  <2> QED
    BY <2>1, NodeType DEF GraphInv, ChainsInv
<1> QED
  BY <1>1, <1>2, <1>3, <1>4

\* A frame that stays as it is, but for what it waits for.
LEMMA FrameStays ==
  ASSUME TypeOK, TypeOK', GraphInv, Settled, Grown, NEW k \in DOMAIN stack
  PROVE  /\ stack[k].node \in DOMAIN nodes
         /\ stack[k].todo \subseteq Deps(stack[k].node)
         /\ stack[k].dep \in stack[k].todo \cup {None}
         /\ \A n : n = stack[k].node =>
              /\ Deps(n)' = Deps(n)
              /\ \A D, es : D = Deps(n) \ stack[k].todo /\ es = stack[k].edges =>
                   Exact(n, D, es)'
<1>1. PlacesInv /\ stack[k].node \in DOMAIN nodes
  BY DEF TypeOK, GraphInv
<1>2. /\ stack[k].todo \subseteq Deps(stack[k].node)
      /\ stack[k].dep \in stack[k].todo \cup {None}
      /\ Exact(stack[k].node, Deps(stack[k].node) \ stack[k].todo, stack[k].edges)
  BY DEF GraphInv, FramesInv
<1> QED
  BY <1>1, <1>2, DepsStay, ExactStays

LEMMA FrameKept ==
  ASSUME TypeOK, TypeOK', GraphInv, Settled, Grown, NEW k \in DOMAIN stack,
         stack'[k].node = stack[k].node, stack'[k].todo = stack[k].todo,
         stack'[k].edges = stack[k].edges, stack'[k].dep \in stack[k].todo \cup {None}
  PROVE  /\ (stack[k].todo \subseteq Deps(stack[k].node))'
         /\ (stack[k].dep \in stack[k].todo \cup {None})'
         /\ Exact(stack[k].node, Deps(stack[k].node) \ stack[k].todo, stack[k].edges)'
<1>1. PICK n \in DOMAIN nodes : n = stack[k].node
  BY FrameStays
<1>2. Deps(n)' = Deps(n) /\ stack[k].todo \subseteq Deps(n)
  BY <1>1, FrameStays
<1>3. \A D, es : D = Deps(n) \ stack[k].todo /\ es = stack[k].edges => Exact(n, D, es)'
  BY <1>1, FrameStays
<1> QED
  BY <1>1, <1>2, <1>3

\* Above the bottom a frame has a caller that waits for it.
LEMMA PathStays ==
  ASSUME TypeOK, TypeOK', GraphInv, Settled, Grown, NEW k \in DOMAIN stack
  PROVE  /\ k # 1 => /\ k - 1 \in DOMAIN stack
                     /\ stack[k - 1].dep \in Deps(stack[k - 1].node)
                     /\ \A n, d, j :
                          (n = stack[k - 1].node /\ d = stack[k - 1].dep /\ j = stack[k].node)
                          => Lead(n, d, j)'
         /\ k = 1 => \A j : j = stack[1].node => IsStart(j)'
<1>1. PlacesInv /\ PathInv
  BY DEF GraphInv
<1>2. ASSUME k # 1
      PROVE  /\ k - 1 \in DOMAIN stack
             /\ stack[k - 1].dep \in Deps(stack[k - 1].node)
             /\ \A n, d, j :
                  (n = stack[k - 1].node /\ d = stack[k - 1].dep /\ j = stack[k].node)
                  => Lead(n, d, j)'
  <2>1. /\ k - 1 \in DOMAIN stack
        /\ Lead(stack[k - 1].node, stack[k - 1].dep, stack[k].node)
    BY <1>1, <1>2 DEF PathInv
  <2>2. k - 1 < Len(stack)
    BY DEF TypeOK
  <2>3. stack[k - 1].dep # None /\ stack[k - 1].node \in DOMAIN nodes
    BY <2>1, <2>2 DEF TypeOK
  <2>4. stack[k - 1].dep \in Deps(stack[k - 1].node)
    BY <2>1, <2>3, FrameStays
  <2> QED
    BY <1>1, <2>1, <2>3, <2>4, LeadStays
<1>3. ASSUME k = 1, NEW j, j = stack[1].node
      PROVE  IsStart(j)'
  <2>1. j \in DOMAIN nodes /\ IsStart(j)
    BY <1>1, <1>3 DEF PathInv, TypeOK
  <2> QED
    BY <1>1, <2>1, DepsStay
<1> QED
  BY <1>2, <1>3

LEMMA ReachedStays ==
  ASSUME TypeOK, GraphInv, Settled, Grown, NEW j \in DOMAIN nodes
  PROVE  \/ IsStart(j)'
         \/ \E i \in DOMAIN nodes : \E e \in nodes[i].edges : e.to = j
         \/ \E k \in DOMAIN stack : \E e \in stack[k].edges : e.to = j
         \/ \E k \in DOMAIN stack : stack[k].node = j
BY DepsStay DEF GraphInv, ReachedInv

\* The frames and the nodes stay as they are.
LEMMA StackKept ==
  ASSUME TypeOK, TypeOK', GraphInv, Settled, UNCHANGED <<nodes, stack>>
  PROVE  FramesInv' /\ PathInv' /\ ReachedInv'
<1>1. Grown
  BY DEF Grown
<1>2. FramesInv'
  <2> SUFFICES ASSUME NEW k \in DOMAIN stack
               PROVE  LET f == stack[k]
                      IN  /\ f.todo \subseteq Deps(f.node)' /\ f.dep \in f.todo \cup {None}
                          /\ Exact(f.node, Deps(f.node) \ f.todo, f.edges)'
    BY DEF FramesInv
  <2> QED
    BY <1>1, FrameStays
<1>3. PathInv'
  <2> SUFFICES ASSUME NEW k \in DOMAIN stack
               PROVE  /\ k # 1 =>
                           /\ k - 1 \in DOMAIN stack
                           /\ Lead(stack[k - 1].node, stack[k - 1].dep, stack[k].node)'
                      /\ k = 1 => IsStart(stack[1].node)'
    BY DEF PathInv
  <2> QED
    BY <1>1, PathStays
<1>4. ReachedInv'
  BY <1>1, ReachedStays DEF ReachedInv
<1> QED
  BY <1>2, <1>3, <1>4
\* What the steps of the walk find: nothing else changes.
Still == UNCHANGED <<tree, archive, root, tops, chosen>>

LEMMA StillSettled == Still => Settled
BY DEF Still, Settled


\* Nothing of the walk changes; what was chosen or archived may be more.
LEMMA QuietGraph ==
  ASSUME TypeOK, TypeOK', GraphInv, Settled, UNCHANGED walk
  PROVE  GraphInv'
<1>1. UNCHANGED <<seeds, call, stack, nodes>>
  BY DEF walk
<1>2. PlacesInv' /\ DoneInv' /\ ChainsInv' /\ FramesInv' /\ PathInv' /\ ReachedInv'
  BY <1>1, NodesKept, StackKept
<1>3. SeedsInv'
  BY <1>1 DEF GraphInv, SeedsInv, Starts, At, Settled
<1>4. CallInv'
  <2>1. CASE call = None \/ stack = <<>>
    BY <1>1, <2>1 DEF GraphInv, CallInv, Starts, Settled
  <2>2. CASE call # None /\ stack # <<>>
    <3>1. Frame' = Frame /\ Frame.node \in DOMAIN nodes /\ Frame \in Frames
      BY <1>1, <2>2, FrameType DEF Frame
    <3>2. Frame.dep \in Dependencies
      BY <2>2, <3>1, FrameType DEF TypeOK, Frame, Frames
    <3>3. nodes[Frame.node] \in Nodes
      BY <3>1, NodeType
    <3>4. Resolved(Frame.dep) /\ call \in Targets(nodes[Frame.node], Frame.dep)
      BY <2>2 DEF GraphInv, CallInv
    <3>5. \A n \in Nodes : \A d \in Dependencies : Resolved(d) =>
            Targets(n, d)' = Targets(n, d) /\ Resolved(d)'
      BY TargetsStay
    <3>6. Resolved(Frame.dep)' /\ call \in Targets(nodes[Frame.node], Frame.dep)'
      BY <1>1, <3>1, <3>2, <3>3, <3>4, <3>5
    <3> QED
      BY <1>1, <2>2, <3>6 DEF CallInv
  <2> QED
    BY <2>1, <2>2
<1> QED
  BY <1>2, <1>3, <1>4 DEF GraphInv

LEMMA SeedGraph ==
  ASSUME TypeOK, TypeOK', GraphInv, NEW s \in seeds, CallSeed(s)
  PROVE  GraphInv'
<1>1. /\ Still /\ Settled /\ UNCHANGED <<nodes, stack>> /\ stack = <<>> /\ call = None
      /\ call' = s /\ seeds' = seeds \ {s}
  BY StillSettled DEF CallSeed, Idle, Still, world, given
<1>2. PlacesInv' /\ DoneInv' /\ ChainsInv' /\ FramesInv' /\ PathInv' /\ ReachedInv'
  BY <1>1, NodesKept, StackKept
<1>3. SeedsInv' /\ CallInv'
  BY <1>1 DEF GraphInv, SeedsInv, CallInv, Starts, At, Still
<1> QED
  BY <1>2, <1>3 DEF GraphInv

LEMMA CallGraph ==
  ASSUME TypeOK, TypeOK', GraphInv, CallDependency, phase' = "walking"
  PROVE  GraphInv'
<1>1. /\ Still /\ Settled /\ UNCHANGED <<nodes, stack, seeds>> /\ stack # <<>>
      /\ call = None /\ Ready
  BY StillSettled
  DEF CallDependency, Ready, Picked, Idle, Stop, End, Still, world, given
<1>2. call' \in Targets(nodes[Frame.node], Frame.dep)
  BY DEF CallDependency, Stop, End
<1>3. PlacesInv' /\ DoneInv' /\ ChainsInv' /\ FramesInv' /\ PathInv' /\ ReachedInv'
  BY <1>1, NodesKept, StackKept
<1>4. SeedsInv'
  BY <1>1 DEF GraphInv, SeedsInv, Starts, At, Still
<1>5. CallInv'
  <2>1. Targets(nodes[Frame.node], Frame.dep)' = Targets(nodes[Frame.node], Frame.dep)
    BY <1>1 DEF Targets, Select, IsPart, Placed, HasPackage, Manifest, Frame, Still
  <2>2. Resolved(Frame.dep)'
    BY <1>1 DEF Resolved, Ready, Frame, Still
  <2> QED
    BY <1>1, <1>2, <2>1, <2>2 DEF CallInv
<1> QED
  BY <1>3, <1>4, <1>5 DEF GraphInv
\* A frame whose dependency has been visited.
LEMMA ReturnFrame ==
  ASSUME NEW i \in Nat, NEW rest \in Seq(Frames), rest # <<>>, Return(i, rest),
         phase = "walking", phase' = "walking", rest[Len(rest)].dep \in Dependencies
  PROVE  LET top == Len(rest)
         IN  /\ top \in DOMAIN rest /\ DOMAIN stack' = DOMAIN rest /\ Len(stack') = top
             /\ \A k \in DOMAIN rest : k # top => stack'[k] = rest[k]
             /\ stack'[top].node = rest[top].node
             /\ stack'[top].dep = None
             /\ stack'[top].todo = rest[top].todo \ {rest[top].dep}
             /\ stack'[top].edges =
                  rest[top].edges \cup {[alias |-> rest[top].dep.alias, to |-> i]}
<1> DEFINE top == Len(rest)
           f == rest[top]
           g == [f EXCEPT !.dep = None, !.todo = @ \ {f.dep},
                          !.edges = @ \cup {[alias |-> f.dep.alias, to |-> i]}]
<1>1. stack' = [rest EXCEPT ![top] = g]
  BY DEF Return, End
<1>2. top \in DOMAIN rest /\ f \in Frames
  OBVIOUS
<1>3. /\ g.node = f.node /\ g.dep = None /\ g.todo = f.todo \ {f.dep}
      /\ g.edges = f.edges \cup {[alias |-> f.dep.alias, to |-> i]} /\ g \in Frames
  <2> DEFINE e == [alias |-> f.dep.alias, to |-> i]
  <2>1. e \in Edges
    BY DEF Edges, Dependencies
  <2> HIDE DEF f
  <2>2. g.node = f.node /\ g.edges = f.edges \cup {e}
    BY <1>2 DEF Frames
  <2>3. g.dep = None /\ g.todo = f.todo \ {f.dep}
    BY <1>2 DEF Frames
  <2>4. g \in Frames
    BY <1>2, <2>1 DEF Frames
  <2> QED
    BY <2>2, <2>3, <2>4
<1> HIDE DEF g
<1>4. /\ stack' \in Seq(Frames) /\ DOMAIN stack' = DOMAIN rest /\ Len(stack') = top
      /\ \A k \in DOMAIN rest : stack'[k] = IF k = top THEN g ELSE rest[k]
  BY <1>1, <1>2, <1>3
<1> QED
  BY <1>2, <1>3, <1>4

LEMMA PickGraph ==
  ASSUME TypeOK, TypeOK', GraphInv, NEW d \in Frame.todo, Pick(d)
  PROVE  GraphInv'
<1>1. /\ Still /\ Settled /\ UNCHANGED <<nodes, seeds, call>> /\ stack # <<>>
      /\ call = None
  BY StillSettled DEF Pick, Idle, Still, world, given
<1>2. PlacesInv' /\ DoneInv' /\ ChainsInv' /\ Grown
  BY <1>1, NodesKept
<1> DEFINE top == Len(stack)
<1>3. top \in DOMAIN stack /\ Frame = stack[top] /\ Frame \in Frames
  BY <1>1, FrameType DEF Frame
<1>4. /\ DOMAIN stack' = DOMAIN stack /\ Len(stack') = top
      /\ \A k \in DOMAIN stack :
           /\ stack'[k].node = stack[k].node /\ stack'[k].edges = stack[k].edges
           /\ stack'[k].todo = stack[k].todo
           /\ stack'[k].dep = IF k = top THEN d ELSE stack[k].dep
  <2>1. stack' = [stack EXCEPT ![top] = [Frame EXCEPT !.dep = d]]
    BY DEF Pick, SetFrame
  <2>2. ASSUME NEW h \in Frames
        PROVE  LET g == [h EXCEPT !.dep = d]
               IN  /\ g.node = h.node /\ g.edges = h.edges /\ g.todo = h.todo
                   /\ g.dep = d
    BY DEF Frames
  <2>3. DOMAIN stack' = DOMAIN stack /\ Len(stack') = top
    BY PickEffect
  <2>4. \A k \in DOMAIN stack :
          stack'[k] = IF k = top THEN [Frame EXCEPT !.dep = d] ELSE stack[k]
    BY <1>3, <2>1 DEF TypeOK
  <2> HIDE DEF top
  <2> QED
    BY <1>3, <2>2, <2>3, <2>4
<1>5. FramesInv'
  <2> SUFFICES ASSUME NEW k \in DOMAIN stack
               PROVE  /\ (stack[k].todo \subseteq Deps(stack[k].node))'
                      /\ (stack[k].dep \in stack[k].todo \cup {None})'
                      /\ Exact(stack[k].node, Deps(stack[k].node) \ stack[k].todo,
                               stack[k].edges)'
    BY <1>4 DEF FramesInv
  <2>1. stack'[k].dep \in stack'[k].todo \cup {None}
    BY <1>2, <1>3, <1>4, <1>1, FrameStays
  <2> QED
    BY <1>1, <1>2, <1>4, <2>1, FrameStays
<1>6. PathInv'
  <2> SUFFICES ASSUME NEW k \in DOMAIN stack
               PROVE  /\ k # 1 => /\ k - 1 \in DOMAIN stack
                                  /\ Lead(stack[k - 1].node, stack[k - 1].dep,
                                          stack[k].node)'
                      /\ k = 1 => IsStart(stack[1].node)'
    BY <1>4 DEF PathInv
  <2>1. k - 1 # top
    BY <1>3 DEF TypeOK
  <2> QED
    BY <1>1, <1>2, <1>4, <2>1, PathStays
<1>7. ReachedInv'
  BY <1>1, <1>2, <1>4, ReachedStays DEF ReachedInv
<1>8. SeedsInv' /\ CallInv'
  BY <1>1 DEF GraphInv, SeedsInv, CallInv, Starts, At, Still
<1> QED
  BY <1>2, <1>5, <1>6, <1>7, <1>8 DEF GraphInv

\* One dependency more has its edge.
LEMMA OneMoreEdge ==
  ASSUME NEW i, NEW D, NEW todo \in SUBSET D, NEW es, Exact(i, D \ todo, es),
         NEW d \in todo, NEW j, Lead(i, d, j)
  PROVE  Exact(i, D \ (todo \ {d}), es \cup {[alias |-> d.alias, to |-> j]})
<1>1. Edge(i, d, [alias |-> d.alias, to |-> j])
  BY DEF Edge
<1> QED
  BY <1>1 DEF Exact

\* A frame whose dependency has been visited has one edge more.
LEMMA FrameReturned ==
  ASSUME TypeOK, TypeOK', GraphInv, Settled, Grown, NEW k \in DOMAIN stack,
         stack[k].dep # None, NEW i, Lead(stack[k].node, stack[k].dep, i),
         stack'[k].node = stack[k].node, stack'[k].dep = None,
         stack'[k].todo = stack[k].todo \ {stack[k].dep},
         stack'[k].edges = stack[k].edges \cup {[alias |-> stack[k].dep.alias, to |-> i]}
  PROVE  /\ (stack[k].todo \subseteq Deps(stack[k].node))'
         /\ (stack[k].dep \in stack[k].todo \cup {None})'
         /\ Exact(stack[k].node, Deps(stack[k].node) \ stack[k].todo, stack[k].edges)'
<1>1. PICK n, todo, d, D, es :
        /\ n \in DOMAIN nodes /\ n = stack[k].node /\ todo = stack[k].todo
        /\ d = stack[k].dep /\ D = Deps(n)
        /\ es = stack[k].edges \cup {[alias |-> d.alias, to |-> i]}
  BY DEF TypeOK
<1>2. todo \subseteq D /\ d \in todo /\ Deps(n)' = D
  BY <1>1, FrameStays
<1>3. Exact(n, D \ todo, stack[k].edges)
  BY <1>1 DEF GraphInv, FramesInv
<1>4. Exact(n, D \ (todo \ {d}), es)
  BY <1>1, <1>2, <1>3, OneMoreEdge
<1>5. PlacesInv
  BY DEF GraphInv
<1>6. Exact(n, D \ (todo \ {d}), es)'
  BY <1>1, <1>2, <1>4, <1>5, ExactStays
<1>7. /\ stack'[k].node = n /\ stack'[k].todo = todo \ {d}
      /\ stack'[k].edges = es /\ stack'[k].dep = None
  BY <1>1
<1> QED
  BY <1>2, <1>6, <1>7

LEMMA ReuseGraph ==
  ASSUME TypeOK, TypeOK', GraphInv, Reuse, phase' = "walking"
  PROVE  GraphInv'
<1>1. /\ Still /\ Settled /\ UNCHANGED <<nodes, seeds>> /\ call # None
      /\ call' = None /\ phase = "walking"
  BY StillSettled DEF Reuse, Calling, Still, world, given
<1>2. PlacesInv' /\ DoneInv' /\ ChainsInv' /\ Grown
  BY <1>1, NodesKept
<1>3. PICK i \in At(call) : nodes[i].done /\ Return(i, stack)
  BY DEF Reuse
<1>4. i \in DOMAIN nodes /\ i \in Nat
  BY <1>3, NodeType DEF At
<1>5. SeedsInv' /\ CallInv'
  BY <1>1, <1>3 DEF GraphInv, SeedsInv, CallInv, Starts, At, Still
<1>6. CASE stack = <<>>
  <2>1. stack' = stack
    BY <1>3, <1>6 DEF Return
  <2> QED
    BY <1>1, <1>2, <1>5, <2>1, StackKept DEF GraphInv
<1>7. CASE stack # <<>>
  <2> DEFINE top == Len(stack)
             d == stack[top].dep
  <2>1. /\ top \in DOMAIN stack /\ Frame = stack[top] /\ d # None /\ d \in Dependencies
        /\ stack[top].node \in DOMAIN nodes
    <3>1. top \in DOMAIN stack /\ Frame = stack[top] /\ Frame \in Frames
      BY <1>7, FrameType DEF Frame
    <3>2. d # None
      BY <1>1, <3>1 DEF TypeOK
    <3> QED
      BY <1>7, <3>1, <3>2, FrameType DEF Frames
  <2>2. /\ DOMAIN stack' = DOMAIN stack /\ Len(stack') = top
        /\ \A k \in DOMAIN stack : k # top => stack'[k] = stack[k]
        /\ stack'[top].node = stack[top].node
        /\ stack'[top].dep = None
        /\ stack'[top].todo = stack[top].todo \ {d}
        /\ stack'[top].edges = stack[top].edges \cup {[alias |-> d.alias, to |-> i]}
    BY <1>1, <1>3, <1>4, <1>7, <2>1, ReturnFrame DEF TypeOK
  <2>3. Lead(stack[top].node, d, i)
    BY <1>1, <1>3, <1>7, <2>1 DEF GraphInv, CallInv, Lead
  <2> HIDE DEF top
  <2>4. FramesInv'
    <3> SUFFICES ASSUME NEW k \in DOMAIN stack
                 PROVE  /\ (stack[k].todo \subseteq Deps(stack[k].node))'
                        /\ (stack[k].dep \in stack[k].todo \cup {None})'
                        /\ Exact(stack[k].node, Deps(stack[k].node) \ stack[k].todo,
                                 stack[k].edges)'
      BY <2>2 DEF FramesInv
    <3>1. CASE k # top
      <4>1. stack[k].dep \in stack[k].todo \cup {None}
        BY <1>1, <1>2, FrameStays
      <4> QED
        BY <1>1, <1>2, <2>2, <3>1, <4>1, FrameKept
    <3>2. CASE k = top
      BY <1>1, <1>2, <2>1, <2>2, <2>3, <3>2, FrameReturned
    <3> QED
      BY <3>1, <3>2
  <2>5. PathInv'
    <3> SUFFICES ASSUME NEW k \in DOMAIN stack
                 PROVE  /\ k # 1 => /\ k - 1 \in DOMAIN stack
                                    /\ Lead(stack[k - 1].node, stack[k - 1].dep,
                                            stack[k].node)'
                        /\ k = 1 => IsStart(stack[1].node)'
      BY <2>2 DEF PathInv
    <3>1. k - 1 # top /\ stack'[k].node = stack[k].node
      BY <2>1, <2>2 DEF TypeOK, top
    <3>2. \A m \in DOMAIN stack : stack'[m].node = stack[m].node
      BY <2>2
    <3> QED
      BY <1>1, <1>2, <2>2, <3>1, <3>2, PathStays
  <2>6. ReachedInv'
    <3>1. \A k \in DOMAIN stack : /\ stack'[k].node = stack[k].node
                                  /\ stack[k].edges \subseteq stack'[k].edges
      BY <2>2
    <3> QED
      BY <1>1, <1>2, <2>2, <3>1, ReachedStays DEF ReachedInv
  <2> QED
    BY <1>2, <1>5, <2>4, <2>5, <2>6 DEF GraphInv
<1> QED
  BY <1>6, <1>7
\* The new package is reached from the one on top of the stack.
LEMMA VisitLead ==
  ASSUME TypeOK, TypeOK', GraphInv, Visit, stack # <<>>,
         NEW i, i = Len(nodes) + 1, NEW n, n = Frame.node, NEW d, d = Frame.dep
  PROVE  n \in DOMAIN nodes /\ d \in Deps(n) /\ Lead(n, d, i)'
<1>1. /\ Still /\ Settled /\ call # None /\ i \in DOMAIN nodes'
      /\ nodes'[i].place = call.place /\ nodes'[i].origin = call.origin
      /\ \A j \in DOMAIN nodes : nodes'[j] = nodes[j] /\ j \in DOMAIN nodes'
  BY StillSettled, VisitEffect DEF Visit, Calling, Still, world, given, TypeOK
<1>2. Grown /\ PlacesInv
  BY <1>1 DEF Grown, GraphInv
<1>3. /\ n \in DOMAIN nodes /\ Len(stack) \in DOMAIN stack
      /\ Frame = stack[Len(stack)] /\ d \in Frame.todo /\ d # None
  <2>1. /\ n \in DOMAIN nodes /\ Len(stack) \in DOMAIN stack
        /\ Frame = stack[Len(stack)]
    BY FrameType DEF Frame
  <2>2. d # None
    BY <1>1, <2>1 DEF TypeOK
  <2> QED
    BY <2>1, <2>2 DEF GraphInv, FramesInv
<1>4. d \in Deps(n)
  BY <1>3 DEF GraphInv, FramesInv
<1>5. PICK s : s = call /\ s \in Targets(nodes[n], d) /\ Resolved(d)
  BY <1>1 DEF GraphInv, CallInv
<1>6. d \in Dependencies
  BY <1>2, <1>1, <1>3, <1>4, DepsStay
<1>7. Resolved(d)' /\ \A x \in Nodes : Targets(x, d)' = Targets(x, d)
  <2>1. nodes[n] \in Nodes
    BY <1>3, NodeType
  <2> QED
    BY <1>1, <1>5, <1>6, <2>1, TargetsStay
<1>8. nodes[n] \in Nodes /\ nodes'[n] = nodes[n]
  BY <1>1, <1>3, NodeType
<1>9. s \in Targets(nodes[n], d)'
  BY <1>5, <1>7, <1>8
<1>10. i \in At(s)'
  BY <1>1, <1>5 DEF At
<1> QED
  BY <1>3, <1>4, <1>7, <1>9, <1>10 DEF Lead

LEMMA VisitGraph ==
  ASSUME TypeOK, TypeOK', GraphInv, Visit
  PROVE  GraphInv'
<1>1. PICK i, t, c, m : /\ i = Len(nodes) + 1 /\ t = Len(stack) + 1
                        /\ c = call /\ m = Manifest(c.place)
  OBVIOUS
<1>2. /\ Still /\ Settled /\ UNCHANGED seeds /\ c # None /\ call' = None
      /\ At(c) = {} /\ m # None /\ m.package # None
  BY <1>1, StillSettled DEF Visit, Calling, HasPackage, Still, world, given
<1>3. /\ i \in Nat /\ i \notin DOMAIN nodes /\ DOMAIN nodes' = DOMAIN nodes \cup {i}
      /\ \A j \in DOMAIN nodes : nodes'[j] = nodes[j]
      /\ t \notin DOMAIN stack /\ DOMAIN stack' = DOMAIN stack \cup {t}
      /\ \A k \in DOMAIN stack : stack'[k] = stack[k]
      /\ stack'[t].node = i /\ stack'[t].edges = {}
      /\ ~nodes'[i].done /\ nodes'[i].edges = {}
  BY <1>1, VisitEffect
<1>4. /\ nodes'[i].place = c.place /\ nodes'[i].origin = c.origin
      /\ nodes'[i].chain =
           Append(IF stack = <<>> THEN <<>> ELSE nodes[Frame.node].chain, i)
      /\ stack'[t].todo = m.deps /\ stack'[t].dep = None
  BY <1>1 DEF Visit, TypeOK
<1>5. Grown /\ PlacesInv
  BY <1>3 DEF Grown, GraphInv
<1>6. Manifest(c.place)' = m
  BY <1>1, <1>2 DEF Manifest, Still
<1>7. Deps(i)' = m.deps /\ Manifest(nodes[i].place)' = m
  BY <1>4, <1>6 DEF Deps
<1>8. PlacesInv'
  <2>1. \A j \in DOMAIN nodes' : (Manifest(nodes[j].place) # None)'
    <3>1. \A j \in DOMAIN nodes : (Manifest(nodes[j].place) # None)'
      BY <1>2, <1>5, DepsStay DEF PlacesInv
    <3> QED
      BY <1>2, <1>3, <1>7, <3>1
  <2>2. \A j \in DOMAIN nodes :
          ~(nodes[j].place = c.place /\ nodes[j].origin = c.origin)
    BY <1>2 DEF At
  <2>3. \A j, k \in DOMAIN nodes' :
          nodes'[j].place = nodes'[k].place /\ nodes'[j].origin = nodes'[k].origin
            => j = k
    BY <1>3, <1>4, <1>5, <2>2 DEF PlacesInv
  <2> QED
    BY <2>1, <2>3 DEF PlacesInv
<1>9. SeedsInv'
  <2>1. i \in At(c)'
    BY <1>3, <1>4 DEF At
  <2>2. \A s : At(s) # {} => At(s)' # {}
    BY <1>5, AtStays
  <2>3. Starts' = Starts
    BY <1>2 DEF Starts, Still
  <2> QED
    BY <1>1, <1>2, <2>1, <2>2, <2>3 DEF GraphInv, SeedsInv
<1>10. CallInv'
  BY <1>2 DEF CallInv
<1>11. FramesInv'
  <2> SUFFICES ASSUME NEW k \in DOMAIN stack'
               PROVE  /\ (stack[k].todo \subseteq Deps(stack[k].node))'
                      /\ (stack[k].dep \in stack[k].todo \cup {None})'
                      /\ Exact(stack[k].node, Deps(stack[k].node) \ stack[k].todo,
                               stack[k].edges)'
    BY DEF FramesInv
  <2>1. CASE k \in DOMAIN stack
    <3>1. stack[k].dep \in stack[k].todo \cup {None}
      BY <1>2, <1>5, <2>1, FrameStays
    <3> QED
      BY <1>2, <1>3, <1>5, <2>1, <3>1, FrameKept
  <2>2. CASE k = t
    <3>1. Exact(i, {}, {})'
      BY DEF Exact
    <3>2. m.deps \ m.deps = {}
      OBVIOUS
    <3> QED
      BY <1>3, <1>4, <1>7, <2>2, <3>1, <3>2
  <2> QED
    BY <1>3, <2>1, <2>2
<1>12. DoneInv'
  <2> SUFFICES ASSUME NEW j \in DOMAIN nodes', nodes'[j].done
               PROVE  Exact(j, Deps(j), nodes[j].edges)'
    BY DEF DoneInv
  <2>1. j \in DOMAIN nodes /\ nodes'[j] = nodes[j] /\ nodes[j].done
    BY <1>3
  <2>2. Exact(j, Deps(j), nodes[j].edges)
    BY <2>1 DEF GraphInv, DoneInv
  <2>3. Deps(j)' = Deps(j)
    BY <1>2, <1>5, <2>1, DepsStay
  <2>4. \A D \in SUBSET Deps(j) : \A es : Exact(j, D, es) => Exact(j, D, es)'
    BY <1>2, <1>5, <2>1, ExactStays
  <2> QED
    BY <2>1, <2>2, <2>3, <2>4
<1>13. /\ Len(stack) \in Nat /\ Len(nodes) \in Nat
       /\ \A k \in DOMAIN stack : k \in 1..Len(stack)
       /\ stack = <<>> <=> Len(stack) = 0
  BY DEF TypeOK
<1>14. stack = <<>> => IsStart(i)'
  <2> SUFFICES ASSUME stack = <<>> PROVE (nodes[i].place \in Seeds(root))'
    BY DEF IsStart
  <2>1. c \in Starts
    BY <1>1, <1>2 DEF GraphInv, CallInv
  <2>2. c.place \in Seeds(root)
    BY <2>1 DEF Starts
  <2> QED
    BY <1>2, <1>4, <2>2 DEF Still
<1>15. PathInv'
  <2> SUFFICES ASSUME NEW k \in DOMAIN stack'
               PROVE  /\ k # 1 => /\ k - 1 \in DOMAIN stack'
                                  /\ Lead(stack[k - 1].node, stack[k - 1].dep,
                                          stack[k].node)'
                      /\ k = 1 => IsStart(stack[1].node)'
    BY DEF PathInv
  <2>1. CASE k \in DOMAIN stack
    BY <1>2, <1>3, <1>5, <2>1, PathStays
  <2>2. CASE k = t /\ stack = <<>>
    BY <1>1, <1>3, <1>13, <1>14, <2>2
  <2>3. CASE k = t /\ stack # <<>>
    <3>1. PICK n, d : n = Frame.node /\ d = Frame.dep
      OBVIOUS
    <3>2. Lead(n, d, i)'
      BY <1>1, <2>3, <3>1, VisitLead
    <3>3. k - 1 = Len(stack) /\ k - 1 \in DOMAIN stack /\ k # 1
      BY <1>1, <1>13, <2>3 DEF TypeOK
    <3>4. stack'[k - 1].node = n /\ stack'[k - 1].dep = d /\ stack'[k].node = i
      BY <1>3, <2>3, <3>1, <3>3 DEF Frame
    <3> QED
      BY <1>3, <3>2, <3>3, <3>4
  <2> QED
    BY <1>3, <2>1, <2>2, <2>3
<1>16. ReachedInv'
  <2> SUFFICES ASSUME NEW j \in DOMAIN nodes'
               PROVE  \/ IsStart(j)'
                      \/ \E x \in DOMAIN nodes' : \E e \in nodes'[x].edges : e.to = j
                      \/ \E k \in DOMAIN stack' : \E e \in stack'[k].edges : e.to = j
                      \/ \E k \in DOMAIN stack' : stack'[k].node = j
    BY DEF ReachedInv
  <2>1. CASE j = i
    BY <1>3, <2>1
  <2>2. CASE j \in DOMAIN nodes
    BY <1>2, <1>3, <1>5, <2>2, ReachedStays
  <2> QED
    BY <1>3, <2>1, <2>2
<1>17. ChainsInv'
  <2> SUFFICES ASSUME NEW j \in DOMAIN nodes'
               PROVE  /\ nodes'[j].chain # <<>>
                      /\ nodes'[j].chain[Len(nodes'[j].chain)] = j
                      /\ Connected(nodes[j].chain)'
    BY DEF ChainsInv
  <2>1. \A x \in Seq(Nat) : x # <<>> /\ Connected(x) => Connected(x)'
    BY <1>2, <1>5, ConnectedStays
  <2>2. CASE j \in DOMAIN nodes
    BY <1>3, <2>1, <2>2, NodeType DEF GraphInv, ChainsInv
  <2>3. CASE j = i /\ stack = <<>>
    <3>1. nodes'[j].chain = <<i>>
      BY <1>4, <2>3
    <3>2. Connected(<<i>>)'
      BY <1>3, <1>14, <2>3 DEF Connected
    <3> QED
      BY <2>3, <3>1, <3>2
  <2>4. CASE j = i /\ stack # <<>>
    <3>1. PICK n, d, a : n = Frame.node /\ d = Frame.dep /\ a = nodes[n].chain
      OBVIOUS
    <3>2. n \in DOMAIN nodes /\ d \in Deps(n) /\ Lead(n, d, i)'
      BY <1>1, <2>4, <3>1, VisitLead
    <3>3. a \in Seq(Nat) /\ a # <<>> /\ a[Len(a)] = n /\ Connected(a)
      BY <3>1, <3>2, NodeType DEF GraphInv, ChainsInv
    <3>4. nodes'[j].chain = Append(a, i)
      BY <1>4, <2>4, <3>1
    <3>5. Connected(a)' /\ Deps(n)' = Deps(n)
      BY <1>2, <1>5, <2>1, <3>2, <3>3, DepsStay
    <3>12. PICK b, q : b = Append(a, i) /\ q = Len(a)
      OBVIOUS
    <3>6. /\ q \in Nat \ {0} /\ Len(b) = q + 1 /\ DOMAIN b = 1..(q + 1)
          /\ \A k \in 1..q : b[k] = a[k]
          /\ b[q + 1] = i /\ b # <<>> /\ a[q] = n
      BY <1>3, <3>3, <3>12
    <3>13. /\ \A k \in 1..q : a[k] \in DOMAIN nodes'
           /\ IsStart(a[1])'
           /\ \A k \in 1..(q - 1) : \E x \in Deps(a[k])' : Lead(a[k], x, a[k + 1])'
      <4>1. DOMAIN a = 1..q /\ Len(a) = q
        BY <3>3, <3>12
      <4>2. /\ \A k \in DOMAIN a : a[k] \in DOMAIN nodes'
            /\ IsStart(a[1])'
            /\ \A k \in 1..(Len(a) - 1) : \E x \in Deps(a[k])' : Lead(a[k], x, a[k + 1])'
        BY <3>5 DEF Connected
      <4> QED
        BY <4>1, <4>2
    <3>7. \A k \in DOMAIN b : b[k] \in DOMAIN nodes'
      <4> SUFFICES ASSUME NEW k \in DOMAIN b PROVE b[k] \in DOMAIN nodes'
        OBVIOUS
      <4>1. CASE k \in 1..q
        BY <3>6, <3>13, <4>1
      <4>2. CASE k = q + 1
        BY <1>3, <3>6, <4>2
      <4> QED
        BY <3>6, <4>1, <4>2
    <3>8. IsStart(b[1])'
      <4>1. b[1] = a[1]
        BY <3>6
      <4> QED
        BY <3>13, <4>1
    <3>9. ASSUME NEW k \in 1..q
          PROVE  \E x \in Deps(b[k])' : Lead(b[k], x, b[k + 1])'
      <4>1. CASE k = q
        <5>1. b[k] = n /\ b[k + 1] = i
          BY <3>6, <4>1
        <5> QED
          BY <3>2, <3>5, <5>1
      <4>2. CASE k # q
        <5>1. k \in 1..(q - 1) /\ b[k] = a[k]
          BY <3>6, <4>2
        <5>2. b[k + 1] = a[k + 1]
          BY <3>6, <5>1
        <5> QED
          BY <3>13, <5>1, <5>2
      <4> QED
        BY <4>1, <4>2
    <3>14. Len(b) - 1 = q
      BY <3>6
    <3>10. Connected(b)'
      BY <3>7, <3>8, <3>9, <3>14 DEF Connected
    <3>11. nodes'[j].chain = b
      BY <3>4, <3>12
    <3> QED
      BY <2>4, <3>6, <3>10, <3>11
  <2> QED
    BY <1>3, <2>2, <2>3, <2>4
<1> QED
  BY <1>8, <1>9, <1>10, <1>11, <1>12, <1>15, <1>16, <1>17 DEF GraphInv

\* What is left below the package whose dependencies are visited.
LEMMA LeaveRest ==
  ASSUME TypeOK, GraphInv, Leave, phase' = "walking",
         NEW n, n = Frame.node, NEW top, top = Len(stack) - 1
  PROVE  /\ stack # <<>> /\ Len(stack) = top + 1 /\ top \in Nat
         /\ n \in DOMAIN nodes /\ n = stack[top + 1].node
         /\ DOMAIN stack' = 1..top /\ \A k \in 1..top : k \in DOMAIN stack
         /\ \A k \in 1..top : k # top => stack'[k] = stack[k]
         /\ top # 0 =>
              /\ stack[top].dep # None
              /\ Lead(stack[top].node, stack[top].dep, n)
              /\ stack'[top].node = stack[top].node
              /\ stack'[top].dep = None
              /\ stack'[top].todo = stack[top].todo \ {stack[top].dep}
              /\ stack'[top].edges =
                   stack[top].edges \cup {[alias |-> stack[top].dep.alias, to |-> n]}
<1>1. /\ stack # <<>> /\ Len(stack) \in DOMAIN stack /\ Len(stack) \in Nat \ {0}
      /\ n = stack[Len(stack)].node /\ n \in DOMAIN nodes /\ n \in Nat
  BY LeaveEffect, FrameType DEF Frame
<1>2. Len(stack) = top + 1 /\ top \in Nat
  BY <1>1
<1>3. PICK rest : rest = SubSeq(stack, 1, Len(stack) - 1)
  OBVIOUS
<1>4. /\ rest \in Seq(Frames) /\ Len(rest) = top /\ DOMAIN rest = 1..top
      /\ \A k \in 1..top : rest[k] = stack[k] /\ k \in DOMAIN stack /\ k < Len(stack)
  BY <1>1, <1>2, <1>3, ButLast DEF TypeOK
<1>5. Return(n, rest) /\ phase = "walking"
  BY <1>3 DEF Leave, Idle
<1>6. CASE top = 0
  <2>1. rest = <<>>
    BY <1>4, <1>6
  <2>2. stack' = rest
    BY <1>5, <2>1 DEF Return
  <2> QED
    BY <1>1, <1>2, <1>4, <1>6, <2>2
<1>7. CASE top # 0
  <2>1. top \in 1..top /\ top \in DOMAIN stack /\ rest[top] = stack[top] /\ rest # <<>>
    BY <1>2, <1>4, <1>7
  <2>2. stack[top].dep \in Dependencies /\ stack[top].dep # None
    <3>1. stack[top] \in Frames /\ top < Len(stack)
      BY <1>2, <2>1 DEF TypeOK
    <3>2. stack[top].dep # None
      BY <2>1, <3>1 DEF TypeOK
    <3> QED
      BY <3>1, <3>2 DEF Frames
  <2>3. /\ DOMAIN stack' = 1..top
        /\ \A k \in 1..top : k # top => stack'[k] = rest[k]
        /\ stack'[top].node = rest[top].node
        /\ stack'[top].dep = None
        /\ stack'[top].todo = rest[top].todo \ {rest[top].dep}
        /\ stack'[top].edges =
             rest[top].edges \cup {[alias |-> rest[top].dep.alias, to |-> n]}
    BY <1>1, <1>4, <1>5, <2>1, <2>2, ReturnFrame
  <2>4. Lead(stack[top].node, stack[top].dep, n)
    <3>1. top + 1 \in DOMAIN stack /\ top + 1 # 1 /\ (top + 1) - 1 = top
      BY <1>1, <1>2, <1>7
    <3> QED
      BY <1>1, <1>2, <3>1 DEF GraphInv, PathInv
  <2> QED
    BY <1>1, <1>2, <1>4, <2>1, <2>2, <2>3, <2>4
<1> QED
  BY <1>6, <1>7

\* Of the packages only the one that is left changes.
LEMMA LeaveNodes ==
  ASSUME TypeOK, DepthFirst, Leave, NEW n, n = Frame.node
  PROVE  /\ n \in DOMAIN nodes /\ DOMAIN nodes' = DOMAIN nodes /\ Grown
         /\ nodes'[n].edges = Frame.edges /\ nodes[n].edges = {}
         /\ \A i \in DOMAIN nodes :
              /\ i # n => nodes'[i].edges = nodes[i].edges /\ nodes'[i].done = nodes[i].done
              /\ nodes'[i].name = nodes[i].name
         /\ \A s : At(s)' = At(s)
<1>1. n \in DOMAIN nodes /\ DOMAIN nodes' = DOMAIN nodes
  BY LeaveEffect
<1>2. \A i \in DOMAIN nodes :
        /\ nodes'[i].place = nodes[i].place /\ nodes'[i].origin = nodes[i].origin
        /\ nodes'[i].chain = nodes[i].chain
  BY <1>1 DEF Leave, TypeOK, Nodes
<1>4. \A i \in DOMAIN nodes : i # n => nodes'[i] = nodes[i]
  BY <1>1 DEF Leave, TypeOK
<1>3. nodes[n].edges = {}
  <2>1. ~nodes[n].done
    BY LeaveEffect, FrameType DEF DepthFirst, Frame
  <2> QED
    BY <1>1, <2>1 DEF DepthFirst
<1> QED
  BY <1>1, <1>2, <1>3, <1>4, LeaveEffect DEF Grown, At

LEMMA LeaveGraph ==
  ASSUME TypeOK, TypeOK', GraphInv, DepthFirst, Leave, phase' = "walking"
  PROVE  GraphInv'
<1>1. /\ Still /\ Settled /\ UNCHANGED <<seeds, call>> /\ call = None
      /\ Frame.todo = {}
  BY StillSettled DEF Leave, Idle, Still, world, given
<1>2. PICK n, top, es : n = Frame.node /\ top = Len(stack) - 1 /\ es = Frame.edges
  OBVIOUS
<1>3. /\ n \in DOMAIN nodes /\ DOMAIN nodes' = DOMAIN nodes /\ Grown
      /\ nodes'[n].edges = es /\ nodes[n].edges = {}
      /\ \A i \in DOMAIN nodes :
           i # n => nodes'[i].edges = nodes[i].edges /\ nodes'[i].done = nodes[i].done
      /\ \A s : At(s)' = At(s)
  BY <1>2, LeaveNodes
<1>4. /\ stack # <<>> /\ Len(stack) = top + 1 /\ top \in Nat
      /\ n = stack[top + 1].node /\ es = stack[top + 1].edges
      /\ stack[top + 1].todo = {}
      /\ DOMAIN stack' = 1..top /\ \A k \in 1..top : k \in DOMAIN stack
      /\ \A k \in 1..top : k # top => stack'[k] = stack[k]
      /\ top # 0 =>
           /\ stack[top].dep # None
           /\ Lead(stack[top].node, stack[top].dep, n)
           /\ stack'[top].node = stack[top].node
           /\ stack'[top].dep = None
           /\ stack'[top].todo = stack[top].todo \ {stack[top].dep}
           /\ stack'[top].edges =
                stack[top].edges \cup {[alias |-> stack[top].dep.alias, to |-> n]}
  BY <1>1, <1>2, LeaveRest DEF Frame
<1>5. \A k \in DOMAIN stack : k \in 1..top \/ k = top + 1
  BY <1>4 DEF TypeOK
<1>6. \A k \in 1..top : /\ stack'[k].node = stack[k].node
                        /\ stack[k].edges \subseteq stack'[k].edges
  BY <1>4
<1>7. PlacesInv /\ top + 1 \in DOMAIN stack
  BY <1>4, FrameType DEF GraphInv
<1>8. PlacesInv'
  <2>1. \A i \in DOMAIN nodes : Manifest(nodes[i].place)' = Manifest(nodes[i].place)
    BY <1>1, <1>3, <1>7, DepsStay
  <2> QED
    BY <1>3, <1>7, <2>1 DEF PlacesInv, Grown
<1>9. SeedsInv' /\ CallInv'
  BY <1>1, <1>3 DEF GraphInv, SeedsInv, CallInv, Starts, Still
<1>10. DoneInv'
  <2> SUFFICES ASSUME NEW i \in DOMAIN nodes, nodes'[i].done
               PROVE  Exact(i, Deps(i), nodes[i].edges)'
    BY <1>3 DEF DoneInv
  <2>1. Deps(i)' = Deps(i)
    BY <1>1, <1>3, <1>7, DepsStay
  <2>2. \A D \in SUBSET Deps(i) : \A x : Exact(i, D, x) => Exact(i, D, x)'
    BY <1>1, <1>3, <1>7, ExactStays
  <2>3. CASE i # n
    <3>1. Exact(i, Deps(i), nodes[i].edges) /\ nodes'[i].edges = nodes[i].edges
      BY <1>3, <2>3 DEF GraphInv, DoneInv
    <3> QED
      BY <2>1, <2>2, <3>1
  <2>4. CASE i = n
    <3>1. Exact(n, Deps(n) \ {}, es)
      BY <1>4, <1>7 DEF GraphInv, FramesInv
    <3>2. Deps(n) \ {} = Deps(n)
      OBVIOUS
    <3> QED
      BY <1>3, <2>1, <2>2, <2>4, <3>1, <3>2
  <2> QED
    BY <2>3, <2>4
<1>11. FramesInv'
  <2> SUFFICES ASSUME NEW k \in 1..top
               PROVE  /\ (stack[k].todo \subseteq Deps(stack[k].node))'
                      /\ (stack[k].dep \in stack[k].todo \cup {None})'
                      /\ Exact(stack[k].node, Deps(stack[k].node) \ stack[k].todo,
                               stack[k].edges)'
    BY <1>4 DEF FramesInv
  <2>1. CASE k # top
    <3>1. k \in DOMAIN stack /\ stack'[k] = stack[k]
      BY <1>4, <2>1
    <3>2. stack[k].dep \in stack[k].todo \cup {None}
      BY <1>1, <1>3, <3>1, FrameStays
    <3> QED
      BY <1>1, <1>3, <3>1, <3>2, FrameKept
  <2>2. CASE k = top
    <3>1. k \in DOMAIN stack /\ top # 0
      BY <1>4, <2>2
    <3> QED
      BY <1>1, <1>3, <1>4, <2>2, <3>1, FrameReturned
  <2> QED
    BY <2>1, <2>2
<1>12. PathInv'
  <2> SUFFICES ASSUME NEW k \in 1..top
               PROVE  /\ k # 1 => /\ k - 1 \in 1..top
                                  /\ (Lead(stack[k - 1].node, stack[k - 1].dep,
                                           stack[k].node))'
                      /\ k = 1 => IsStart(stack[1].node)'
    BY <1>4 DEF PathInv
  <2>1. k \in DOMAIN stack
    BY <1>4
  <2>2. CASE k # 1
    <3>1. k - 1 \in 1..top /\ k - 1 # top
      BY <1>4, <2>2
    <3>2. stack'[k - 1] = stack[k - 1] /\ stack'[k].node = stack[k].node
      BY <1>4, <1>6, <3>1
    <3> QED
      BY <1>1, <1>3, <2>1, <2>2, <3>1, <3>2, PathStays
  <2>3. CASE k = 1
    <3>1. stack'[1].node = stack[1].node
      BY <1>6, <2>3
    <3> QED
      BY <1>1, <1>3, <2>1, <2>3, <3>1, PathStays
  <2> QED
    BY <2>2, <2>3
<1>13. ReachedInv'
  <2> SUFFICES ASSUME NEW j \in DOMAIN nodes
               PROVE  \/ IsStart(j)'
                      \/ \E i \in DOMAIN nodes : \E e \in nodes'[i].edges : e.to = j
                      \/ \E k \in 1..top : \E e \in stack'[k].edges : e.to = j
                      \/ \E k \in 1..top : stack'[k].node = j
    BY <1>3, <1>4 DEF ReachedInv
  <2>1. CASE \E i \in DOMAIN nodes : \E e \in nodes[i].edges : e.to = j
    BY <1>3, <2>1
  <2>2. CASE \E k \in DOMAIN stack : \E e \in stack[k].edges : e.to = j
    BY <1>3, <1>4, <1>5, <1>6, <2>2
  <2>3. ASSUME NEW k \in DOMAIN stack, stack[k].node = j
        PROVE  \/ IsStart(j)'
               \/ \E m \in 1..top : \E e \in stack'[m].edges : e.to = j
               \/ \E m \in 1..top : stack'[m].node = j
    <3>1. CASE k \in 1..top
      BY <1>6, <2>3, <3>1
    <3>2. CASE k = top + 1 /\ top # 0
      <4>1. PICK e : e = [alias |-> stack[top].dep.alias, to |-> n]
        OBVIOUS
      <4>2. top \in 1..top /\ e \in stack'[top].edges /\ e.to = j
        BY <1>4, <2>3, <3>2, <4>1
      <4> QED
        BY <4>2
    <3>3. CASE k = top + 1 /\ top = 0
      BY <1>1, <1>3, <1>4, <2>3, <3>3, PathStays
    <3> QED
      BY <1>5, <3>1, <3>2, <3>3
  <2> QED
    BY <1>1, <1>3, <2>1, <2>2, <2>3, ReachedStays
<1>14. ChainsInv'
  <2> SUFFICES ASSUME NEW i \in DOMAIN nodes
               PROVE  /\ nodes'[i].chain # <<>>
                      /\ nodes'[i].chain[Len(nodes'[i].chain)] = i
                      /\ Connected(nodes[i].chain)'
    BY <1>3 DEF ChainsInv
  <2>1. \A c \in Seq(Nat) : c # <<>> /\ Connected(c) => Connected(c)'
    BY <1>1, <1>3, <1>7, ConnectedStays
  <2>2. nodes'[i].chain = nodes[i].chain
    BY <1>3 DEF Grown
  <2> QED
    BY <2>1, <2>2, NodeType DEF GraphInv, ChainsInv
<1> QED
  BY <1>8, <1>9, <1>10, <1>11, <1>12, <1>13, <1>14 DEF GraphInv

\* A resolution starts with the project's packages and nothing else.
LEMMA BeginGraph ==
  ASSUME TypeOK', NEW l \in BOOLEAN, Begin(l), phase' = "walking"
  PROVE  GraphInv'
<1>1. /\ call' = None /\ stack' = <<>> /\ nodes' = <<>> /\ root' = tree[Root]
      /\ seeds' = {[place |-> p, origin |-> Workspace] : p \in Seeds(root')}
  BY DEF Begin
<1>2. seeds' = Starts'
  BY <1>1 DEF Starts
<1>3. DOMAIN nodes' = {} /\ DOMAIN stack' = {}
  BY <1>1
<1>4. ASSUME NEW s \in Starts'
      PROVE  s # None
  <2>1. Starts' \subseteq Selections
    BY <1>2 DEF TypeOK
  <2> QED
    BY <2>1, SelectionAssumption
<1>5. PlacesInv' /\ DoneInv' /\ FramesInv' /\ PathInv' /\ ReachedInv' /\ ChainsInv'
  BY <1>3 DEF PlacesInv, DoneInv, FramesInv, PathInv, ReachedInv, ChainsInv
<1>6. SeedsInv' /\ CallInv'
  BY <1>1, <1>2, <1>4 DEF SeedsInv, CallInv
<1> QED
  BY <1>5, <1>6 DEF GraphInv

LEMMA QuietWalk ==
  ASSUME TypeOK, TypeOK', WalkInv, Settled, UNCHANGED <<walk, steady, phase, outcome>>
  PROVE  WalkInv'
<1>1. UNCHANGED <<call, nodes>>
  BY DEF walk
<1>2. CASE Live /\ steady
  <2>1. GraphInv' /\ CycleInv
    BY <1>2, QuietGraph DEF WalkInv
  <2>2. CycleInv'
    BY <1>1, <2>1 DEF CycleInv, At
  <2> QED
    BY <2>1, <2>2 DEF WalkInv
<1>3. CASE ~(Live /\ steady)
  BY <1>1, <1>3 DEF WalkInv, Live
<1> QED
  BY <1>2, <1>3

\* A call of ResolveNode that ends the resolution.
LEMMA StopWalk ==
  ASSUME TypeOK, TypeOK', WalkInv, phase = "walking", NEW how, Stop(how),
         how = "cycle" => \E i \in At(call) : ~nodes[i].done
  PROVE  WalkInv'
<1>1. /\ Still /\ Settled /\ UNCHANGED <<steady, walk, call, nodes>>
      /\ phase' = "idle" /\ outcome' = how
  BY StillSettled DEF Stop, End, Still, world, given, walk
<1>2. CASE steady
  <2>1. GraphInv'
    BY <1>1, <1>2, QuietGraph DEF WalkInv, Live
  <2>2. CycleInv'
    BY <1>1 DEF CycleInv, At
  <2> QED
    BY <2>1, <2>2 DEF WalkInv
<1>3. CASE ~steady
  BY <1>1, <1>3 DEF WalkInv
<1> QED
  BY <1>2, <1>3

LEMMA NextWalk ==
  ASSUME TypeOK, TypeOK', DepthFirst, WalkInv, [Next]_vars
  PROVE  WalkInv'
<1>1. phase' = "idle" /\ call' = None => WalkInv'
  BY DEF WalkInv, Live
<1>2. phase' = "walking" /\ GraphInv' => WalkInv'
  BY DEF WalkInv, CycleInv
<1>3. phase' \in {"idle", "walking"}
  BY DEF TypeOK
<1>4. CASE \E l \in BOOLEAN : Begin(l)
  <2>1. PICK l \in BOOLEAN : Begin(l)
    BY <1>4
  <2>2. call' = None
    BY <2>1 DEF Begin
  <2> QED
    BY <1>1, <1>2, <1>3, <2>1, <2>2, BeginGraph
<1>5. ASSUME phase = "walking", UNCHANGED steady,
             GraphInv /\ phase' = "walking" => GraphInv',
             phase' = "idle" => call' = None
      PROVE  WalkInv'
  <2>1. CASE ~steady
    BY <1>5, <2>1 DEF WalkInv
  <2>2. CASE steady
    <3>1. GraphInv
      BY <1>5, <2>2 DEF WalkInv, Live
    <3> QED
      BY <1>1, <1>2, <1>3, <1>5, <3>1
  <2> QED
    BY <2>1, <2>2
<1>6. CASE \E s \in seeds : CallSeed(s)
  <2>1. PICK s \in seeds : CallSeed(s)
    BY <1>6
  <2>2. phase = "walking" /\ UNCHANGED <<steady, phase>>
    BY <2>1 DEF CallSeed, Idle, ended, given
  <2> QED
    BY <1>5, <2>1, <2>2, SeedGraph
<1>7. CASE stack # <<>> /\ \E d \in Frame.todo : Pick(d)
  <2>1. PICK d \in Frame.todo : Pick(d)
    BY <1>7
  <2>2. phase = "walking" /\ UNCHANGED <<steady, phase>>
    BY <2>1 DEF Pick, Idle, ended, given
  <2> QED
    BY <1>5, <2>1, <2>2, PickGraph
<1>8. CASE CallDependency
  <2>1. /\ phase = "walking" /\ UNCHANGED steady /\ call = None
        /\ phase' = "idle" => call' = None
    BY <1>8 DEF CallDependency, Ready, Picked, Idle, Stop, End, ended, given, walk
  <2> QED
    BY <1>5, <1>8, <2>1, CallGraph
<1>9. CASE Reuse
  <2>1. phase = "walking" /\ UNCHANGED steady /\ call' = None
    BY <1>9 DEF Reuse, Calling, given
  <2> QED
    BY <1>5, <1>9, <2>1, ReuseGraph
<1>10. CASE Visit
  <2>1. phase = "walking" /\ UNCHANGED steady /\ call' = None
    BY <1>10 DEF Visit, Calling, given
  <2> QED
    BY <1>5, <1>10, <2>1, VisitGraph
<1>11. CASE Leave
  <2>1. phase = "walking" /\ UNCHANGED steady /\ call' = None
    BY <1>11 DEF Leave, Idle, given
  <2> QED
    BY <1>5, <1>11, <2>1, LeaveGraph
<1>12. CASE Finish \/ FetchFails
  <2>1. phase' = "idle" /\ call' = None
    BY <1>12 DEF Finish, FetchFails, Picked, Idle, Stop, End, walk
  <2> QED
    BY <1>1, <2>1
<1>13. CASE Materialize
  <2>1. CASE phase' = "idle" /\ call' = None
    BY <1>1, <2>1
  <2>2. CASE /\ UNCHANGED <<world, kept, ended, given, walk>>
             /\ chosen' = [chosen EXCEPT ![ReleaseOf(Frame.dep)] =
                             IF hints[ReleaseOf(Frame.dep)] \in cached
                             THEN hints[ReleaseOf(Frame.dep)]
                             ELSE index[ReleaseOf(Frame.dep)]]
    <3>1. \A r \in Release : chosen[r] # None => chosen'[r] = chosen[r]
      BY <1>13, <2>2 DEF Materialize, TypeOK
    <3>2. Settled /\ UNCHANGED <<walk, steady, phase, outcome>>
      BY <2>2, <3>1 DEF Settled, world, given, ended
    <3> QED
      BY <3>2, QuietWalk
  <2>3. phase' = "idle" => call' = None
    BY <1>13 DEF Materialize, Picked, Idle, Stop, End, ended, walk
  <2>4. \/ phase' = "idle"
        \/ /\ UNCHANGED <<world, kept, ended, given, walk>>
           /\ chosen' = [chosen EXCEPT ![ReleaseOf(Frame.dep)] =
                           IF hints[ReleaseOf(Frame.dep)] \in cached
                           THEN hints[ReleaseOf(Frame.dep)]
                           ELSE index[ReleaseOf(Frame.dep)]]
    BY <1>13, ZenonT(60) DEF Materialize, Stop, End
  <2> QED
    BY <2>1, <2>2, <2>3, <2>4
<1>14. CASE Cycle
  BY <1>14, StopWalk DEF Cycle, Calling
<1>15. CASE NoPackage
  BY <1>15, StopWalk DEF NoPackage, Calling
<1>16. CASE Conflict
  BY <1>16, StopWalk DEF Conflict, Calling
<1>17. CASE Edit
  BY <1>17 DEF Edit, WalkInv
<1>18. CASE Clean \/ (\E h \in Home : Move(h)) \/ UNCHANGED vars
  <2>1. Still /\ Settled /\ UNCHANGED <<walk, steady, phase, outcome>>
    BY <1>18, StillSettled DEF Clean, Move, vars, Still, world, given, ended
  <2> QED
    BY <2>1, QuietWalk
<1>19. CASE \E p \in Place, d \in Digest : Publish(p, d)
  <2>1. PICK p \in Place, d \in Digest : Publish(p, d)
    BY <1>19
  <2>2. \A e \in Digest : archive[e] # None => archive'[e] = archive[e]
    BY <2>1 DEF Publish, TypeOK
  <2>3. Settled /\ UNCHANGED <<walk, steady, phase, outcome>>
    BY <2>1, <2>2 DEF Publish, Settled, ended, given
  <2> QED
    BY <2>3, QuietWalk
<1> QED
  BY <1>4, <1>6, <1>7, <1>8, <1>9, <1>10, <1>11, <1>12, <1>13, <1>14, <1>15, <1>16,
     <1>17, <1>18, <1>19 DEF Next, Step

LEMMA WalkCorrect == Spec => [](TypeOK /\ DepthFirst /\ WalkInv)
<1>1. Init => WalkInv
  BY DEF Init, WalkInv, Live
<1>2. TypeOK /\ TypeOK' /\ DepthFirst /\ WalkInv /\ [Next]_vars => WalkInv'
  BY NextWalk
<1> QED
  BY <1>1, <1>2, TypeCorrect, WalkIsDepthFirst, PTL DEF Spec

\* The graph a resolution ends with has the project's packages, one edge for each
\* dependency to the package it selects, and nothing else, in whatever order its
\* members and dependencies are taken (BuildRootSeeds, ResolveNode).
THEOREM FindsTheGraph == Spec => []GraphIsExact
<1>1. ASSUME TypeOK, DepthFirst, WalkInv, Walked, steady
      PROVE  /\ \A p \in Seeds(root) : At([place |-> p, origin |-> Workspace]) # {}
             /\ \A i \in DOMAIN nodes :
                  nodes[i].edges = UNION {{[alias |-> d.alias, to |-> j] :
                     j \in UNION {At(s) : s \in Targets(nodes[i], d)}} : d \in Deps(i)}
             /\ \A i \in DOMAIN nodes : \A d \in Deps(i) : Targets(nodes[i], d) # {}
             /\ \A j \in DOMAIN nodes :
                  \/ nodes[j].place \in Seeds(root)
                  \/ \E i \in DOMAIN nodes : \E e \in nodes[i].edges : e.to = j
  <2>1. GraphInv /\ call = None /\ seeds = {} /\ DOMAIN stack = {}
    BY <1>1 DEF WalkInv, Live, Walked, Idle
  <2>2. ASSUME NEW p \in Seeds(root)
        PROVE  At([place |-> p, origin |-> Workspace]) # {}
    BY <2>1 DEF GraphInv, SeedsInv, Starts
  <2>3. ASSUME NEW i \in DOMAIN nodes
        PROVE  /\ Exact(i, Deps(i), nodes[i].edges) /\ nodes[i].edges \subseteq Edges
               /\ Deps(i) \subseteq Dependencies
    <3>1. nodes[i].done
      BY <1>1, <2>1 DEF DepthFirst
    <3>2. nodes[i].edges \subseteq Edges /\ Manifest(nodes[i].place) \in Manifests
      BY <1>1, <2>1, NodeType, ManifestType DEF GraphInv, PlacesInv
    <3> QED
      BY <2>1, <3>1, <3>2 DEF GraphInv, DoneInv, Deps, Manifests
  <2>4. ASSUME NEW i \in DOMAIN nodes, NEW e \in nodes[i].edges
        PROVE  \E d \in Deps(i) : \E s \in Targets(nodes[i], d) :
                 e.to \in At(s) /\ e = [alias |-> d.alias, to |-> e.to]
    <3>1. PICK d \in Deps(i) : Edge(i, d, e)
      BY <2>3 DEF Exact
    <3>2. e = [alias |-> e.alias, to |-> e.to]
      BY <2>3 DEF Edges
    <3> QED
      BY <3>1, <3>2 DEF Edge, Lead
  <2>5. ASSUME NEW i \in DOMAIN nodes, NEW d \in Deps(i)
        PROVE  /\ Targets(nodes[i], d) # {}
               /\ \A s \in Targets(nodes[i], d) : \A j \in At(s) :
                    [alias |-> d.alias, to |-> j] \in nodes[i].edges
    <3>1. PICK e \in nodes[i].edges : Edge(i, d, e)
      BY <2>3 DEF Exact
    <3>2. PICK t \in Targets(nodes[i], d) : e.to \in At(t)
      BY <3>1 DEF Edge, Lead
    <3>3. ASSUME NEW s \in Targets(nodes[i], d), NEW j \in At(s)
          PROVE  [alias |-> d.alias, to |-> j] \in nodes[i].edges
      <4>1. s = t
        BY <2>3, TargetIsOne
      <4>2. j = e.to
        BY <2>1, <3>2, <4>1 DEF GraphInv, PlacesInv, At
      <4>3. e = [alias |-> d.alias, to |-> j]
        BY <2>3, <3>1, <4>2 DEF Edges, Edge
      <4> QED
        BY <4>3
    <3> QED
      BY <3>2, <3>3
  <2>6. ASSUME NEW i \in DOMAIN nodes
        PROVE  nodes[i].edges = UNION {{[alias |-> d.alias, to |-> j] :
                  j \in UNION {At(s) : s \in Targets(nodes[i], d)}} : d \in Deps(i)}
    <3> DEFINE Found(d) == UNION {At(s) : s \in Targets(nodes[i], d)}
    <3>1. \A e \in nodes[i].edges : \E d \in Deps(i) :
            e \in {[alias |-> d.alias, to |-> j] : j \in Found(d)}
      BY <2>4
    <3>2. \A d \in Deps(i) : \A j \in Found(d) :
            [alias |-> d.alias, to |-> j] \in nodes[i].edges
      BY <2>5
    <3> HIDE DEF Found
    <3>3. nodes[i].edges = UNION {{[alias |-> d.alias, to |-> j] : j \in Found(d)} :
                                    d \in Deps(i)}
      BY <3>1, <3>2
    <3> QED
      BY <3>3 DEF Found
  <2>7. ASSUME NEW j \in DOMAIN nodes
        PROVE  \/ nodes[j].place \in Seeds(root)
               \/ \E i \in DOMAIN nodes : \E e \in nodes[i].edges : e.to = j
    BY <2>1 DEF GraphInv, ReachedInv, IsStart
  <2> QED
    BY <2>2, <2>5, <2>6, <2>7
<1>2. TypeOK /\ DepthFirst /\ WalkInv => GraphIsExact
  BY <1>1 DEF GraphIsExact
<1> QED
  BY <1>2, WalkCorrect, PTL

\* What is above a frame of the stack.
LEMMA FromHere ==
  ASSUME NEW S, NEW s \in Seq(S), NEW k \in DOMAIN s
  PROVE  LET r == SubSeq(s, k, Len(s))
         IN  /\ r \in Seq(S) /\ DOMAIN r = 1..(Len(s) - k + 1)
             /\ \A m \in DOMAIN r : r[m] = s[k + m - 1] /\ k + m - 1 \in DOMAIN s
<1>1. PICK n : n = Len(s) /\ n \in Nat /\ k \in 1..n /\ DOMAIN s = 1..n
  OBVIOUS
<1>2. PICK r : r = SubSeq(s, k, n)
  OBVIOUS
<1>3. r = [m \in 1..(n - k + 1) |-> s[k + m - 1]]
  BY <1>1, <1>2
<1>4. \A m \in 1..(n - k + 1) : k + m - 1 \in 1..n
  BY <1>1
<1>5. n - k + 1 \in Nat /\ \A m \in 1..(n - k + 1) : s[k + m - 1] \in S
  BY <1>1, <1>4
<1>6. r \in Seq(S) /\ DOMAIN r = 1..(n - k + 1)
  BY <1>3, <1>5
<1> QED
  BY <1>1, <1>2, <1>3, <1>4, <1>6

\* What an error reports is there: the packages of a cycle, each with a dependency
\* that leads to the next, and the chains of a conflict (Resolver.cpp: the cycle
\* and the conflict messages).
THEOREM ErrorsAreTrue == Spec => []ReportsAreTrue
<1>1. ASSUME NEW c, Connected(c), NEW k \in 1..(Len(c) - 1)
      PROVE  Leads(c[k], c[k + 1])
  BY <1>1 DEF Connected, Lead, Leads
<1>2. ASSUME TypeOK, GraphInv, call # None, stack # <<>>
      PROVE  \E d \in Deps(Frame.node) : call \in Targets(nodes[Frame.node], d)
  <2>1. Len(stack) \in DOMAIN stack /\ Frame = stack[Len(stack)]
    BY <1>2, FrameType DEF Frame
  <2>2. Frame.dep # None
    BY <1>2, <2>1 DEF TypeOK
  <2>3. Frame.dep \in Deps(Frame.node)
    BY <1>2, <2>1, <2>2 DEF GraphInv, FramesInv
  <2> QED
    BY <1>2, <2>3 DEF GraphInv, CallInv
<1>3. ASSUME TypeOK, GraphInv, NEW k \in DOMAIN stack, k + 1 \in DOMAIN stack
      PROVE  Leads(stack[k].node, stack[k + 1].node)
  <2>1. k \in Nat /\ k < Len(stack) /\ k + 1 # 1 /\ (k + 1) - 1 = k
    BY <1>3 DEF TypeOK
  <2>2. Lead(stack[k].node, stack[k].dep, stack[k + 1].node)
    BY <1>3, <2>1 DEF GraphInv, PathInv
  <2>3. stack[k].dep # None
    BY <1>3, <2>1 DEF TypeOK
  <2>4. stack[k].dep \in Deps(stack[k].node)
    BY <1>3, <2>3 DEF GraphInv, FramesInv
  <2> QED
    BY <2>2, <2>4 DEF Lead, Leads
<1>4. ASSUME TypeOK, GraphInv, DepthFirst, call # None, NEW i \in At(call), ~nodes[i].done
      PROVE  \E k \in DOMAIN stack :
               LET cycle == SubSeq(stack, k, Len(stack))
               IN  /\ stack[k].node \in At(call)
                   /\ IsPath([m \in DOMAIN cycle |-> cycle[m].node])
                   /\ Leads(Frame.node, stack[k].node)
  <2>1. PICK k \in DOMAIN stack : stack[k].node = i
    BY <1>4 DEF DepthFirst, At
  <2>2. stack # <<>> /\ stack \in Seq(Frames)
    BY <1>4, <2>1 DEF TypeOK
  <2>3. Leads(Frame.node, i)
    BY <1>2, <1>4, <2>2 DEF Leads
  <2>4. PICK cycle : cycle = SubSeq(stack, k, Len(stack))
    OBVIOUS
  <2>5. /\ cycle \in Seq(Frames) /\ DOMAIN cycle = 1..(Len(stack) - k + 1)
        /\ \A m \in DOMAIN cycle :
             cycle[m] = stack[k + m - 1] /\ k + m - 1 \in DOMAIN stack
    BY <2>2, <2>4, FromHere
  <2>6. PICK p : p = [m \in DOMAIN cycle |-> cycle[m].node]
    OBVIOUS
  <2>7. DOMAIN p = DOMAIN cycle /\ Len(p) = Len(cycle) /\ DOMAIN cycle = 1..Len(cycle)
    BY <2>5, <2>6
  <2>8. IsPath(p)
    <3> SUFFICES ASSUME NEW m \in 1..(Len(p) - 1)
                 PROVE  Leads(p[m], p[m + 1])
      BY DEF IsPath
    <3>1. m \in DOMAIN cycle /\ m + 1 \in DOMAIN cycle
      BY <2>5, <2>7
    <3>2. /\ p[m] = stack[k + m - 1].node /\ p[m + 1] = stack[k + (m + 1) - 1].node
          /\ k + m - 1 \in DOMAIN stack /\ k + (m + 1) - 1 \in DOMAIN stack
      BY <2>5, <2>6, <3>1
    <3>3. k + (m + 1) - 1 = (k + m - 1) + 1
      BY <2>2, <3>1, <2>5
    <3> QED
      BY <1>3, <1>4, <3>2, <3>3
  <2> QED
    BY <1>4, <2>1, <2>3, <2>4, <2>6, <2>8
<1>5. ASSUME TypeOK, GraphInv, NEW i \in NamedLike(call.place)
      PROVE  IsChain(nodes[i].chain)
  <2>1. i \in DOMAIN nodes
    BY DEF NamedLike
  <2>2. PICK c : c = nodes[i].chain
    OBVIOUS
  <2>3. Connected(c)
    BY <1>5, <2>1, <2>2 DEF GraphInv, ChainsInv
  <2>4. IsPath(c)
    BY <1>1, <2>3 DEF IsPath
  <2> QED
    BY <2>2, <2>3, <2>4 DEF IsChain, Connected, IsStart
<1>6. ASSUME TypeOK, GraphInv, stack # <<>>
      PROVE  IsChain([k \in DOMAIN stack |-> stack[k].node])
  <2>1. PICK p : p = [k \in DOMAIN stack |-> stack[k].node]
    OBVIOUS
  <2>2. 1 \in DOMAIN stack /\ DOMAIN p = DOMAIN stack /\ Len(p) = Len(stack)
        /\ DOMAIN stack = 1..Len(stack) /\ Len(stack) \in Nat
    BY <1>6, <2>1 DEF TypeOK
  <2>3. nodes[p[1]].place \in Seeds(root)
    BY <1>6, <2>1, <2>2 DEF GraphInv, PathInv, IsStart
  <2>4. ASSUME NEW k \in 1..(Len(p) - 1)
        PROVE  Leads(p[k], p[k + 1])
    <3>1. k \in DOMAIN stack /\ k + 1 \in DOMAIN stack
      BY <2>2
    <3> QED
      BY <1>3, <1>6, <2>1, <3>1
  <2> QED
    BY <2>1, <2>3, <2>4 DEF IsChain, IsPath
<1>7. ASSUME TypeOK, DepthFirst, WalkInv
      PROVE  ReportsAreTrue
  <2> SUFFICES ASSUME phase = "idle", call # None, steady
               PROVE  /\ outcome = "cycle" =>
                           \E k \in DOMAIN stack :
                             LET cycle == SubSeq(stack, k, Len(stack))
                             IN  /\ stack[k].node \in At(call)
                                 /\ IsPath([m \in DOMAIN cycle |-> cycle[m].node])
                                 /\ Leads(Frame.node, stack[k].node)
                      /\ outcome \in {"version", "source"} =>
                           /\ \A i \in NamedLike(call.place) : IsChain(nodes[i].chain)
                           /\ stack # <<>> =>
                                /\ IsChain([k \in DOMAIN stack |-> stack[k].node])
                                /\ \E d \in Deps(Frame.node) :
                                     call \in Targets(nodes[Frame.node], d)
    BY DEF ReportsAreTrue
  <2>1. GraphInv /\ CycleInv
    BY <1>7 DEF WalkInv, Live
  <2>2. outcome = "cycle" => \E i \in At(call) : ~nodes[i].done
    BY <2>1 DEF CycleInv
  <2> QED
    BY <1>2, <1>4, <1>5, <1>6, <1>7, <2>1, <2>2
<1> QED
  BY <1>7, WalkCorrect, PTL

(***************************************************************************)
(* A lockfile and the graph it was written for                             *)
(***************************************************************************)

\* The walk over a tree t and archives a that has chosen the archives C.
Then(t, a, C) == INSTANCE Resolver
  WITH tree <- t, archive <- a, chosen <- C, root <- t[Root], tops <- Seeds(t[Root])

TextIn(t, a, C, p) == Then(t, a, C)!Manifest(p)
TargetsIn(t, a, C, n, d) == Then(t, a, C)!Targets(n, d)
DepsIn(t, a, C, n) == TextIn(t, a, C, n.place).deps

\* A node or a selection that has the source fingerprint of another.
Like(n, s) == n.place = s.place /\ n.origin = s.origin
LinkIn(t, a, C, n, d, m) ==
  /\ d.kind = "registry" => C[ReleaseOf(d)] # None
  /\ \E s \in TargetsIn(t, a, C, n, d) : Like(m, s)

\* The nodes N are a graph that a resolution of t ends with: each is a package
\* of the tree or of an archive, they have the edges their manifests say and no
\* others, all are reached in the order they are listed, and there is no cycle.
Typed(t, a, C) ==
  /\ t \in [Place -> Manifests \cup {None}]
  /\ a \in [Digest -> Manifests \cup {None}]
  /\ C \in [Release -> Digest \cup {None}]
  /\ \A r \in Release : C[r] # None => a[C[r]] # None /\ a[C[r]].package = r
Named(t, a, C, N) ==
  /\ N \in Seq(Nodes)
  /\ \A i \in DOMAIN N :
       /\ TextIn(t, a, C, N[i].place) # None
       /\ TextIn(t, a, C, N[i].place).package # None
       /\ N[i].name = TextIn(t, a, C, N[i].place).package.name
       /\ N[i].version = TextIn(t, a, C, N[i].place).package.version
  /\ \A i, j \in DOMAIN N : N[i].name = N[j].name => i = j
  /\ \A i \in DOMAIN N : N[i].origin.kind = "registry" =>
       /\ Of(N[i]) \in Release /\ N[i].origin.snap # None
       /\ C[Of(N[i])] = N[i].origin.snap
Linked(t, a, C, N) ==
  \A i \in DOMAIN N :
    /\ \A d \in DepsIn(t, a, C, N[i]) : \E e \in N[i].edges :
         /\ e.alias = d.alias /\ e.to \in DOMAIN N
         /\ LinkIn(t, a, C, N[i], d, N[e.to])
    /\ \A e \in N[i].edges : e.to \in DOMAIN N
    /\ \A e \in N[i].edges : \E d \in DepsIn(t, a, C, N[i]) :
         e.alias = d.alias /\ LinkIn(t, a, C, N[i], d, N[e.to])
Found(t, N) ==
  /\ \A p \in Seeds(t[Root]) : \E i \in DOMAIN N :
       N[i].place = p /\ N[i].origin = Workspace
  /\ \A j \in DOMAIN N :
       \/ N[j].place \in Seeds(t[Root])
       \/ \E i \in DOMAIN N : i < j /\ \E e \in N[i].edges : e.to = j
Ended(N) ==
  /\ \A S \in (SUBSET DOMAIN N) \ {{}} : \E i \in S : \A e \in N[i].edges : e.to \notin S
  /\ \A i \in DOMAIN N : \A d, e \in N[i].edges : d # e => d.alias # e.alias
IsGraph(t, a, C, N) ==
  Typed(t, a, C) /\ Named(t, a, C, N) /\ Linked(t, a, C, N) /\ Found(t, N) /\ Ended(N)

\* The lockfile of these nodes, written while the project lay in h.
Entry(N, h, i) ==
  [id |-> Id(N[i]), url |-> IF N[i].origin.snap \in LocalRepo THEN h ELSE None,
   deps |-> {Id(N[e.to]) : e \in N[i].edges}]
LockOf(N, h) == {Entry(N, h, i) : i \in DOMAIN N}

\* Among numbers there is a least.
LEMMA LeastNumber ==
  ASSUME NEW S \in SUBSET Nat, S # {}
  PROVE  \E m \in S : \A k \in S : ~(k < m)
<1> DEFINE R == OpToRel(<, Nat)
<1>1. IsWellFoundedOn(R, Nat)
  BY NatLessThanWellFounded
<1>2. \A k, m \in Nat : k < m => <<k, m>> \in R
  BY DEF OpToRel
<1> HIDE DEF R
<1>3. PICK m \in S : \A k \in S : ~(<<k, m>> \in R)
  BY <1>1, WFMin
<1> QED
  BY <1>2, <1>3

\* What is read of the tree and of archives that were there is the same when
\* archives are added.
LEMMA TextGrows ==
  ASSUME NEW t, NEW a, NEW b, NEW C, Typed(t, a, C), Typed(t, b, C),
         \A x \in Digest : a[x] # None => b[x] = a[x],
         NEW p \in Place \cup Digest, p \in Place \/ TextIn(t, a, C, p) # None
  PROVE  TextIn(t, b, C, p) = TextIn(t, a, C, p)
BY ResolverAssumption DEF TextIn, Then!Manifest, Typed

LEMMA TextType ==
  ASSUME NEW t, NEW a, NEW C, Typed(t, a, C), NEW p \in Place \cup Digest
  PROVE  TextIn(t, a, C, p) \in Manifests \cup {None}
BY ResolverAssumption DEF TextIn, Then!Manifest, Typed

LEMMA SelectGrows ==
  ASSUME NEW t, NEW a, NEW b, NEW C, Typed(t, a, C), Typed(t, b, C),
         \A x \in Digest : a[x] # None => b[x] = a[x],
         NEW p \in Place \cup Digest, TextIn(t, a, C, p) # None, NEW origin, NEW name
  PROVE  Then(t, b, C)!Select(p, origin, name) = Then(t, a, C)!Select(p, origin, name)
<1> DEFINE members == IF name = None THEN {}
                      ELSE TextIn(t, a, C, p).members \ TextIn(t, a, C, p).excluded
<1>1. /\ TextIn(t, b, C, p) = TextIn(t, a, C, p)
      /\ TextIn(t, a, C, p) \in Manifests
  BY TextGrows, TextType
<1>2. members \subseteq Place
  BY <1>1 DEF Manifests
<1>3. \A q \in {p} \cup members : TextIn(t, b, C, q) = TextIn(t, a, C, q)
  BY <1>2, TextGrows
<1> DEFINE Has(f, q) == f[q] # None /\ f[q].package # None
           F(x) == [q \in {p} \cup members |-> TextIn(t, x, C, q)]
           matches(f) == {q \in {p} \cup members :
                            Has(f, q) /\ name \in {None, f[q].package.name}}
           Pair(q) == [place |-> q,
                       origin |-> IF origin.snap = None
                                  THEN [origin EXCEPT !.kind = IF q \in Seeds(t[Root])
                                                      THEN "workspace" ELSE "path"]
                                  ELSE origin]
           Part(q) == CASE origin.kind = "registry" -> FALSE
                        [] origin.kind = "git" -> Inside[q] = origin.snap
                        [] OTHER -> TRUE
           result(f) == {Pair(q) : q \in {q \in matches(f) : matches(f) = {q}
                           /\ \A s \in members : Part(s) /\ Has(f, s)}}
<1>4. F(a) = F(b)
  BY <1>3
<1>5. Then(t, a, C)!Select(p, origin, name) = result(F(a))
  BY DEF Then!Select, Then!Placed, Then!HasPackage, Then!IsPart, TextIn
<1>6. Then(t, b, C)!Select(p, origin, name) = result(F(b))
  <2>1. members = IF name = None THEN {}
                  ELSE TextIn(t, b, C, p).members \ TextIn(t, b, C, p).excluded
    BY <1>1
  <2> QED
    BY <2>1 DEF Then!Select, Then!Placed, Then!HasPackage, Then!IsPart, TextIn
<1> HIDE DEF F, result
<1> QED
  BY <1>4, <1>5, <1>6

LEMMA TargetsGrow ==
  ASSUME NEW t, NEW a, NEW b, NEW C, Typed(t, a, C), Typed(t, b, C),
         \A x \in Digest : a[x] # None => b[x] = a[x],
         NEW n, NEW d \in Dependencies, d.kind = "registry" => C[ReleaseOf(d)] # None
  PROVE  TargetsIn(t, b, C, n, d) = TargetsIn(t, a, C, n, d)
<1>0. \A p \in Place \cup Digest : \A origin, name :
        TextIn(t, a, C, p) # None =>
          Then(t, b, C)!Select(p, origin, name) = Then(t, a, C)!Select(p, origin, name)
  BY SelectGrows
<1>1. CASE d.kind = "path"
  <2>1. d.to \in Place /\ TextIn(t, b, C, d.to) = TextIn(t, a, C, d.to)
    BY <1>1, TextGrows DEF Dependencies
  <2> DEFINE origin == IF n.origin.snap = None THEN Then(t, a, C)!NoSource ELSE n.origin
             part == Then(t, a, C)!IsPart(d.to, n.origin)
  <2>2. TargetsIn(t, a, C, n, d) =
          IF TextIn(t, a, C, d.to) # None /\ part
          THEN Then(t, a, C)!Select(d.to, origin, d.package) ELSE {}
    BY <1>1 DEF TargetsIn, Then!Targets, TextIn
  <2>3. TargetsIn(t, b, C, n, d) =
          IF TextIn(t, b, C, d.to) # None /\ part
          THEN Then(t, b, C)!Select(d.to, origin, d.package) ELSE {}
    BY <1>1 DEF TargetsIn, Then!Targets, TextIn, Then!NoSource, Then!IsPart
  <2> HIDE DEF origin, part
  <2> QED
    BY <1>0, <2>1, <2>2, <2>3
<1>2. CASE d.kind = "git"
  <2>1. Top[d.to] \in Place
    BY <1>2, ResolverAssumption DEF Dependencies
  <2>2. TextIn(t, b, C, Top[d.to]) = TextIn(t, a, C, Top[d.to])
    BY <2>1, TextGrows
  <2> DEFINE origin == [kind |-> "git", snap |-> d.to]
  <2>3. TargetsIn(t, a, C, n, d) =
          IF TextIn(t, a, C, Top[d.to]) # None
          THEN Then(t, a, C)!Select(Top[d.to], origin, d.package) ELSE {}
    BY <1>2 DEF TargetsIn, Then!Targets, TextIn
  <2>4. TargetsIn(t, b, C, n, d) =
          IF TextIn(t, b, C, Top[d.to]) # None
          THEN Then(t, b, C)!Select(Top[d.to], origin, d.package) ELSE {}
    BY <1>2 DEF TargetsIn, Then!Targets, TextIn
  <2> HIDE DEF origin
  <2> QED
    BY <1>0, <2>1, <2>2, <2>3, <2>4
<1>3. CASE d.kind = "registry"
  <2>1. PICK c : c = C[ReleaseOf(d)]
    OBVIOUS
  <2>2. ReleaseOf(d) \in Release /\ c \in Digest /\ a[c] # None
    BY <1>3, <2>1 DEF Dependencies, Typed
  <2>3. TextIn(t, a, C, c) # None
    BY <2>2, ResolverAssumption DEF TextIn, Then!Manifest
  <2> DEFINE origin == [kind |-> "registry", snap |-> c]
  <2>4. TargetsIn(t, a, C, n, d) = Then(t, a, C)!Select(c, origin, d.package)
    BY <1>3, <2>1 DEF TargetsIn, Then!Targets, Then!ReleaseOf, ReleaseOf
  <2>5. TargetsIn(t, b, C, n, d) = Then(t, b, C)!Select(c, origin, d.package)
    BY <1>3, <2>1 DEF TargetsIn, Then!Targets, Then!ReleaseOf, ReleaseOf
  <2> HIDE DEF origin
  <2> QED
    BY <1>0, <2>2, <2>3, <2>4, <2>5
<1> QED
  BY <1>1, <1>2, <1>3 DEF Dependencies

\* A graph stays one when archives are added.
LEMMA GraphGrows ==
  ASSUME NEW t, NEW a, NEW b, NEW C, NEW N, IsGraph(t, a, C, N),
         b \in [Digest -> Manifests \cup {None}],
         \A x \in Digest : a[x] # None => b[x] = a[x]
  PROVE  IsGraph(t, b, C, N)
<1>1. Typed(t, a, C) /\ Named(t, a, C, N) /\ Linked(t, a, C, N)
  BY DEF IsGraph
<1>2. Typed(t, b, C)
  BY <1>1 DEF Typed
<1>3. ASSUME NEW i \in DOMAIN N
      PROVE  /\ N[i].place \in Place \cup Digest
             /\ TextIn(t, b, C, N[i].place) = TextIn(t, a, C, N[i].place)
             /\ DepsIn(t, b, C, N[i]) = DepsIn(t, a, C, N[i])
             /\ DepsIn(t, a, C, N[i]) \subseteq Dependencies
  <2>0. N[i] \in Nodes
    BY <1>1 DEF Named
  <2>1. N[i].place \in Place \cup Digest /\ TextIn(t, a, C, N[i].place) # None
    BY <1>1, <2>0 DEF Named, Nodes
  <2>2. TextIn(t, b, C, N[i].place) = TextIn(t, a, C, N[i].place)
    BY <1>1, <1>2, <2>1, TextGrows
  <2>3. TextIn(t, a, C, N[i].place) \in Manifests
    BY <1>1, <2>1, TextType
  <2> QED
    BY <2>1, <2>2, <2>3 DEF DepsIn, Manifests
<1>4. Named(t, b, C, N)
  BY <1>1, <1>3 DEF Named
<1>5. ASSUME NEW i \in DOMAIN N, NEW d \in Dependencies, NEW m, LinkIn(t, a, C, N[i], d, m)
      PROVE  LinkIn(t, b, C, N[i], d, m)
  BY <1>1, <1>2, <1>5, TargetsGrow DEF LinkIn
<1>6. Linked(t, b, C, N)
  BY <1>1, <1>3, <1>5 DEF Linked
<1> QED
  BY <1>2, <1>4, <1>6 DEF IsGraph

(***************************************************************************)
(* The graph a resolution ends with                                        *)
(***************************************************************************)

\* The walk reads the tree as it is, and what it has of a package is what the
\* package's manifest says; who called for a package was found before it.
ReadsInv ==
  Live /\ steady =>
    /\ root = tree[Root] /\ tops = Seeds(root)
    /\ \A i \in DOMAIN nodes :
         /\ HasPackage(nodes[i].place)
         /\ nodes[i].name = Manifest(nodes[i].place).package.name
         /\ nodes[i].version = Manifest(nodes[i].place).package.version
         /\ LET c == nodes[i].chain IN Len(c) > 1 => c[Len(c) - 1] < i

\* What the walk reads is what Then says.
LEMMA ReadsNow ==
  ASSUME root = tree[Root], tops = Seeds(root)
  PROVE  /\ \A p : TextIn(tree, archive, chosen, p) = Manifest(p)
         /\ \A n, d : TargetsIn(tree, archive, chosen, n, d) = Targets(n, d)
<1>1. \A p : Then(tree, archive, chosen)!Manifest(p) = Manifest(p)
  BY DEF Manifest, Then!Manifest
<1>2. ASSUME NEW n, NEW d
      PROVE  Then(tree, archive, chosen)!Targets(n, d) = Targets(n, d)
  BY DEF Manifest, Then!Manifest, Targets, Then!Targets, Select, Then!Select, Placed,
         Then!Placed, HasPackage, Then!HasPackage, IsPart, Then!IsPart, ReleaseOf,
         Then!ReleaseOf, NoSource, Then!NoSource
<1> QED
  BY <1>1, <1>2 DEF TextIn, TargetsIn

\* What was read stays as it was, except by an edit.
LEMMA StepSettles ==
  ASSUME TypeOK, [Next]_vars
  PROVE  \/ \E l \in BOOLEAN : Begin(l)
         \/ steady' = FALSE
         \/ Settled /\ steady' = steady /\ (Live' => Live)
<1> DEFINE goal == Settled /\ steady' = steady /\ (Live' => Live)
<1>1. CASE Edit
  BY <1>1 DEF Edit
<1>2. ASSUME Still, UNCHANGED <<steady, phase, call>> PROVE goal
  BY <1>2, StillSettled DEF Live
<1>3. ASSUME Still, UNCHANGED steady, phase = "walking" PROVE goal
  BY <1>3, StillSettled DEF Live
<1>4. CASE Clean \/ (\E h \in Home : Move(h)) \/ UNCHANGED vars
  BY <1>2, <1>4 DEF Clean, Move, vars, Still, world, given, ended, walk
<1>5. ASSUME NEW p \in Place, NEW d \in Digest, Publish(p, d) PROVE goal
  <2>1. \A e \in Digest : archive[e] # None => archive'[e] = archive[e]
    BY <1>5 DEF Publish, TypeOK
  <2> QED
    BY <1>5, <2>1 DEF Publish, Settled, ended, given, walk, Live
<1>6. CASE \E s \in seeds : CallSeed(s)
  BY <1>3, <1>6 DEF CallSeed, Idle, Still, world, given
<1>7. CASE \E d \in Frame.todo : Pick(d)
  BY <1>3, <1>7 DEF Pick, Idle, Still, world, given
<1>8. CASE CallDependency
  BY <1>3, <1>8 DEF CallDependency, Ready, Picked, Idle, Stop, Still, world, given
<1>9. CASE Reuse \/ Visit \/ Leave
  BY <1>3, <1>9 DEF Reuse, Visit, Leave, Calling, Idle, Still, world, given
<1>10. CASE Finish
  BY <1>3, <1>10 DEF Finish, Idle, Stop, Still, world, given
<1>11. CASE FetchFails
  BY <1>3, <1>11 DEF FetchFails, Picked, Idle, Stop, Still, world, given
<1>12. CASE Cycle \/ NoPackage \/ Conflict
  BY <1>3, <1>12 DEF Cycle, NoPackage, Conflict, Calling, Stop, Still, world, given
<1>13. CASE Materialize
  <2> DEFINE r == ReleaseOf(Frame.dep)
             found == IF hints[r] \in cached THEN hints[r] ELSE index[r]
  <2>1. phase = "walking" /\ chosen[r] = None
    BY <1>13 DEF Materialize, Picked, Idle
  <2>2. \/ \E how : Stop(how)
        \/ /\ UNCHANGED <<world, kept, ended, given, walk>>
           /\ chosen' = [chosen EXCEPT ![r] = found]
    BY <1>13, ZenonT(60) DEF Materialize
  <2> HIDE DEF r, found
  <2>3. CASE \E how : Stop(how)
    BY <1>3, <2>1, <2>3 DEF Stop, Still, world, given
  <2>4. CASE /\ UNCHANGED <<world, kept, ended, given, walk>>
             /\ chosen' = [chosen EXCEPT ![r] = found]
    <3>1. \A x \in Release : chosen[x] # None => chosen'[x] = chosen[x]
      BY <2>1, <2>4 DEF TypeOK
    <3> QED
      BY <2>1, <2>4, <3>1 DEF Settled, world, given, Live
  <2> QED
    BY <2>2, <2>3, <2>4
<1> QED
  BY <1>1, <1>4, <1>5, <1>6, <1>7, <1>8, <1>9, <1>10, <1>11, <1>12, <1>13 DEF Next, Step

LEMMA NextReads ==
  ASSUME TypeOK, TypeOK', WalkInv, ReadsInv, [Next]_vars
  PROVE  ReadsInv'
<1> SUFFICES ASSUME Live', steady'
             PROVE  /\ (root = tree[Root] /\ tops = Seeds(root))'
                    /\ \A i \in DOMAIN nodes' :
                         /\ HasPackage(nodes[i].place)'
                         /\ nodes'[i].name = Manifest(nodes[i].place)'.package.name
                         /\ nodes'[i].version = Manifest(nodes[i].place)'.package.version
                         /\ LET c == nodes'[i].chain IN Len(c) > 1 => c[Len(c) - 1] < i
  BY DEF ReadsInv
<1>1. CASE \E l \in BOOLEAN : Begin(l)
  <2>1. nodes' = <<>> /\ root' = tree[Root] /\ tops' = Seeds(tree[Root]) /\ tree' = tree
    BY <1>1 DEF Begin, world
  <2> QED
    BY <2>1 DEF Seeds
<1>2. CASE /\ Settled /\ steady' = steady /\ (Live' => Live)
           /\ ~\E l \in BOOLEAN : Begin(l)
  <2>1. /\ root = tree[Root] /\ tops = Seeds(root) /\ GraphInv
        /\ \A i \in DOMAIN nodes :
             /\ HasPackage(nodes[i].place)
             /\ nodes[i].name = Manifest(nodes[i].place).package.name
             /\ nodes[i].version = Manifest(nodes[i].place).package.version
             /\ LET c == nodes[i].chain IN Len(c) > 1 => c[Len(c) - 1] < i
    BY <1>2 DEF ReadsInv, WalkInv
  <2>2. (root = tree[Root] /\ tops = Seeds(root))'
    BY <1>2, <2>1 DEF Settled, Seeds
  <2>3. ASSUME NEW p \in Place \cup Digest, HasPackage(p)
        PROVE  HasPackage(p)' /\ Manifest(p)' = Manifest(p)
    BY <1>2, <2>3, ManifestStays DEF HasPackage
  <2>4. ASSUME NEW i \in DOMAIN nodes, i \in DOMAIN nodes',
               nodes'[i].place = nodes[i].place, nodes'[i].name = nodes[i].name,
               nodes'[i].version = nodes[i].version, nodes'[i].chain = nodes[i].chain
        PROVE  /\ HasPackage(nodes[i].place)'
               /\ nodes'[i].name = Manifest(nodes[i].place)'.package.name
               /\ nodes'[i].version = Manifest(nodes[i].place)'.package.version
               /\ LET c == nodes'[i].chain IN Len(c) > 1 => c[Len(c) - 1] < i
    <3>1. PICK p \in Place \cup Digest : p = nodes[i].place
      BY NodeType
    <3>2. HasPackage(nodes[i].place)' = HasPackage(p)'
          /\ Manifest(nodes[i].place)' = Manifest(p)'
      BY <2>4, <3>1 DEF HasPackage, Manifest
    <3> QED
      BY <2>1, <2>3, <2>4, <3>1, <3>2
  <2>5. CASE UNCHANGED nodes
    BY <2>2, <2>4, <2>5
  <2>6. CASE Leave
    <3>1. /\ Frame.node \in DOMAIN nodes /\ nodes[Frame.node] \in Nodes
          /\ nodes' = [nodes EXCEPT ![Frame.node] =
                         [@ EXCEPT !.edges = Frame.edges, !.done = TRUE]]
      BY <2>6, FrameType DEF Leave
    <3>2. DOMAIN nodes' = DOMAIN nodes
      BY <3>1
    <3>3. ASSUME NEW i \in DOMAIN nodes
          PROVE  /\ nodes'[i].place = nodes[i].place /\ nodes'[i].name = nodes[i].name
                 /\ nodes'[i].version = nodes[i].version /\ nodes'[i].chain = nodes[i].chain
      BY <3>1 DEF Nodes
    <3> QED
      BY <2>2, <2>4, <3>2, <3>3
  <2>7. CASE Visit
    <3> DEFINE above == IF stack = <<>> THEN <<>> ELSE nodes[Frame.node].chain
               m == Manifest(call.place)
    <3>0. PICK n : n = Len(nodes) + 1
      OBVIOUS
    <3>1. /\ n \in Nat /\ DOMAIN nodes' = DOMAIN nodes \cup {n}
          /\ \A j \in DOMAIN nodes : nodes'[j] = nodes[j]
      BY <2>7, <3>0, VisitEffect
    <3>2. nodes' = Append(nodes, [place |-> call.place, origin |-> call.origin,
               name |-> m.package.name, version |-> m.package.version,
               chain |-> Append(above, n), edges |-> {}, done |-> FALSE])
      BY <2>7, <3>0 DEF Visit
    <3>3. nodes'[n] = [place |-> call.place, origin |-> call.origin,
               name |-> m.package.name, version |-> m.package.version,
               chain |-> Append(above, n), edges |-> {}, done |-> FALSE]
      <4> HIDE DEF m, above
      <4> QED
        BY <3>0, <3>2 DEF TypeOK
    <3>4. call.place \in Place \cup Digest /\ HasPackage(call.place)
      BY <2>7 DEF Visit, Calling, TypeOK, Selections
    <3>5. HasPackage(nodes[n].place)' /\ Manifest(nodes[n].place)' = m
      <4>1. PICK p \in Place \cup Digest : p = call.place
        BY <3>4
      <4>2. HasPackage(nodes[n].place)' = HasPackage(p)'
            /\ Manifest(nodes[n].place)' = Manifest(p)'
        BY <3>3, <4>1 DEF HasPackage, Manifest
      <4> QED
        BY <2>3, <3>4, <4>1, <4>2
    <3>6. ASSUME Len(Append(above, n)) > 1
          PROVE  Append(above, n)[Len(Append(above, n)) - 1] < n
      <4>1. CASE stack = <<>>
        BY <3>6, <4>1
      <4>2. CASE stack # <<>>
        <5>1. Frame.node \in DOMAIN nodes /\ Frame.node < n
          BY <3>0, <4>2, FrameType DEF TypeOK
        <5>2. /\ above = nodes[Frame.node].chain /\ above \in Seq(Nat)
              /\ above # <<>> /\ above[Len(above)] = Frame.node
          BY <2>1, <4>2, <5>1, NodeType DEF GraphInv, ChainsInv
        <5>3. Len(Append(above, n)) - 1 = Len(above) /\ Len(above) \in 1..Len(above)
          BY <3>1, <5>2
        <5> HIDE DEF above
        <5>4. Append(above, n)[Len(above)] = above[Len(above)]
          BY <3>1, <5>2, <5>3
        <5> QED
          BY <5>1, <5>2, <5>3, <5>4
      <4> QED
        BY <4>1, <4>2
    <3>7. \A j \in DOMAIN nodes' : j = n \/ j \in DOMAIN nodes
      BY <3>1
    <3>8. /\ HasPackage(nodes[n].place)'
          /\ nodes'[n].name = Manifest(nodes[n].place)'.package.name
          /\ nodes'[n].version = Manifest(nodes[n].place)'.package.version
          /\ LET c == nodes'[n].chain IN Len(c) > 1 => c[Len(c) - 1] < n
      <4> HIDE DEF m, above
      <4> QED
        BY <3>3, <3>5, <3>6
    <3> HIDE DEF m, above
    <3>9. ASSUME NEW j \in DOMAIN nodes
          PROVE  j \in DOMAIN nodes' /\ nodes'[j] = nodes[j]
      BY <3>1
    <3> QED
      BY <2>2, <2>4, <3>7, <3>8, <3>9
  <2>8. UNCHANGED nodes \/ Leave \/ Visit
    BY <1>2, Steps DEF Quiet, Pick, Reuse
  <2> QED
    BY <2>5, <2>6, <2>7, <2>8
<1> QED
  BY <1>1, <1>2, StepSettles

\* The graph of a walk that has come to its end.
LEMMA EndsInGraph ==
  ASSUME TypeOK, OneSourcePerName, DepthFirst, GraphIsAcyclic, LockInv, WalkInv, ReadsInv,
         Walked, steady, ~DoubledAlias
  PROVE  IsGraph(tree, archive, chosen, nodes)
<1>1. /\ GraphInv /\ call = None /\ seeds = {} /\ DOMAIN stack = {}
      /\ root = tree[Root] /\ tops = Seeds(root)
  BY DEF WalkInv, ReadsInv, Live, Walked, Idle
<1>2. /\ \A p : TextIn(tree, archive, chosen, p) = Manifest(p)
      /\ \A n, d : TargetsIn(tree, archive, chosen, n, d) = Targets(n, d)
  BY <1>1, ReadsNow
<1>3. Typed(tree, archive, chosen)
  <2>1. \A r \in Release : chosen[r] # None => IsRelease(chosen[r], r)
    BY DEF LockInv, PinsInv
  <2> QED
    BY <2>1 DEF Typed, TypeOK, IsRelease
<1>4. Named(tree, archive, chosen, nodes)
  <2>1. \A i \in DOMAIN nodes :
          /\ Manifest(nodes[i].place) # None
          /\ Manifest(nodes[i].place).package # None
          /\ nodes[i].name = Manifest(nodes[i].place).package.name
          /\ nodes[i].version = Manifest(nodes[i].place).package.version
    BY <1>1 DEF ReadsInv, Live, Walked, Idle, HasPackage
  <2>2. \A i \in DOMAIN nodes : nodes[i].origin.kind = "registry" =>
          /\ Of(nodes[i]) \in Release /\ nodes[i].origin.snap # None
          /\ chosen[Of(nodes[i])] = nodes[i].origin.snap
    BY DEF LockInv, ChosenInv
  <2>3. nodes \in Seq(Nodes) /\ \A i, j \in DOMAIN nodes :
          nodes[i].name = nodes[j].name => i = j
    BY DEF TypeOK, OneSourcePerName
  <2> QED
    BY <1>2, <2>1, <2>2, <2>3 DEF Named
<1>5. ASSUME NEW i \in DOMAIN nodes
      PROVE  /\ Exact(i, Deps(i), nodes[i].edges) /\ Deps(i) \subseteq Dependencies
             /\ DepsIn(tree, archive, chosen, nodes[i]) = Deps(i)
             /\ \A e \in nodes[i].edges : e.to \in DOMAIN nodes
  <2>1. nodes[i].done
    BY <1>1 DEF DepthFirst
  <2>2. Exact(i, Deps(i), nodes[i].edges)
    BY <1>1, <2>1 DEF GraphInv, DoneInv
  <2>3. Manifest(nodes[i].place) \in Manifests
    BY <1>1, NodeType, ManifestType DEF GraphInv, PlacesInv
  <2>4. Deps(i) \subseteq Dependencies
    BY <2>3 DEF Deps, Manifests
  <2>5. DepsIn(tree, archive, chosen, nodes[i]) = Deps(i)
    BY <1>2 DEF DepsIn, Deps
  <2>6. \A e \in nodes[i].edges : e.to \in DOMAIN nodes
    BY <2>2 DEF Exact, Edge, Lead, At
  <2> QED
    BY <2>2, <2>4, <2>5, <2>6
<1>6. ASSUME NEW i \in DOMAIN nodes, NEW d, NEW j, Lead(i, d, j)
      PROVE  j \in DOMAIN nodes /\ LinkIn(tree, archive, chosen, nodes[i], d, nodes[j])
  BY <1>2, <1>6 DEF Lead, Resolved, LinkIn, At, Like
<1>7. Linked(tree, archive, chosen, nodes)
  <2> SUFFICES ASSUME NEW i \in DOMAIN nodes
               PROVE  /\ \A d \in Deps(i) : \E e \in nodes[i].edges :
                           /\ e.alias = d.alias /\ e.to \in DOMAIN nodes
                           /\ LinkIn(tree, archive, chosen, nodes[i], d, nodes[e.to])
                      /\ \A e \in nodes[i].edges : e.to \in DOMAIN nodes
                      /\ \A e \in nodes[i].edges : \E d \in Deps(i) :
                           /\ e.alias = d.alias
                           /\ LinkIn(tree, archive, chosen, nodes[i], d, nodes[e.to])
    BY <1>5 DEF Linked
  <2> QED
    BY <1>5, <1>6 DEF Exact, Edge
<1>8. Found(tree, nodes)
  <2>1. ASSUME NEW p \in Seeds(root)
        PROVE  \E i \in DOMAIN nodes : nodes[i].place = p /\ nodes[i].origin = Workspace
    <3>1. PICK s \in Starts : s = [place |-> p, origin |-> Workspace]
      BY DEF Starts
    <3>2. At(s) # {}
      BY <1>1 DEF GraphInv, SeedsInv
    <3> QED
      BY <3>1, <3>2 DEF At
  <2>2. ASSUME NEW j \in DOMAIN nodes, nodes[j].place \notin Seeds(root)
        PROVE  \E i \in DOMAIN nodes : i < j /\ \E e \in nodes[i].edges : e.to = j
    <3>1. PICK c : c = nodes[j].chain
      OBVIOUS
    <3>2. c # <<>> /\ c[Len(c)] = j /\ Connected(c) /\ c \in Seq(Nat)
      BY <1>1, <3>1, NodeType DEF GraphInv, ChainsInv
    <3>3. Len(c) > 1
      <4>1. c[1] # j /\ Len(c) \in Nat \ {0}
        BY <2>2, <3>2 DEF Connected, IsStart
      <4> QED
        BY <3>2, <4>1
    <3>4. PICK k : /\ k = Len(c) - 1 /\ k + 1 = Len(c) /\ k \in 1..(Len(c) - 1)
                   /\ k \in DOMAIN c
      <4>1. \A n \in Nat : n > 1 => /\ n - 1 + 1 = n /\ n - 1 \in 1..(n - 1)
                                    /\ n - 1 \in 1..n
        OBVIOUS
      <4>2. Len(c) \in Nat /\ DOMAIN c = 1..Len(c)
        BY <3>2
      <4> QED
        BY <3>3, <4>1, <4>2
    <3>5. c[k] \in DOMAIN nodes /\ c[k] < j
      <4>1. c[k] \in DOMAIN nodes
        BY <3>2, <3>4 DEF Connected
      <4>2. LET b == nodes[j].chain IN Len(b) > 1 => b[Len(b) - 1] < j
        BY DEF ReadsInv, Live, Walked, Idle
      <4> QED
        BY <3>1, <3>3, <3>4, <4>1, <4>2
    <3>6. PICK d \in Deps(c[k]) : Lead(c[k], d, j)
      BY <3>2, <3>4 DEF Connected
    <3>7. PICK e \in nodes[c[k]].edges : Edge(c[k], d, e)
      BY <1>5, <3>5, <3>6 DEF Exact
    <3>8. PICK s \in Targets(nodes[c[k]], d) : j \in At(s)
      BY <3>6 DEF Lead
    <3>9. PICK u \in Targets(nodes[c[k]], d) : e.to \in At(u)
      BY <3>7 DEF Edge, Lead
    <3>10. s = u
      BY <1>5, <3>5, TargetIsOne
    <3>11. e.to = j
      BY <1>1, <3>8, <3>9, <3>10 DEF GraphInv, PlacesInv, At
    <3> QED
      BY <3>5, <3>11
  <2> QED
    BY <1>1, <2>1, <2>2 DEF Found
<1>9. Ended(nodes)
  BY DEF Ended, GraphIsAcyclic, DoubledAlias
<1> QED
  BY <1>3, <1>4, <1>7, <1>8, <1>9 DEF IsGraph

(***************************************************************************)
(* A walk that follows the graph of its lockfile                           *)
(***************************************************************************)

\* A place stands for one node of a graph.
LEMMA OnceInGraph ==
  ASSUME NEW t, NEW a, NEW C, NEW N, Named(t, a, C, N),
         NEW i \in DOMAIN N, NEW j \in DOMAIN N, N[i].place = N[j].place
  PROVE  i = j
BY DEF Named

\* A dependency on a release leads to its archive.
LEMMA ReleaseTarget ==
  ASSUME NEW t, NEW a, NEW C, Typed(t, a, C), NEW n, NEW d \in Dependencies,
         d.kind = "registry", C[ReleaseOf(d)] # None, NEW s \in TargetsIn(t, a, C, n, d)
  PROVE  /\ ReleaseOf(d) \in Release /\ C[ReleaseOf(d)] \in Digest
         /\ s.place = C[ReleaseOf(d)]
         /\ s.origin = [kind |-> "registry", snap |-> C[ReleaseOf(d)]]
         /\ TextIn(t, a, C, s.place).package = ReleaseOf(d)
<1>1. PICK c : c = C[ReleaseOf(d)]
  OBVIOUS
<1>2. ReleaseOf(d) \in Release /\ c \in Digest /\ c # None
      /\ a[c].package = ReleaseOf(d)
  BY <1>1, ResolverAssumption DEF Dependencies, Typed
<1> DEFINE origin == [kind |-> "registry", snap |-> c]
           members == IF d.package = None THEN {}
                      ELSE Then(t, a, C)!Manifest(c).members
                             \ Then(t, a, C)!Manifest(c).excluded
<1>3. s \in Then(t, a, C)!Select(c, origin, d.package)
  BY <1>1 DEF TargetsIn, Then!Targets, Then!ReleaseOf, ReleaseOf
<1>4. /\ s.place \in {c} \cup members
      /\ \A m \in members : Then(t, a, C)!IsPart(m, origin)
      /\ s.origin = Then(t, a, C)!Placed(s.place, origin)
  BY <1>3 DEF Then!Select
<1>5. \A m : ~Then(t, a, C)!IsPart(m, origin)
  BY DEF Then!IsPart
<1>6. s.place = c
  BY <1>4, <1>5
<1>7. s.origin = origin
  BY <1>2, <1>4 DEF Then!Placed
<1>8. TextIn(t, a, C, c) = a[c]
  BY <1>2, ResolverAssumption DEF TextIn, Then!Manifest
<1> QED
  BY <1>1, <1>2, <1>6, <1>7, <1>8

\* The lockfile of a graph pins the archives the graph has.
LEMMA LockPins ==
  ASSUME NEW t, NEW a, NEW C, NEW N, NEW h, Typed(t, a, C), Named(t, a, C, N),
         NEW j \in DOMAIN N, N[j].origin.kind = "registry"
  PROVE  LET r == Of(N[j]) IN C[r] # None /\ Hints(LockOf(N, h))[r] = C[r]
<1>1. PICK r : r = Of(N[j])
  OBVIOUS
<1>2. r \in Release /\ C[r] # None /\ C[r] = N[j].origin.snap /\ C[r] \in Digest
  BY <1>1 DEF Named, Typed
<1> DEFINE pinned == {e \in LockOf(N, h) :
                        e.id.kind = "registry" /\ r = [name |-> e.id.name,
                                                       version |-> e.id.version]}
           digests == {e.id.snap : e \in pinned}
<1>3. \A i \in DOMAIN N :
        /\ Entry(N, h, i).id.kind = N[i].origin.kind
        /\ Entry(N, h, i).id.snap = N[i].origin.snap
        /\ [name |-> Entry(N, h, i).id.name, version |-> Entry(N, h, i).id.version]
             = Of(N[i])
  BY DEF Entry, Id, Of
<1>4. ASSUME NEW e \in pinned PROVE e.id.snap = C[r]
  <2>1. PICK i \in DOMAIN N : e = Entry(N, h, i)
    BY DEF LockOf
  <2>2. N[i].origin.kind = "registry" /\ r = Of(N[i])
    BY <1>3, <2>1
  <2> QED
    BY <1>3, <2>1, <2>2 DEF Named
<1>5. Entry(N, h, j) \in pinned
  BY <1>1, <1>3 DEF LockOf
<1> HIDE DEF pinned
<1>6. digests = {C[r]}
  BY <1>4, <1>5
<1>7. Hints(LockOf(N, h))[r] = IF \E d \in Digest : digests = {d}
                               THEN CHOOSE d \in Digest : digests = {d} ELSE None
  BY <1>2 DEF Hints, pinned
<1> HIDE DEF digests
<1>8. \A d \in Digest : digests = {d} <=> d = C[r]
  BY <1>6
<1>9. (CHOOSE d \in Digest : digests = {d}) = C[r]
  BY <1>2, <1>8
<1> QED
  BY <1>1, <1>2, <1>7, <1>8, <1>9

\* What a walk finds is what the graph of the lockfile has.
Twins(n, m) == Like(n, m) /\ n.name = m.name /\ n.version = m.version
Follows(C, N) ==
  /\ lock \notin NoLock /\ lock = LockOf(N, home)
  /\ \A r \in Release : chosen[r] # None => chosen[r] = C[r]
  /\ \A i \in DOMAIN nodes : \E k \in DOMAIN N : Twins(nodes[i], N[k])
  /\ call # None => \E k \in DOMAIN N : Like(N[k], call)

LEMMA ReadsThen ==
  ASSUME root = tree[Root], tops = Seeds(root), NEW C
  PROVE  /\ \A p : TextIn(tree, archive, C, p) = Manifest(p)
         /\ \A d \in Dependencies : \A n, m :
              (/\ n.origin = m.origin
               /\ d.kind = "registry" => chosen[ReleaseOf(d)] = C[ReleaseOf(d)])
                => TargetsIn(tree, archive, C, m, d) = Targets(n, d)
<1>1. \A p : Then(tree, archive, C)!Manifest(p) = Manifest(p)
  BY DEF Manifest, Then!Manifest
<1>2. \A p, origin, name :
        Then(tree, archive, C)!Select(p, origin, name) = Select(p, origin, name)
  BY DEF Manifest, Then!Manifest, Select, Then!Select, Placed, Then!Placed, HasPackage,
         Then!HasPackage, IsPart, Then!IsPart
<1>3. ASSUME NEW d \in Dependencies, NEW n, NEW m, n.origin = m.origin,
             d.kind = "registry" => chosen[ReleaseOf(d)] = C[ReleaseOf(d)]
      PROVE  Then(tree, archive, C)!Targets(m, d) = Targets(n, d)
  BY <1>1, <1>2, <1>3 DEF Targets, Then!Targets, IsPart, Then!IsPart, ReleaseOf,
     Then!ReleaseOf, NoSource, Then!NoSource, Dependencies
<1> QED
  BY <1>1, <1>3 DEF TextIn, TargetsIn

Following(C, N) ==
  /\ GraphInv /\ root = tree[Root] /\ tops = Seeds(root)
  /\ IsGraph(tree, archive, C, N) /\ Follows(C, N)

\* A package of the walk has the dependencies its twin has, and each leads where
\* an edge of the twin leads.
LEMMA TwinLeads ==
  ASSUME TypeOK, NEW C, NEW N, Following(C, N), NEW i \in DOMAIN nodes,
         NEW k \in DOMAIN N, Like(nodes[i], N[k])
  PROVE  /\ Deps(i) = DepsIn(tree, archive, C, N[k]) /\ Deps(i) \subseteq Dependencies
         /\ \A d \in Deps(i) : \E e \in N[k].edges :
              /\ e.alias = d.alias /\ e.to \in DOMAIN N
              /\ LinkIn(tree, archive, C, N[k], d, N[e.to])
         /\ \A d \in Deps(i) : Resolved(d) =>
              /\ Targets(nodes[i], d) = TargetsIn(tree, archive, C, N[k], d)
              /\ \E s \in Targets(nodes[i], d) : Targets(nodes[i], d) = {s}
              /\ \A e \in N[k].edges : LinkIn(tree, archive, C, N[k], d, N[e.to]) =>
                   \A s \in Targets(nodes[i], d) : Like(N[e.to], s)
<1>1. \A p : TextIn(tree, archive, C, p) = Manifest(p)
  BY ReadsThen DEF Following
<1>2. Deps(i) = DepsIn(tree, archive, C, N[k])
  BY <1>1 DEF Deps, DepsIn, Like
<1>3. Deps(i) \subseteq Dependencies
  <2>1. Manifest(nodes[i].place) \in Manifests
    BY NodeType, ManifestType DEF Following, GraphInv, PlacesInv
  <2> QED
    BY <2>1 DEF Deps, Manifests
<1>4. ASSUME NEW d \in Deps(i)
      PROVE  \E e \in N[k].edges :
               /\ e.alias = d.alias /\ e.to \in DOMAIN N
               /\ LinkIn(tree, archive, C, N[k], d, N[e.to])
  BY <1>2 DEF Following, IsGraph, Linked
<1>5. ASSUME NEW d \in Deps(i), Resolved(d)
      PROVE  /\ Targets(nodes[i], d) = TargetsIn(tree, archive, C, N[k], d)
             /\ \E s \in Targets(nodes[i], d) : Targets(nodes[i], d) = {s}
             /\ \A e \in N[k].edges : LinkIn(tree, archive, C, N[k], d, N[e.to]) =>
                  \A s \in Targets(nodes[i], d) : Like(N[e.to], s)
  <2>1. d \in Dependencies
    BY <1>3
  <2>2. d.kind = "registry" => chosen[ReleaseOf(d)] = C[ReleaseOf(d)]
    BY <1>5, <2>1 DEF Following, Follows, Resolved, Dependencies
  <2>3. Targets(nodes[i], d) = TargetsIn(tree, archive, C, N[k], d)
    BY <2>1, <2>2, ReadsThen DEF Following, Like
  <2>4. \A s, u \in Targets(nodes[i], d) : s = u
    BY <2>1, TargetIsOne
  <2>5. Targets(nodes[i], d) # {}
    BY <1>4, <2>3 DEF LinkIn
  <2> QED
    BY <2>3, <2>4, <2>5 DEF LinkIn
<1> QED
  BY <1>2, <1>3, <1>4, <1>5

\* The frame at the top of the stack, its twin and the dependency it waits for.
LEMMA TopTwin ==
  ASSUME TypeOK, NEW C, NEW N, Following(C, N), stack # <<>>, Frame.dep # None
  PROVE  /\ Frame.node \in DOMAIN nodes /\ Frame.dep \in Deps(Frame.node)
         /\ Frame.dep \in Dependencies
         /\ \E k \in DOMAIN N : Twins(nodes[Frame.node], N[k])
<1>1. Len(stack) \in DOMAIN stack /\ Frame.node \in DOMAIN nodes
  BY FrameType
<1>2. Frame.dep \in Deps(Frame.node)
  BY <1>1 DEF Following, GraphInv, FramesInv, Frame
<1>3. PICK k \in DOMAIN N : Twins(nodes[Frame.node], N[k])
  BY <1>1 DEF Following, Follows
<1>4. Deps(Frame.node) \subseteq Dependencies
  BY <1>1, <1>3, TwinLeads DEF Twins
<1> QED
  BY <1>1, <1>2, <1>3, <1>4

\* What is called is a package of the graph.
LEMMA CalledTwin ==
  ASSUME TypeOK, NEW C, NEW N, Following(C, N), call # None
  PROVE  \E k \in DOMAIN N :
           /\ Like(N[k], call) /\ HasPackage(call.place)
           /\ N[k].name = Manifest(call.place).package.name
           /\ N[k].version = Manifest(call.place).package.version
           /\ \A i \in DOMAIN nodes : nodes[i].name = N[k].name => i \in At(call)
<1>1. PICK k \in DOMAIN N : Like(N[k], call)
  BY DEF Following, Follows
<1>2. TextIn(tree, archive, C, N[k].place) = Manifest(call.place)
  BY <1>1, ReadsThen DEF Following, Like
<1>3. /\ HasPackage(call.place)
      /\ N[k].name = Manifest(call.place).package.name
      /\ N[k].version = Manifest(call.place).package.version
  BY <1>2 DEF Following, IsGraph, Named, HasPackage
<1>4. ASSUME NEW i \in DOMAIN nodes, nodes[i].name = N[k].name
      PROVE  i \in At(call)
  <2>1. PICK m \in DOMAIN N : Twins(nodes[i], N[m])
    BY DEF Following, Follows
  <2>2. m = k
    BY <1>4, <2>1 DEF Twins, Following, IsGraph, Named
  <2> QED
    BY <1>1, <2>1, <2>2 DEF Twins, Like, At
<1> QED
  BY <1>1, <1>3, <1>4

\* A dependency that is asked for is the one the graph has: a release has its pin.
LEMMA AskedIsPinned ==
  ASSUME TypeOK, LockInv, NEW C, NEW N, Following(C, N), Picked,
         Frame.dep.kind = "registry"
  PROVE  LET r == ReleaseOf(Frame.dep)
         IN  r \in Release /\ hints[r] = C[r] /\ C[r] # None
<1>1. PICK d : d = Frame.dep
  OBVIOUS
<1>2. PICK k \in DOMAIN N : Twins(nodes[Frame.node], N[k])
  BY TopTwin DEF Picked
<1>3. Frame.node \in DOMAIN nodes /\ d \in Deps(Frame.node) /\ d \in Dependencies
  BY <1>1, TopTwin DEF Picked
<1>4. PICK e \in N[k].edges :
        e.to \in DOMAIN N /\ LinkIn(tree, archive, C, N[k], d, N[e.to])
  BY <1>2, <1>3, TwinLeads DEF Twins
<1>5. /\ C[ReleaseOf(d)] # None
      /\ \E s \in TargetsIn(tree, archive, C, N[k], d) : Like(N[e.to], s)
  BY <1>1, <1>4 DEF LinkIn
<1>6. PICK s \in TargetsIn(tree, archive, C, N[k], d) : Like(N[e.to], s)
  BY <1>5
<1>7. Typed(tree, archive, C) /\ Named(tree, archive, C, N)
  BY DEF Following, IsGraph
<1>8. /\ ReleaseOf(d) \in Release /\ N[e.to].origin.kind = "registry"
      /\ TextIn(tree, archive, C, N[e.to].place).package = ReleaseOf(d)
  <2>1. d.kind = "registry"
    BY <1>1
  <2>2. /\ ReleaseOf(d) \in Release
        /\ s.origin = [kind |-> "registry", snap |-> C[ReleaseOf(d)]]
        /\ TextIn(tree, archive, C, s.place).package = ReleaseOf(d)
    BY <1>3, <1>5, <1>7, <2>1, ReleaseTarget
  <2>3. N[e.to].place = s.place /\ N[e.to].origin = s.origin
    BY <1>6 DEF Like
  <2>4. N[e.to].origin.kind = "registry"
    BY <2>2, <2>3
  <2> QED
    BY <2>2, <2>3, <2>4
<1>9. Of(N[e.to]) = ReleaseOf(d)
  BY <1>4, <1>7, <1>8 DEF Named, Of, ReleaseOf
<1>10. Hints(LockOf(N, home))[ReleaseOf(d)] = C[ReleaseOf(d)]
  BY <1>4, <1>7, <1>8, <1>9, LockPins
<1>11. hints = Hints(LockOf(N, home))
  BY DEF Picked, Idle, LockInv, PinsInv, Entries, Following, Follows
<1> QED
  BY <1>1, <1>5, <1>8, <1>10, <1>11

\* A call that comes back to an open package would be a cycle of the graph.
LEMMA NoWayBack ==
  ASSUME TypeOK, DepthFirst, NEW C, NEW N, Following(C, N), call # None,
         NEW i \in At(call), ~nodes[i].done
  PROVE  FALSE
<1>1. PICK o \in DOMAIN stack : stack[o].node = i
  BY DEF DepthFirst, At
<1>2. /\ stack \in Seq(Frames) /\ DOMAIN stack = 1..Len(stack) /\ Len(stack) \in Nat
      /\ o \in Nat /\ stack # <<>>
  BY <1>1 DEF TypeOK
<1> DEFINE S == {x \in DOMAIN N : \E m \in DOMAIN stack :
                   m >= o /\ Like(N[x], nodes[stack[m].node])}
<1>3. ASSUME NEW m \in DOMAIN stack
      PROVE  /\ stack[m].node \in DOMAIN nodes
             /\ \E k \in DOMAIN N : Like(N[k], nodes[stack[m].node])
  BY DEF TypeOK, Following, Follows, Twins, Like
<1>4. S \in (SUBSET DOMAIN N) \ {{}}
  BY <1>1, <1>2, <1>3
<1>5. PICK x \in S : \A e \in N[x].edges : e.to \notin S
  BY <1>4 DEF Following, IsGraph, Ended
<1>6. PICK m \in DOMAIN stack : m >= o /\ Like(N[x], nodes[stack[m].node])
  BY <1>5
<1>7. PICK n, d : n = stack[m].node /\ d = stack[m].dep
  OBVIOUS
<1>8. n \in DOMAIN nodes /\ d \in Deps(n)
  <2>1. d # None
    BY <1>2, <1>6, <1>7 DEF TypeOK
  <2>2. n \in DOMAIN nodes
    BY <1>3, <1>7
  <2>3. d \in Deps(n) \cup {None}
    BY <1>7 DEF Following, GraphInv, FramesInv
  <2> QED
    BY <2>1, <2>2, <2>3
<1>9. \E y \in DOMAIN stack :
        y >= o /\ Resolved(d) /\ \E s \in Targets(nodes[n], d) : stack[y].node \in At(s)
  <2>1. CASE m = Len(stack)
    <3>1. Frame = stack[m]
      BY <2>1 DEF Frame
    <3>2. Resolved(d) /\ call \in Targets(nodes[n], d)
      BY <1>2, <1>7, <3>1 DEF Following, GraphInv, CallInv
    <3> QED
      BY <1>1, <1>2, <3>2
  <2>2. CASE m # Len(stack)
    <3>1. PICK y \in DOMAIN stack : y = m + 1 /\ y # 1 /\ y - 1 = m /\ y >= o
      BY <1>2, <1>6, <2>2
    <3>2. Lead(n, d, stack[y].node)
      BY <1>7, <3>1 DEF Following, GraphInv, PathInv
    <3> QED
      BY <3>1, <3>2 DEF Lead
  <2> QED
    BY <2>1, <2>2
<1>10. PICK y \in DOMAIN stack : \E s \in Targets(nodes[n], d) :
         y >= o /\ Resolved(d) /\ stack[y].node \in At(s)
  BY <1>9
<1>11. PICK s \in Targets(nodes[n], d) :
         y >= o /\ Resolved(d) /\ stack[y].node \in At(s)
  BY <1>10
<1>12. x \in DOMAIN N /\ Like(nodes[n], N[x])
  BY <1>5, <1>6, <1>7 DEF Like
<1>13. PICK e \in N[x].edges :
         e.to \in DOMAIN N /\ LinkIn(tree, archive, C, N[x], d, N[e.to])
  BY <1>8, <1>12, TwinLeads
<1>14. Like(N[e.to], s)
  BY <1>8, <1>11, <1>12, <1>13, TwinLeads
<1>15. Like(N[e.to], nodes[stack[y].node])
  BY <1>11, <1>14 DEF Like, At
<1>16. e.to \in S
  BY <1>11, <1>13, <1>15
<1> QED
  BY <1>5, <1>13, <1>16

\* A walk that has come to its end has found all of the graph.
LEMMA AllFollowed ==
  ASSUME TypeOK, OneSourcePerName, DepthFirst, NEW C, NEW N, Following(C, N), Walked
  PROVE  LockOf(nodes, home) = LockOf(N, home) /\ ~DoubledAlias
<1>1. call = None /\ seeds = {} /\ DOMAIN stack = {}
  BY DEF Walked, Idle
<1>2. ASSUME NEW i \in DOMAIN nodes
      PROVE  Exact(i, Deps(i), nodes[i].edges)
  <2>1. nodes[i].done
    BY <1>1 DEF DepthFirst
  <2> QED
    BY <2>1 DEF Following, GraphInv, DoneInv
<1>3. Named(tree, archive, C, N) /\ Linked(tree, archive, C, N) /\ Found(tree, N) /\ Ended(N)
  BY DEF Following, IsGraph
<1>4. ASSUME NEW i \in DOMAIN nodes, NEW k \in DOMAIN N, Like(nodes[i], N[k])
      PROVE  Twins(nodes[i], N[k])
  <2>1. PICK m \in DOMAIN N : Twins(nodes[i], N[m])
    BY DEF Following, Follows
  <2>2. m = k
    BY <1>3, <1>4, <2>1, OnceInGraph DEF Twins, Like
  <2> QED
    BY <2>1, <2>2
<1>5. ASSUME NEW i \in DOMAIN nodes, NEW k \in DOMAIN N, Twins(nodes[i], N[k]),
             NEW e \in nodes[i].edges
      PROVE  \E f \in N[k].edges :
               /\ f.alias = e.alias /\ e.to \in DOMAIN nodes /\ f.to \in DOMAIN N
               /\ Twins(nodes[e.to], N[f.to])
  <2>1. PICK d \in Deps(i) : Edge(i, d, e)
    BY <1>2 DEF Exact
  <2>2. PICK s \in Targets(nodes[i], d) : e.to \in At(s)
    BY <2>1 DEF Edge, Lead
  <2>3. Resolved(d) /\ Like(nodes[i], N[k]) /\ e.alias = d.alias
    BY <1>5, <2>1 DEF Edge, Lead, Twins
  <2>4. PICK f \in N[k].edges :
          /\ f.alias = d.alias /\ f.to \in DOMAIN N
          /\ LinkIn(tree, archive, C, N[k], d, N[f.to])
    BY <2>3, TwinLeads
  <2>5. Like(N[f.to], s)
    BY <2>2, <2>3, <2>4, TwinLeads
  <2>6. e.to \in DOMAIN nodes /\ Like(nodes[e.to], N[f.to])
    BY <2>2, <2>5 DEF Like, At
  <2> QED
    BY <1>4, <2>3, <2>4, <2>6
<1>6. ASSUME NEW i \in DOMAIN nodes, NEW k \in DOMAIN N, Twins(nodes[i], N[k]),
             NEW f \in N[k].edges
      PROVE  \E e \in nodes[i].edges : e.to \in DOMAIN nodes /\ Twins(nodes[e.to], N[f.to])
  <2>1. Like(nodes[i], N[k])
    BY <1>6 DEF Twins
  <2>2. f.to \in DOMAIN N
    BY <1>3 DEF Linked
  <2>3. PICK d \in Deps(i) : LinkIn(tree, archive, C, N[k], d, N[f.to])
    BY <1>3, <2>1, TwinLeads DEF Linked
  <2>4. PICK e \in nodes[i].edges : Edge(i, d, e)
    BY <1>2 DEF Exact
  <2>5. PICK s \in Targets(nodes[i], d) : e.to \in At(s)
    BY <2>4 DEF Edge, Lead
  <2>6. Resolved(d)
    BY <2>4 DEF Edge, Lead
  <2>7. Like(N[f.to], s)
    BY <2>1, <2>3, <2>5, <2>6, TwinLeads
  <2>8. e.to \in DOMAIN nodes /\ Like(nodes[e.to], N[f.to])
    BY <2>5, <2>7 DEF Like, At
  <2> QED
    BY <1>4, <2>2, <2>8
<1>7. ASSUME NEW i \in DOMAIN nodes, NEW k \in DOMAIN N, Twins(nodes[i], N[k])
      PROVE  Entry(nodes, home, i) = Entry(N, home, k)
  <2>1. \A j \in DOMAIN nodes, m \in DOMAIN N : Twins(nodes[j], N[m]) => Id(nodes[j]) = Id(N[m])
    BY DEF Twins, Like, Id
  <2>2. \A e \in nodes[i].edges : \E f \in N[k].edges : Id(nodes[e.to]) = Id(N[f.to])
    BY <1>5, <1>7, <2>1
  <2>3. \A f \in N[k].edges : \E e \in nodes[i].edges : Id(nodes[e.to]) = Id(N[f.to])
    <3> TAKE f \in N[k].edges
    <3>1. f.to \in DOMAIN N
      BY <1>3 DEF Linked
    <3> QED
      BY <1>6, <1>7, <2>1, <3>1
  <2>4. {Id(nodes[e.to]) : e \in nodes[i].edges} = {Id(N[f.to]) : f \in N[k].edges}
    BY <2>2, <2>3
  <2>5. Id(nodes[i]) = Id(N[k]) /\ nodes[i].origin = N[k].origin
    BY <1>7, <2>1 DEF Twins, Like
  <2> QED
    BY <2>4, <2>5 DEF Entry
<1>8. ASSUME NEW k \in DOMAIN N
      PROVE  \E i \in DOMAIN nodes : Twins(nodes[i], N[k])
  <2> DEFINE U == {x \in DOMAIN N : \A i \in DOMAIN nodes : ~Twins(nodes[i], N[x])}
  <2>1. U \subseteq Nat
    BY <1>3 DEF Named
  <2> SUFFICES ASSUME U # {} PROVE FALSE
    OBVIOUS
  <2>2. PICK x \in U : \A y \in U : ~(y < x)
    BY <2>1, LeastNumber
  <2>3. CASE N[x].place \in Seeds(tree[Root])
    <3>1. PICK y \in DOMAIN N : N[y].place = N[x].place /\ N[y].origin = Workspace
      BY <1>3, <2>3 DEF Found
    <3>2. y = x
      BY <1>3, <2>2, <3>1, OnceInGraph
    <3>3. PICK s \in Starts : s = [place |-> N[x].place, origin |-> Workspace]
      BY <2>3 DEF Starts, Following
    <3>4. At(s) # {}
      BY <1>1 DEF Following, GraphInv, SeedsInv
    <3>5. PICK i \in DOMAIN nodes : Like(nodes[i], N[x])
      BY <3>1, <3>2, <3>3, <3>4 DEF At, Like
    <3> QED
      BY <1>4, <2>2, <3>5
  <2>4. CASE \E y \in DOMAIN N : y < x /\ \E f \in N[y].edges : f.to = x
    <3>1. PICK y \in DOMAIN N : y < x /\ \E f \in N[y].edges : f.to = x
      BY <2>4
    <3>2. PICK i \in DOMAIN nodes : Twins(nodes[i], N[y])
      BY <2>2, <3>1
    <3> QED
      BY <1>6, <2>2, <3>1, <3>2
  <2> QED
    BY <1>3, <2>2, <2>3, <2>4 DEF Found
<1>9. LockOf(nodes, home) = LockOf(N, home)
  <2>1. \A i \in DOMAIN nodes : \E k \in DOMAIN N : Entry(nodes, home, i) = Entry(N, home, k)
    BY <1>7 DEF Following, Follows
  <2>2. \A k \in DOMAIN N : \E i \in DOMAIN nodes : Entry(nodes, home, i) = Entry(N, home, k)
    BY <1>7, <1>8
  <2> QED
    BY <2>1, <2>2 DEF LockOf
<1>10. ASSUME NEW i \in DOMAIN nodes, NEW d \in nodes[i].edges, NEW e \in nodes[i].edges,
              d # e, d.alias = e.alias
       PROVE  FALSE
  <2>1. PICK k \in DOMAIN N : Twins(nodes[i], N[k])
    BY DEF Following, Follows
  <2>2. PICK f \in N[k].edges : /\ f.alias = d.alias /\ d.to \in DOMAIN nodes
                                /\ f.to \in DOMAIN N /\ Twins(nodes[d.to], N[f.to])
    BY <1>5, <2>1
  <2>3. PICK g \in N[k].edges : /\ g.alias = e.alias /\ e.to \in DOMAIN nodes
                                /\ g.to \in DOMAIN N /\ Twins(nodes[e.to], N[g.to])
    BY <1>5, <2>1
  <2>4. f = g
    BY <1>3, <1>10, <2>2, <2>3 DEF Ended
  <2>5. d.to = e.to
    BY <2>2, <2>3, <2>4 DEF Twins, OneSourcePerName
  <2>6. d \in Edges /\ e \in Edges
    BY NodeType
  <2> QED
    BY <1>10, <2>5, <2>6 DEF Edges
<1> QED
  BY <1>9, <1>10 DEF DoubledAlias

LEMMA RenderedLock == Rendered = LockOf(nodes, home)
BY DEF Rendered, LockOf, Entry, Url

\* Where a dependency leads has the name it asks for.
LEMMA TargetName ==
  ASSUME ReadsInv, Live, steady, NEW n, NEW d \in Dependencies, NEW s \in Targets(n, d),
         NEW i \in At(s)
  PROVE  d.package \in {None, nodes[i].name}
<1>1. ASSUME NEW p, NEW origin, s \in Select(p, origin, d.package)
      PROVE  d.package \in {None, Manifest(s.place).package.name}
  BY <1>1 DEF Select
<1>2. d.package \in {None, Manifest(s.place).package.name}
  BY <1>1 DEF Targets, Dependencies
<1> QED
  BY <1>2 DEF ReadsInv, At

LEMMA StepFollows ==
  ASSUME TypeOK, TypeOK', OneSourcePerName, DepthFirst, LockInv, LockInv', ReadsInv,
         phase = "walking", locked, steady, Step, NEW C, NEW N, Following(C, N)
  PROVE  /\ Follows(C, N)'
         /\ phase' = "idle" => outcome' \in {"ok", "fetch", "changed"}
<1> DEFINE goal == /\ Follows(C, N)'
                   /\ phase' = "idle" => outcome' \in {"ok", "fetch", "changed"}
<1>1. ASSUME UNCHANGED <<lock, home, chosen, nodes>>, call' \in {call, None}
      PROVE  Follows(C, N)'
  BY <1>1 DEF Following, Follows
<1>2. ASSUME NEW how \in {"ok", "fetch", "changed"}, Stop(how)
      PROVE  goal
  BY <1>1, <1>2 DEF Stop, End, world, kept, walk
<1>3. ASSUME UNCHANGED <<phase, lock, home, chosen, nodes>>,
             call' # None => \E k \in DOMAIN N : Like(N[k], call')
      PROVE  goal
  BY <1>3 DEF Following, Follows
<1>4. ASSUME NEW s \in seeds, CallSeed(s) PROVE goal
  <2>1. s \in Starts
    BY DEF Following, GraphInv, SeedsInv
  <2>2. PICK p \in Seeds(tree[Root]) : s.place = p /\ s.origin = Workspace
    BY <2>1 DEF Starts, Following
  <2>3. \E k \in DOMAIN N : Like(N[k], s)
    BY <2>2 DEF Following, IsGraph, Found, Like
  <2> QED
    BY <1>3, <1>4, <2>3 DEF CallSeed, world, kept, ended
<1>5. ASSUME NEW d \in Frame.todo, Pick(d) PROVE goal
  BY <1>3, <1>5 DEF Pick, Idle, world, kept, ended
<1>6. CASE FetchFails
  BY <1>2, <1>6 DEF FetchFails
<1>7. CASE Materialize
  <2>1. PICK r : r = ReleaseOf(Frame.dep)
    OBVIOUS
  <2>2. r \in Release /\ hints[r] = C[r] /\ C[r] # None
    BY <1>7, <2>1, AskedIsPinned DEF Materialize
  <2>3. PICK found : found = IF hints[r] \in cached THEN hints[r] ELSE index[r]
    OBVIOUS
  <2>4. \/ Stop("fetch") \/ Stop("changed")
        \/ /\ hints[r] = found
           /\ chosen' = [chosen EXCEPT ![r] = found]
           /\ UNCHANGED <<world, kept, ended, given, walk>>
    BY <1>7, <2>1, <2>2, <2>3, ZenonT(60) DEF Materialize
  <2>5. ASSUME hints[r] = found, chosen' = [chosen EXCEPT ![r] = found],
               UNCHANGED <<world, kept, ended, given, walk>>
        PROVE  goal
    <3>1. \A x \in Release : chosen'[x] # None => chosen'[x] = C[x]
      BY <2>2, <2>5 DEF Following, Follows, TypeOK
    <3> QED
      BY <2>5, <3>1 DEF Following, Follows, world, kept, ended, walk
  <2> QED
    BY <1>2, <2>4, <2>5
<1>8. CASE CallDependency
  <2>1. Picked /\ stack # <<>> /\ Frame.dep # None
    BY <1>8 DEF CallDependency, Ready, Picked
  <2>2. PICK k \in DOMAIN N : Twins(nodes[Frame.node], N[k])
    BY <2>1, TopTwin
  <2>3. Frame.node \in DOMAIN nodes /\ Frame.dep \in Deps(Frame.node) /\ Resolved(Frame.dep)
    BY <1>8, <2>1, TopTwin DEF CallDependency, Ready, Resolved
  <2>4. PICK e \in N[k].edges :
          e.to \in DOMAIN N /\ LinkIn(tree, archive, C, N[k], Frame.dep, N[e.to])
    BY <2>2, <2>3, TwinLeads DEF Twins
  <2>5. /\ Targets(nodes[Frame.node], Frame.dep) # {}
        /\ \A s \in Targets(nodes[Frame.node], Frame.dep) : Like(N[e.to], s)
    BY <2>2, <2>3, <2>4, TwinLeads DEF Twins
  <2>6. PICK s \in Targets(nodes[Frame.node], Frame.dep) :
          call' = s /\ UNCHANGED <<world, cached, kept, ended, given, chosen, seeds, nodes>>
    BY <1>8, <2>5 DEF CallDependency
  <2> QED
    BY <1>3, <2>4, <2>5, <2>6 DEF world, kept, ended
<1>9. CASE Cycle
  BY <1>9, NoWayBack DEF Cycle, Calling
<1>10. CASE NoPackage
  BY <1>10, CalledTwin DEF NoPackage, Calling
<1>11. CASE Conflict
  BY <1>11, CalledTwin DEF Conflict, Calling, NamedLike
<1>12. CASE Reuse
  <2>1. PICK i \in At(call) : Return(i, stack)
    BY <1>12 DEF Reuse
  <2>2. call # None /\ call' = None /\ UNCHANGED <<world, kept, chosen, nodes>>
    BY <1>12 DEF Reuse, Calling
  <2>3. stack # <<>> => Frame.dep.package \in {None, nodes[i].name}
    <3> SUFFICES ASSUME stack # <<>> PROVE Frame.dep.package \in {None, nodes[i].name}
      OBVIOUS
    <3>1. Frame.dep # None
      BY <2>2, FrameType DEF TypeOK, Frame
    <3>2. Frame.dep \in Dependencies
      BY <3>1, TopTwin
    <3>3. call \in Targets(nodes[Frame.node], Frame.dep)
      BY <2>2 DEF Following, GraphInv, CallInv
    <3> QED
      BY <3>2, <3>3, TargetName DEF Live
  <2>4. phase' = phase
    BY <2>1, <2>3 DEF Return, ended, Frame
  <2> QED
    BY <1>3, <2>2, <2>4 DEF world, kept
<1>13. CASE Visit
  <2>1. PICK k \in DOMAIN N : /\ Like(N[k], call)
                              /\ N[k].name = Manifest(call.place).package.name
                              /\ N[k].version = Manifest(call.place).package.version
    BY <1>13, CalledTwin DEF Visit, Calling
  <2>2. PICK n, c : n = Len(nodes) + 1 /\
          nodes' = Append(nodes, [place |-> call.place, origin |-> call.origin,
            name |-> Manifest(call.place).package.name,
            version |-> Manifest(call.place).package.version,
            chain |-> c, edges |-> {}, done |-> FALSE])
    BY <1>13 DEF Visit
  <2>3. /\ DOMAIN nodes' = DOMAIN nodes \cup {n}
        /\ \A j \in DOMAIN nodes : nodes'[j] = nodes[j]
    BY <1>13, <2>2, VisitEffect
  <2>4. nodes'[n] = [place |-> call.place, origin |-> call.origin,
            name |-> Manifest(call.place).package.name,
            version |-> Manifest(call.place).package.version,
            chain |-> c, edges |-> {}, done |-> FALSE]
    <3> DEFINE new == [place |-> call.place, origin |-> call.origin,
            name |-> Manifest(call.place).package.name,
            version |-> Manifest(call.place).package.version,
            chain |-> c, edges |-> {}, done |-> FALSE]
    <3>1. nodes' = Append(nodes, new) /\ nodes \in Seq(Nodes)
      BY <2>2 DEF TypeOK
    <3> HIDE DEF new
    <3>2. nodes'[n] = new
      BY <2>2, <3>1
    <3> QED
      BY <3>2 DEF new
  <2>5. Twins(nodes'[n], N[k])
    BY <2>1, <2>4 DEF Twins, Like
  <2>6. \A i \in DOMAIN nodes' : \E m \in DOMAIN N : Twins(nodes'[i], N[m])
    BY <2>3, <2>5 DEF Following, Follows
  <2>7. call' = None /\ UNCHANGED <<world, kept, ended, chosen>>
    BY <1>13 DEF Visit
  <2> QED
    BY <2>6, <2>7 DEF Following, Follows, world, kept, ended
<1>14. CASE Leave
  <2>1. /\ Frame.node \in DOMAIN nodes /\ nodes[Frame.node] \in Nodes
        /\ nodes' = [nodes EXCEPT ![Frame.node] =
                       [@ EXCEPT !.edges = Frame.edges, !.done = TRUE]]
        /\ Return(Frame.node, SubSeq(stack, 1, Len(stack) - 1))
    BY <1>14, FrameType DEF Leave
  <2>2. call' = call /\ UNCHANGED <<world, kept, chosen>> /\ stack # <<>>
    BY <1>14 DEF Leave
  <2>3. DOMAIN nodes' = DOMAIN nodes
    BY <2>1
  <2>4. ASSUME NEW i \in DOMAIN nodes
        PROVE  /\ nodes'[i].place = nodes[i].place /\ nodes'[i].name = nodes[i].name
               /\ nodes'[i].version = nodes[i].version
               /\ nodes'[i].origin = nodes[i].origin
    BY <2>1 DEF Nodes
  <2>5. \A i \in DOMAIN nodes' : \E m \in DOMAIN N : Twins(nodes'[i], N[m])
    BY <2>3, <2>4 DEF Following, Follows, Twins, Like
  <2>6. Follows(C, N)'
    BY <2>2, <2>5 DEF Following, Follows, world, kept
  <2>7. phase' = phase
    <3>1. PICK rest : rest = SubSeq(stack, 1, Len(stack) - 1)
      OBVIOUS
    <3>2. CASE rest = <<>>
      BY <2>1, <3>1, <3>2 DEF Return, ended
    <3>3. CASE rest # <<>>
      <4>1. /\ Len(stack) \in DOMAIN stack /\ Len(stack) - 1 \in DOMAIN stack
            /\ Len(stack) # 1 /\ Len(stack) \in Nat
            /\ rest[Len(rest)] = stack[Len(stack) - 1]
        BY <2>2, <3>1, <3>3, ButLast DEF TypeOK
      <4>2. PICK m \in DOMAIN stack : m = Len(stack) - 1 /\ m < Len(stack)
        BY <4>1
      <4>3. PICK d : d = stack[m].dep
        OBVIOUS
      <4>4. Lead(stack[m].node, d, Frame.node)
        BY <4>1, <4>2, <4>3 DEF Following, GraphInv, PathInv, Frame
      <4>5. d # None /\ stack[m].node \in DOMAIN nodes
        BY <4>2, <4>3 DEF TypeOK
      <4>6. d \in Deps(stack[m].node)
        BY <4>3, <4>5 DEF Following, GraphInv, FramesInv
      <4>7. d \in Dependencies
        BY <4>5, <4>6, TwinLeads DEF Following, Follows, Twins
      <4>8. d.package \in {None, nodes[Frame.node].name}
        BY <4>4, <4>7, TargetName DEF Live, Lead
      <4>9. rest[Len(rest)].dep = d
        BY <4>1, <4>2, <4>3
      <4> QED
        BY <2>1, <3>1, <3>3, <4>8, <4>9 DEF Return, ended
    <3> QED
      BY <3>2, <3>3
  <2> QED
    BY <2>6, <2>7
<1>15. CASE Finish
  <2>1. Walked
    BY <1>15 DEF Finish, Walked
  <2>2. ~DoubledAlias /\ Rendered = lock
    BY <2>1, AllFollowed, RenderedLock DEF Following, Follows
  <2>3. Stop("ok")
    BY <1>15, <2>2 DEF Finish
  <2> QED
    BY <1>2, <2>3
<1> QED
  BY <1>4, <1>5, <1>6, <1>7, <1>8, <1>9, <1>10, <1>11, <1>12, <1>13, <1>14, <1>15 DEF Step

\* The lockfile is that of the graph of the tree it was written for, and a locked
\* walk over that tree follows it.
WitnessInv ==
  /\ tree \in Trees /\ from \in Trees \cup {None}
  /\ lock \notin NoLock /\ from # None =>
       \E C, N : IsGraph(from, archive, C, N) /\ lock = LockOf(N, home)
FollowInv ==
  phase = "walking" /\ locked /\ steady /\ from = tree =>
    \E C, N : IsGraph(tree, archive, C, N) /\ Follows(C, N)
Stays == LocalRepo = {} \/ "move" \notin Changes

\* What a step of the walk leaves alone.
LEMMA StepKeeps ==
  ASSUME Step
  PROVE  /\ phase = "walking" /\ UNCHANGED <<tree, archive, home, locked, steady>>
         /\ \/ UNCHANGED <<lock, from>>
            \/ /\ Finish /\ ~DoubledAlias /\ ~locked /\ phase' = "idle"
               /\ lock' = Rendered /\ from' = IF steady THEN tree ELSE None
<1>1. CASE \E s \in seeds : CallSeed(s)
  BY <1>1 DEF CallSeed, Idle, world, given, kept
<1>2. CASE \E d \in Frame.todo : Pick(d)
  BY <1>2 DEF Pick, Idle, world, given, kept
<1>3. CASE Materialize
  BY <1>3 DEF Materialize, Picked, Idle, Stop, world, given, kept
<1>4. CASE CallDependency
  BY <1>4 DEF CallDependency, Ready, Picked, Idle, Stop, world, given, kept
<1>5. CASE FetchFails
  BY <1>5 DEF FetchFails, Picked, Idle, Stop, world, given, kept
<1>6. CASE Cycle \/ NoPackage \/ Conflict
  BY <1>6 DEF Cycle, NoPackage, Conflict, Calling, Stop, world, given, kept
<1>7. CASE Reuse \/ Visit \/ Leave
  BY <1>7 DEF Reuse, Visit, Leave, Calling, Idle, world, given, kept
<1>8. CASE Finish
  BY <1>8 DEF Finish, Idle, Stop, End, world, given, kept
<1> QED
  BY <1>1, <1>2, <1>3, <1>4, <1>5, <1>6, <1>7, <1>8 DEF Step

LEMMA LockMoves ==
  ASSUME Stays, [Next]_vars, NEW N
  PROVE  LockOf(N, home') = LockOf(N, home)
<1>1. home' = home \/ "move" \in Changes
  <2>1. CASE Step
    BY <2>1, StepKeeps
  <2>2. CASE ~Step
    BY <2>2 DEF Next, Begin, Edit, Move, Publish, Clean, vars, world
  <2> QED
    BY <2>1, <2>2
<1> QED
  BY <1>1 DEF Stays, LockOf, Entry

LEMMA ArchivesStay ==
  ASSUME TypeOK, TypeOK', [Next]_vars, NEW t, NEW C, NEW N, IsGraph(t, archive, C, N)
  PROVE  IsGraph(t, archive, C, N)'
<1>0. PICK b : b = archive'
  OBVIOUS
<1>1. \A d \in Digest : archive[d] # None => archive'[d] = archive[d]
  <2>1. CASE Step
    BY <2>1, StepKeeps
  <2>2. CASE \E p \in Place, d \in Digest : Publish(p, d)
    BY <2>2 DEF Publish, TypeOK
  <2>3. CASE ~Step /\ ~\E p \in Place, d \in Digest : Publish(p, d)
    BY <2>3 DEF Next, Begin, Edit, Move, Clean, vars, world
  <2> QED
    BY <2>1, <2>2, <2>3
<1>2. archive' \in [Digest -> Manifests \cup {None}]
  BY DEF TypeOK
<1>3. IsGraph(t, b, C, N)
  BY <1>0, <1>1, <1>2, GraphGrows
<1> QED
  BY <1>0, <1>3

LEMMA NextWitness ==
  ASSUME Stays, TypeOK, TypeOK', OneSourcePerName, DepthFirst, GraphIsAcyclic, LockInv,
         WalkInv, ReadsInv, WitnessInv, [Next]_vars
  PROVE  WitnessInv'
<1>1. tree' \in Trees
  <2>1. CASE Step
    BY <2>1, StepKeeps DEF WitnessInv
  <2>2. CASE ~Step
    BY <2>2, ResolverAssumption
       DEF WitnessInv, Next, Begin, Edit, Move, Publish, Clean, vars, world
  <2> QED
    BY <2>1, <2>2
<1>2. CASE UNCHANGED <<lock, from>>
  <2>1. ASSUME lock \notin NoLock, from # None
        PROVE  (\E C, N : IsGraph(from, archive, C, N) /\ lock = LockOf(N, home))'
    <3>1. PICK C, N : IsGraph(from, archive, C, N) /\ lock = LockOf(N, home)
      BY <2>1 DEF WitnessInv
    <3>2. PICK t : t = from
      OBVIOUS
    <3>3. IsGraph(t, archive, C, N)' /\ lock = LockOf(N, home')
      BY <3>1, <3>2, ArchivesStay, LockMoves
    <3> QED
      BY <1>2, <3>2, <3>3
  <2> QED
    BY <1>1, <1>2, <2>1 DEF WitnessInv, NoLock
<1>3. CASE /\ Finish /\ ~DoubledAlias /\ lock' = Rendered
           /\ from' = (IF steady THEN tree ELSE None) /\ UNCHANGED <<archive, home>>
  <2>1. CASE steady
    <3>1. IsGraph(tree, archive, chosen, nodes)
      BY <1>3, <2>1, EndsInGraph DEF Finish, Walked
    <3>2. lock' = LockOf(nodes, home)
      BY <1>3, RenderedLock
    <3>3. \E C, N : IsGraph(tree, archive, C, N) /\ lock' = LockOf(N, home)
      BY <3>1, <3>2
    <3>4. from' = tree /\ archive' = archive /\ home' = home
      BY <1>3, <2>1
    <3> QED
      BY <1>1, <3>3, <3>4 DEF WitnessInv
  <2>2. CASE ~steady
    BY <1>1, <1>3, <2>2 DEF WitnessInv
  <2> QED
    BY <2>1, <2>2
<1>4. CASE Step
  BY <1>2, <1>3, <1>4, StepKeeps
<1>5. CASE ~Step
  <2>1. UNCHANGED <<lock, from>>
    BY <1>5 DEF Next, Begin, Edit, Move, Publish, Clean, vars, kept
  <2> QED
    BY <1>2, <2>1
<1> QED
  BY <1>4, <1>5

\* The graph that a locked walk follows, as long as it does.
LEMMA FollowsOne ==
  ASSUME WalkInv, ReadsInv, FollowInv, phase = "walking", locked, steady, from = tree
  PROVE  \E C, N : Following(C, N)
BY DEF WalkInv, ReadsInv, FollowInv, Live, Following

LEMMA NextFollow ==
  ASSUME Stays, TypeOK, TypeOK', OneSourcePerName, DepthFirst, LockInv, LockInv',
         WalkInv, ReadsInv, WitnessInv, FollowInv, [Next]_vars
  PROVE  FollowInv'
<1> SUFFICES ASSUME phase' = "walking", locked', steady', from' = tree'
             PROVE  \E C, N : IsGraph(tree, archive, C, N)' /\ Follows(C, N)'
  BY DEF FollowInv
<1>1. CASE Step
  <2>1. /\ phase = "walking" /\ locked /\ steady /\ from = tree
        /\ UNCHANGED <<tree, archive>>
    BY <1>1, StepKeeps
  <2>2. PICK C, N : Following(C, N)
    BY <2>1, FollowsOne
  <2>3. Follows(C, N)'
    BY <1>1, <2>1, <2>2, StepFollows
  <2> QED
    BY <2>1, <2>2, <2>3 DEF Following
<1>2. CASE \E l \in BOOLEAN : Begin(l)
  <2>1. /\ lock \notin NoLock /\ nodes' = <<>> /\ call' = None
        /\ chosen' = [r \in Release |-> None] /\ UNCHANGED <<tree, archive, home, lock, from>>
    BY <1>2 DEF Begin, world
  <2>2. from # None
    BY <2>1, ResolverAssumption DEF WitnessInv
  <2>3. PICK C, N : IsGraph(from, archive, C, N) /\ lock = LockOf(N, home)
    BY <2>1, <2>2 DEF WitnessInv
  <2>4. Follows(C, N)'
    BY <2>1, <2>3 DEF Follows, NoLock
  <2> QED
    BY <2>1, <2>3, <2>4
<1>3. CASE ~Step /\ ~\E l \in BOOLEAN : Begin(l)
  <2>1. UNCHANGED <<phase, locked, steady, tree, lock, from, chosen, nodes, call>>
    BY <1>3 DEF Next, Edit, Move, Publish, Clean, vars, world, kept, ended, given, walk
  <2>2. PICK C, N : IsGraph(tree, archive, C, N) /\ Follows(C, N)
    BY <2>1 DEF FollowInv
  <2>3. PICK t : t = tree
    OBVIOUS
  <2>4. IsGraph(t, archive, C, N)' /\ LockOf(N, home') = LockOf(N, home)
    BY <2>2, <2>3, ArchivesStay, LockMoves
  <2>5. Follows(C, N)'
    BY <2>1, <2>2, <2>4 DEF Follows, NoLock
  <2> QED
    BY <2>1, <2>3, <2>4, <2>5
<1> QED
  BY <1>1, <1>2, <1>3

\* A lockfile that was written for the manifests as they are is neither stale nor
\* incomplete for sync --locked, in whatever order the graph is walked, whatever
\* the registry publishes and the cache loses meanwhile, unless the project is
\* moved and names a repository by a relative path.
THEOREM OwnLockStaysFresh ==
  ASSUME Stays
  PROVE  Spec => OwnLockIsFresh
<1> DEFINE Inv == /\ TypeOK /\ OneSourcePerName /\ DepthFirst /\ GraphIsAcyclic /\ LockInv
                  /\ WalkInv
           Fresh == phase = "walking" /\ phase' = "idle" /\ locked /\ steady /\ from = tree
                      => outcome' \in {"ok", "fetch", "changed"}
<1>1. Spec => []Inv
  <2>1. Spec => []LockInv
    BY InitLockInv, NextLockInv, TypeCorrect, NamesAreUnique, PTL DEF Spec
  <2> QED
    BY <2>1, TypeCorrect, NamesAreUnique, GraphHasNoCycle, WalkCorrect, PTL
<1>2. Init => ReadsInv /\ WitnessInv /\ FollowInv
  BY DEF Init, ReadsInv, WitnessInv, FollowInv, Live
<1>3. Inv /\ Inv' /\ ReadsInv /\ WitnessInv /\ FollowInv /\ [Next]_vars
        => (ReadsInv /\ WitnessInv /\ FollowInv)'
  BY NextReads, NextWitness, NextFollow
<1>4. Inv /\ Inv' /\ ReadsInv /\ WitnessInv /\ FollowInv /\ [Next]_vars => [Fresh]_vars
  <2> SUFFICES ASSUME Inv, Inv', ReadsInv, FollowInv, [Next]_vars, phase = "walking",
                      phase' = "idle", locked, steady, from = tree
               PROVE  outcome' \in {"ok", "fetch", "changed"}
    OBVIOUS
  <2>1. Step
    BY DEF Next, Begin, Edit, Move, Publish, Clean, vars, ended
  <2>2. PICK C, N : Following(C, N)
    BY FollowsOne
  <2> QED
    BY <2>1, <2>2, StepFollows
<1> HIDE DEF Inv
<1> QED
  BY <1>1, <1>2, <1>3, <1>4, PTL DEF Spec, OwnLockIsFresh, Fresh
=============================================================================
