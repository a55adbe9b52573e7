-------------------------- MODULE FoundationProofs --------------------------
(***************************************************************************)
(* What TLAPS proves of the three components that the commands rest on and *)
(* that know nothing of each other: durable file writes (AtomicFile), the  *)
(* external programs (ProcessRunner) and the git snapshots (GitSnapshots). *)
(* Their definitions have different names, so that each part reads as if   *)
(* it were alone.                                                          *)
(***************************************************************************)
EXTENDS AtomicFile, ProcessRunner, GitSnapshots, TLAPS

-----------------------------------------------------------------------------
(* AtomicFile, for every number of callers and names.                       *)

Done(c) == [data |-> c, synced |-> TRUE]

\* What a call in each phase has.
CallOK(w) ==
  /\ phase[w] \notin Resting => content[w] \in Content
  /\ phase[w] \notin Resting \cup {"create"} => name[w] \in Name
  /\ phase[w] \in Resting \cup {"create"} => name[w] = NoName
  /\ phase[w] \in {"write", "sync", "close", "rename"} =>
       temp[name[w]] # Missing
  /\ phase[w] = "sync" => temp[name[w]].data = content[w]
  /\ phase[w] \in {"close", "rename"} => temp[name[w]] = Done(content[w])
  /\ phase[w] = "syncDir" => temp[name[w]] = Missing

NamesDiffer ==
  \A v, w \in Writer : name[v] = name[w] /\ name[v] # NoName => v = w

IInv ==
  /\ TypeOK
  /\ \A w \in Writer : CallOK(w)
  /\ NamesDiffer
  /\ TargetIsWhole

LEMMA FileFacts ==
  /\ Missing \notin File
  /\ \A c \in Content : Done(c) \in File /\ Done(c) # Missing
BY AtomicFileAssumption DEF Missing, File, Done

LEMMA InitIInv == ASSUME Init PROVE IInv
BY AtomicFileAssumption
   DEF Init, IInv, TypeOK, CallOK, NamesDiffer, TargetIsWhole, File, Missing,
       Phases, Resting

\* A step that concerns one call and its own temporary file.
LEMMA OthersKeepTheirs ==
  ASSUME IInv, NEW w \in Writer,
         \A v \in Writer \ {w} : /\ phase'[v] = phase[v]
                                 /\ content'[v] = content[v]
                                 /\ name'[v] = name[v],
         \A n \in Name : n # name[w] /\ (\E v \in Writer : name[v] = n)
                           => temp'[n] = temp[n],
         NEW v \in Writer \ {w}
  PROVE  CallOK(v)'
<1>1. CallOK(v) /\ name[v] # NoName => name[v] # name[w]
  BY DEF IInv, NamesDiffer
<1>2. phase[v] \notin Resting \cup {"create"} => temp'[name[v]] = temp[name[v]]
  BY <1>1, AtomicFileAssumption DEF IInv, CallOK
<1> QED BY <1>2 DEF IInv, TypeOK, CallOK, Resting

LEMMA NextIInv == ASSUME IInv, [Next]_vars PROVE IInv'
<1>1. CASE UNCHANGED vars
  BY <1>1 DEF IInv, TypeOK, CallOK, NamesDiffer, TargetIsWhole, vars
<1>2. ASSUME NEW w \in Writer, NEW c \in Content, Start(w, c) PROVE IInv'
  BY <1>2 DEF IInv, TypeOK, CallOK, Resting, NamesDiffer, TargetIsWhole, Start,
              Goto, Phases, Resting
<1>3. ASSUME NEW w \in Writer, CreateTemp(w) PROVE IInv'
  <2> PICK n \in Name :
        /\ temp[n] = Missing
        /\ \A v \in Writer : name[v] # n
        /\ temp' = [temp EXCEPT ![n] = [data |-> "partial", synced |-> FALSE]]
        /\ name' = [name EXCEPT ![w] = n]
    BY <1>3 DEF CreateTemp
  <2>1. TypeOK'
    BY <1>3 DEF IInv, TypeOK, CreateTemp, Goto, Phases, Resting, File
  <2>2. \A v \in Writer \ {w} : CallOK(v)'
    BY <1>3, OthersKeepTheirs DEF IInv, TypeOK, CreateTemp, Goto
  <2>3. CallOK(w)'
    BY <1>3, AtomicFileAssumption
       DEF IInv, TypeOK, CallOK, Resting, CreateTemp, Goto, Missing
  <2>4. NamesDiffer'
    BY DEF IInv, TypeOK, NamesDiffer
  <2>5. TargetIsWhole'
    BY <1>3 DEF IInv, TargetIsWhole, CreateTemp
  <2> QED BY <2>1, <2>2, <2>3, <2>4, <2>5 DEF IInv
<1>4. ASSUME NEW w \in Writer, WriteAll(w) PROVE IInv'
  <2>1. name[w] \in Name /\ content[w] \in Content
    BY <1>4 DEF IInv, CallOK, Resting, WriteAll
  <2>2. TypeOK'
    BY <1>4, <2>1 DEF IInv, TypeOK, WriteAll, Goto, Phases, Resting, File
  <2>3. \A v \in Writer \ {w} : CallOK(v)'
    BY <1>4, <2>1, OthersKeepTheirs DEF IInv, TypeOK, WriteAll, Goto
  <2>4. CallOK(w)'
    BY <1>4, <2>1, AtomicFileAssumption
       DEF IInv, TypeOK, CallOK, Resting, WriteAll, Goto, Missing
  <2>5. NamesDiffer' /\ TargetIsWhole'
    BY <1>4 DEF IInv, NamesDiffer, TargetIsWhole, WriteAll
  <2> QED BY <2>2, <2>3, <2>4, <2>5 DEF IInv
<1>5. ASSUME NEW w \in Writer, SyncTemp(w) PROVE IInv'
  <2>1. /\ name[w] \in Name /\ content[w] \in Content
        /\ temp' = [temp EXCEPT ![name[w]] = Done(content[w])]
    BY <1>5 DEF IInv, CallOK, Resting, SyncTemp, TypeOK, Done
  <2>2. TypeOK'
    BY <1>5, <2>1, FileFacts DEF IInv, TypeOK, SyncTemp, Goto, Phases, Resting
  <2>3. \A v \in Writer \ {w} : CallOK(v)'
    BY <1>5, <2>1, OthersKeepTheirs DEF IInv, TypeOK, SyncTemp, Goto
  <2>4. CallOK(w)'
    <3>1. phase'[w] = "close" /\ name' = name /\ content' = content
      BY <1>5 DEF IInv, TypeOK, SyncTemp, Goto
    <3>2. temp'[name[w]] = Done(content[w])
      BY <2>1 DEF IInv, TypeOK
    <3> QED BY <2>1, <3>1, <3>2, FileFacts DEF CallOK, Resting
  <2>5. NamesDiffer' /\ TargetIsWhole'
    BY <1>5 DEF IInv, NamesDiffer, TargetIsWhole, SyncTemp
  <2> QED BY <2>2, <2>3, <2>4, <2>5 DEF IInv
<1>6. ASSUME NEW w \in Writer, CloseTemp(w) PROVE IInv'
  BY <1>6 DEF IInv, TypeOK, CallOK, Resting, NamesDiffer, TargetIsWhole, CloseTemp,
              Goto, Phases, Resting
<1>7. ASSUME NEW w \in Writer, Rename(w) PROVE IInv'
  <2>1. /\ name[w] \in Name /\ content[w] \in Content
        /\ target' = Done(content[w])
    BY <1>7 DEF IInv, CallOK, Resting, Rename
  <2>2. TypeOK'
    BY <1>7, <2>1, FileFacts DEF IInv, TypeOK, Rename, Goto, Phases, Resting
  <2>3. \A v \in Writer \ {w} : CallOK(v)'
    BY <1>7, <2>1, OthersKeepTheirs DEF IInv, TypeOK, Rename, Goto
  <2>4. CallOK(w)'
    BY <1>7, <2>1 DEF IInv, TypeOK, CallOK, Resting, Rename, Goto
  <2>5. NamesDiffer' /\ TargetIsWhole'
    BY <1>7, <2>1 DEF IInv, NamesDiffer, TargetIsWhole, Rename, Done
  <2> QED BY <2>2, <2>3, <2>4, <2>5 DEF IInv
<1>8. ASSUME NEW w \in Writer, SyncParent(w) \/ Kill(w) PROVE IInv'
  <2>1. TypeOK' /\ TargetIsWhole'
    BY <1>8 DEF IInv, TypeOK, TargetIsWhole, SyncParent, Kill, Return, Goto,
                Phases, Resting
  <2>2. \A v \in Writer : CallOK(v)'
    BY <1>8 DEF IInv, TypeOK, CallOK, Resting, SyncParent, Kill, Return, Goto
  <2>3. NamesDiffer'
    BY <1>8 DEF IInv, TypeOK, NamesDiffer, SyncParent, Kill, Return
  <2> QED BY <2>1, <2>2, <2>3 DEF IInv
<1>9. ASSUME NEW w \in Writer, CallFails(w) PROVE IInv'
  <2>1. TypeOK' /\ TargetIsWhole'
    BY <1>9 DEF IInv, TypeOK, TargetIsWhole, CallFails, Return, Goto, Phases, Resting
  <2>2. \A v \in Writer : CallOK(v)'
    BY <1>9 DEF IInv, TypeOK, CallOK, Resting, CallFails, Return, Goto, Phases
  <2>3. NamesDiffer'
    BY <1>9 DEF IInv, TypeOK, NamesDiffer, CallFails, Return
  <2> QED BY <2>1, <2>2, <2>3 DEF IInv
<1>10. ASSUME NEW w \in Writer, RemoveTemp(w) PROVE IInv'
  <2>1. TypeOK' /\ TargetIsWhole'
    BY <1>10 DEF IInv, TypeOK, TargetIsWhole, RemoveTemp, Return, Goto, Phases, Resting
  <2>2. \A v \in Writer \ {w} : name[v] # NoName => name[v] # name[w]
    BY DEF IInv, NamesDiffer
  <2>3. \A v \in Writer \ {w} : temp[name[v]] = temp'[name[v]] \/ name[v] = NoName
    BY <1>10, <2>2 DEF IInv, TypeOK, RemoveTemp
  <2>4. \A v \in Writer : CallOK(v)'
    BY <1>10, <2>3, AtomicFileAssumption
       DEF IInv, TypeOK, CallOK, Resting, RemoveTemp, Return, Goto
  <2>5. NamesDiffer'
    BY <1>10 DEF IInv, TypeOK, NamesDiffer, RemoveTemp, Return
  <2> QED BY <2>1, <2>4, <2>5 DEF IInv
<1>11. CASE PowerLoss
  <2> PICK f \in onDisk : target' \in AfterPowerLoss(f)
    BY <1>11 DEF PowerLoss
  <2>1. f \in File \cup {Missing} /\ f.synced = TRUE
    BY DEF IInv, TypeOK, TargetIsWhole, Missing
  <2>2. target' = [data |-> f.data, synced |-> TRUE]
    BY <2>1 DEF AfterPowerLoss
  <2>3. target' = f
    BY <2>1, <2>2 DEF File, Missing
  <2>4. \A g \in File \cup {Missing} : AfterPowerLoss(g) \subseteq File \cup {Missing}
    <3> SUFFICES ASSUME NEW g \in File \cup {Missing}, NEW h \in AfterPowerLoss(g)
                 PROVE  h \in File \cup {Missing}
      OBVIOUS
    <3>1. CASE g = Missing
      BY <3>1 DEF AfterPowerLoss, Missing
    <3>2. CASE g \in File
      <4>1. PICK d \in Content \cup {"partial"} : h = [data |-> d, synced |-> TRUE]
        BY <3>2 DEF AfterPowerLoss, File
      <4> QED BY <4>1 DEF File
    <3> QED BY <3>1, <3>2
  <2>5. TypeOK'
    BY <1>11, <2>1, <2>3, <2>4 DEF IInv, TypeOK, PowerLoss, Phases, Resting
  <2>6. TargetIsWhole'
    BY <1>11, <2>3 DEF IInv, TargetIsWhole, PowerLoss
  <2>7. (\A w \in Writer : CallOK(w))' /\ NamesDiffer'
    BY <1>11 DEF PowerLoss, CallOK, Resting, NamesDiffer
  <2> QED BY <2>5, <2>6, <2>7 DEF IInv
<1> QED
  BY <1>1, <1>2, <1>3, <1>4, <1>5, <1>6, <1>7, <1>8, <1>9, <1>10, <1>11
     DEF Next, Call

\* Errors, kills and losses of power never leave, nor ever bring back, a
\* target that is not one call's complete content.
THEOREM TargetAlwaysWhole == Spec => [](TypeOK /\ TargetIsWhole)
BY InitIInv, NextIInv, PTL DEF Spec, IInv

\* A call that returns or throws has left no temporary file beside the target,
\* unless it was the removal that failed (the catch block of AtomicWriteFile).
THEOREM LeavesNoLitter == Spec => NoLitter
<1> DEFINE Clean ==
      \A w \in Writer :
        name[w] # NoName /\ phase'[w] \in {"ok", "failed"} =>
          \/ temp'[name[w]] = Missing
          \/ phase[w] = "cleanup" /\ UNCHANGED temp
<1>1. IInv /\ [Next]_vars => [Clean]_vars
  <2> SUFFICES ASSUME IInv, Next, NEW w \in Writer,
                      name[w] # NoName, phase'[w] \in {"ok", "failed"}
               PROVE  \/ temp'[name[w]] = Missing
                      \/ phase[w] = "cleanup" /\ UNCHANGED temp
    OBVIOUS
  <2>1. /\ phase[w] \notin Resting \cup {"create"} /\ name[w] \in Name
        /\ CallOK(w) /\ phase[w] # phase'[w]
    BY DEF IInv, TypeOK, CallOK, Resting
  <2>2. \A v \in Writer \ {w} : \A next : Goto(v, next) => phase'[w] = phase[w]
    BY DEF Goto, IInv, TypeOK
  <2>3. CASE \E c \in Content : Start(w, c)
    BY <2>1, <2>3 DEF Start, Resting
  <2>4. CASE \E v \in Writer : CreateTemp(v) \/ WriteAll(v) \/ SyncTemp(v)
                                  \/ CloseTemp(v) \/ Rename(v) \/ Kill(v)
    BY <2>1, <2>2, <2>4
    DEF CreateTemp, WriteAll, SyncTemp, CloseTemp, Rename, Kill, Return, Goto, IInv, TypeOK
  <2>5. ASSUME NEW v \in Writer, CallFails(v)
        PROVE  FALSE
    <3>1. CASE v # w
      BY <2>1, <2>2, <2>5, <3>1 DEF CallFails, Return
    <3>2. CASE v = w
      BY <2>1, <2>5, <3>2 DEF CallFails, Goto, IInv, TypeOK
    <3> QED
      BY <3>1, <3>2
  <2>6. ASSUME NEW v \in Writer, RemoveTemp(v)
        PROVE  \/ temp'[name[w]] = Missing
               \/ phase[w] = "cleanup" /\ UNCHANGED temp
    <3>1. v = w
      BY <2>1, <2>2, <2>6 DEF RemoveTemp, Return
    <3> QED
      BY <2>1, <2>6, <3>1 DEF RemoveTemp, IInv, TypeOK
  <2>7. ASSUME NEW v \in Writer, SyncParent(v)
        PROVE  temp'[name[w]] = Missing
    <3>1. v = w
      BY <2>1, <2>2, <2>7 DEF SyncParent, Return
    <3> QED
      BY <2>1, <2>7, <3>1 DEF SyncParent, CallOK
  <2>8. CASE PowerLoss
    BY <2>8 DEF PowerLoss
  <2>9. CASE \E v \in Writer : \E c \in Content : Start(v, c)
    BY <2>1, <2>2, <2>3, <2>9 DEF Start
  <2> QED
    BY <2>4, <2>5, <2>6, <2>7, <2>8, <2>9 DEF Next, Call
<1>2. Spec => []IInv
  BY InitIInv, NextIInv, PTL DEF Spec
<1> QED
  BY <1>1, <1>2, PTL DEF Spec, NoLitter

-----------------------------------------------------------------------------
(* The refinement: the rename is where a call takes effect.                 *)

LEMMA InitRefines == ASSUME Init PROVE Register!RegisterInit
<1>1. target.data \in Content \cup {NoContent}
  <2>1. CASE target = Missing
    BY <2>1 DEF Missing
  <2>2. CASE target \in [data : Content, synced : {TRUE}]
    BY <2>2
  <2> QED BY <2>1, <2>2 DEF Init
<1>2. {f.data : f \in onDisk} = {target.data}
  BY DEF Init
<1>3. \A w \in Writer : Pending(w) = Register!Rest("idle")
  BY DEF Init, Pending, Resting, Register!Rest, Register!Call
<1> QED BY <1>1, <1>2, <1>3 DEF Register!RegisterInit

\* A step of one call leaves the others' calls as they are.
LEMMA PendingOfOthers ==
  ASSUME IInv, NEW w \in Writer, NEW v \in Writer \ {w},
         phase'[v] = phase[v], content'[v] = content[v], name'[v] = name[v],
         \A n \in Name : n # name[w] /\ (\E u \in Writer : name[u] = n)
                           => temp'[n] = temp[n]
  PROVE  Pending(v)' = Pending(v)
<1>1. phase[v] = "cleanup" => temp'[name[v]] = temp[name[v]]
  BY AtomicFileAssumption DEF IInv, CallOK, Resting, NamesDiffer
<1> QED BY <1>1 DEF Pending

\* Steps before and after the rename: the register does not move.
LEMMA StutterSteps ==
  ASSUME IInv, NEW w \in Writer,
         \/ CreateTemp(w) \/ WriteAll(w) \/ SyncTemp(w) \/ CloseTemp(w)
         \/ CallFails(w) /\ Goto(w, "cleanup") /\ UNCHANGED <<content, name>>
  PROVE  UNCHANGED Register!rvars
<1>1. UNCHANGED <<target, onDisk>>
  BY DEF CreateTemp, WriteAll, SyncTemp, CloseTemp, CallFails
<1>2. \A v \in Writer \ {w} : Pending(v)' = Pending(v)
  BY PendingOfOthers
     DEF IInv, TypeOK, CreateTemp, WriteAll, SyncTemp, CloseTemp, CallFails, Goto
<1>3. Pending(w)' = Pending(w)
  <2>1. CASE CreateTemp(w) \/ WriteAll(w) \/ SyncTemp(w) \/ CloseTemp(w)
    BY <2>1 DEF IInv, TypeOK, CreateTemp, WriteAll, SyncTemp, CloseTemp, Goto,
                Pending, Resting
  <2>2. CASE CallFails(w) /\ Goto(w, "cleanup") /\ UNCHANGED <<content, name>>
    <3>1. phase[w] \in {"write", "sync", "close", "rename", "syncDir", "create"}
      BY <2>2 DEF IInv, TypeOK, CallFails, Phases, Resting
    <3>2. phase[w] # "create"
      BY <2>2 DEF IInv, TypeOK, CallFails, Return, Goto
    <3>3. temp[name[w]] = Missing <=> phase[w] = "syncDir"
      BY <3>1, <3>2, FileFacts DEF IInv, CallOK, Resting
    <3> QED BY <2>2, <3>1, <3>2, <3>3
            DEF IInv, TypeOK, CallFails, Goto, Pending, Resting
  <2> QED BY <2>1, <2>2
<1> QED BY <1>1, <1>2, <1>3 DEF Register!rvars

\* A call that returns, throws or is killed rests, the others are as before.
LEMMA ReturnSteps ==
  ASSUME IInv, NEW w \in Writer, NEW how \in Resting, Return(w, how),
         \A n \in Name : n # name[w] => temp'[n] = temp[n]
  PROVE  [v \in Writer |-> Pending(v)]' =
           [[v \in Writer |-> Pending(v)] EXCEPT ![w] = Register!Rest(how)]
<1>1. \A v \in Writer \ {w} : Pending(v)' = Pending(v)
  BY PendingOfOthers DEF IInv, TypeOK, Return, Goto
<1>2. Pending(w)' = Register!Rest(how)
  BY DEF IInv, TypeOK, Return, Goto, Pending, Register!Rest, Register!Call
<1> QED BY <1>1, <1>2

LEMMA NextRefines ==
  ASSUME IInv, [Next]_vars PROVE [Register!RegisterNext]_(Register!rvars)
<1>1. CASE UNCHANGED vars
  BY <1>1 DEF vars, Pending, Register!rvars
<1>2. ASSUME NEW w \in Writer, NEW c \in Content, Start(w, c)
      PROVE  Register!Invoke(w, c)
  <2>1. \A v \in Writer \ {w} : Pending(v)' = Pending(v)
    BY <1>2, PendingOfOthers DEF IInv, TypeOK, Start, Goto
  <2>2. Pending(w)' = Register!Call("called", c)
    BY <1>2 DEF IInv, TypeOK, Start, Goto, Pending, Resting, Register!Call
  <2>3. Pending(w).state \in Register!Resting
    BY <1>2 DEF Start, Pending, Resting, Register!Resting
  <2> QED BY <1>2, <2>1, <2>2, <2>3 DEF Register!Invoke, Start
<1>3. ASSUME NEW w \in Writer, Rename(w) PROVE Register!TakeEffect(w)
  <2>1. \A v \in Writer \ {w} : Pending(v)' = Pending(v)
    BY <1>3, PendingOfOthers DEF IInv, TypeOK, Rename, Goto
  <2>2. Pending(w) = Register!Call("called", content[w])
    BY <1>3 DEF Rename, Pending, Resting, Register!Call
  <2>3. Pending(w)' = Register!Call("done", content[w])
    BY <1>3 DEF IInv, TypeOK, Rename, Goto, Pending, Resting, Register!Call
  <2>4. target'.data = content[w]
    <3>1. target' = Done(content[w])
      BY <1>3 DEF IInv, CallOK, Rename
    <3> QED BY <3>1 DEF Done
  <2>5. {f.data : f \in onDisk}' = {f.data : f \in onDisk} \cup {target'.data}
    <3>1. onDisk' = onDisk \cup {target'}
      BY <1>3 DEF Rename
    <3> QED BY <3>1
  <2>6. [v \in Writer |-> Pending(v)]' =
          [[v \in Writer |-> Pending(v)] EXCEPT
             ![w] = Register!Call("done", content[w])]
    BY <2>1, <2>3
  <2>7. /\ Register!Call("called", content[w]).state = "called"
        /\ Register!Call("called", content[w]).content = content[w]
    BY DEF Register!Call
  <2> QED BY <2>2, <2>4, <2>5, <2>6, <2>7 DEF Register!TakeEffect
<1>4. ASSUME NEW w \in Writer, SyncParent(w) PROVE Register!Acknowledge(w)
  <2>1. Pending(w).state = "done"
    BY <1>4 DEF SyncParent, Pending, Resting
  <2>2. {f.data : f \in onDisk}' = {target.data}
    BY <1>4 DEF SyncParent
  <2>3. Return(w, "ok") /\ UNCHANGED <<target, temp>>
    BY <1>4 DEF SyncParent
  <2>4. [v \in Writer |-> Pending(v)]' =
          [[v \in Writer |-> Pending(v)] EXCEPT ![w] = Register!Rest("ok")]
    BY <2>3, ReturnSteps DEF Resting
  <2> QED BY <2>1, <2>2, <2>3, <2>4 DEF Register!Acknowledge
<1>5. ASSUME NEW w \in Writer,
             \/ RemoveTemp(w) \/ Kill(w)
             \/ CallFails(w) /\ Return(w, "failed")
      PROVE  Register!GiveUp(w)
  <2> PICK how \in {"idle", "failed"} : Return(w, how)
    BY <1>5 DEF RemoveTemp, Kill
  <2>1. UNCHANGED <<target, onDisk>> /\ phase[w] \notin Resting
    BY <1>5 DEF RemoveTemp, Kill, CallFails, Resting
  <2>2. \A n \in Name : n # name[w] => temp'[n] = temp[n]
    BY <1>5 DEF IInv, TypeOK, RemoveTemp, Kill, CallFails
  <2>3. Pending(w).state \notin Register!Resting
    BY <2>1 DEF Pending, Resting, Register!Resting
  <2>4. [v \in Writer |-> Pending(v)]' =
          [[v \in Writer |-> Pending(v)] EXCEPT ![w] = Register!Rest(how)]
    BY <2>2, ReturnSteps DEF Resting
  <2> QED BY <2>1, <2>3, <2>4 DEF Register!GiveUp
<1>6. CASE PowerLoss
  <2> PICK g \in onDisk : target' \in AfterPowerLoss(g)
    BY <1>6 DEF PowerLoss
  <2>1. g.synced = TRUE
    BY DEF IInv, TypeOK, TargetIsWhole, Missing
  <2>2. target'.data = g.data
    BY <2>1 DEF AfterPowerLoss
  <2>3. {f.data : f \in onDisk}' = {target'.data}
    BY <1>6 DEF PowerLoss
  <2>4. \A w \in Writer : Pending(w)' = Register!Rest("idle")
    BY <1>6 DEF PowerLoss, Pending, Resting, Register!Rest, Register!Call
  <2>5. target'.data \in {f.data : f \in onDisk}
    BY <2>2
  <2>6. [w \in Writer |-> Pending(w)]' = [w \in Writer |-> Register!Rest("idle")]
    BY <2>4
  <2> QED BY <2>3, <2>5, <2>6 DEF Register!LosePower, Register!RegisterNext
<1>7. ASSUME NEW w \in Writer, CallFails(w)
      PROVE  \/ CallFails(w) /\ Return(w, "failed")
             \/ /\ CallFails(w) /\ Goto(w, "cleanup")
                /\ UNCHANGED <<content, name>>
  BY <1>7 DEF CallFails
<1> QED
  BY <1>1, <1>2, <1>3, <1>4, <1>5, <1>6, <1>7, StutterSteps
     DEF Next, Call, Register!RegisterNext

\* AtomicWriteFile is a durable register: every call takes effect at most
\* once, at its rename, and an acknowledged write survives.
THEOREM AtomicFileImplementsRegister == Spec => ImplementsRegister
BY InitIInv, NextIInv, InitRefines, NextRefines, PTL
   DEF Spec, ImplementsRegister, Register!RegisterSpec

-----------------------------------------------------------------------------
(* ProcessRunner, for every program and every limit.  First the types.      *)

LEMMA MinOfTwo ==
  ASSUME NEW a \in Int, NEW b \in Int
  PROVE  Min({a, b}) = IF a <= b THEN a ELSE b
<1>1. ASSUME NEW m \in {a, b}, \A y \in {a, b} : m <= y
      PROVE  Min({a, b}) = m
  <2>1. \A x \in {a, b} : (\A y \in {a, b} : x <= y) => x = m
    BY <1>1
  <2> QED
    BY <1>1, <2>1 DEF Min
<1>2. CASE a <= b
  BY <1>1, <1>2
<1>3. CASE ~(a <= b)
  BY <1>1, <1>3
<1> QED
  BY <1>2, <1>3

LEMMA MaxOfTwo ==
  ASSUME NEW a \in Int, NEW b \in Int
  PROVE  Max({a, b}) = IF a >= b THEN a ELSE b
<1>1. ASSUME NEW m \in {a, b}, \A y \in {a, b} : m >= y
      PROVE  Max({a, b}) = m
  <2>1. \A x \in {a, b} : (\A y \in {a, b} : x >= y) => x = m
    BY <1>1
  <2> QED
    BY <1>1, <2>1 DEF Max
<1>2. CASE a >= b
  BY <1>1, <1>2
<1>3. CASE ~(a >= b)
  BY <1>1, <1>3
<1> QED
  BY <1>2, <1>3

\* The loop of one platform never comes to the steps of the other, and what is
\* not of Windows has no operation under way; there is nothing to be run before
\* the child is in its job.
Platform ==
  /\ IF scenario.platform = "posix"
       THEN /\ stage \notin {"start", "pumpOut", "pumpErr", "pumpIn", "select"}
            /\ pending = {}
       ELSE stage \notin {"send", "drainOut", "drainErr"}
  /\ stage = "start" => ~grouped /\ state["grandchild"] = "unborn"

\* As long as the input is open there is some left to send.
Sending ==
  /\ scenario.platform = "posix" /\ "in" \in isOpen => sent < Input
  /\ stage = "send" /\ "in" \in ready => "in" \in isOpen
  /\ "in" \in pending => sent < Input

\* What is under way is under way in a pipe that is held.
Holding == \A p \in Program : doing[p] \in Fd => p \in holds[doing[p]]

\* Nobody lives any more once the deadline or an error has killed them.
Killed ==
  stage \in {"abort", "thrown"} \/ timedOut =>
    \A p \in Program : state[p] # "alive"

\* All that was read was kept up to the limit: count is what was written.
Counted(s) ==
  \E count \in Nat :
    /\ pipe[s] <= count
    /\ written[s] = IF count <= Limit THEN count ELSE Limit + 1
    /\ kept[s] = IF count - pipe[s] <= Limit THEN count - pipe[s] ELSE Limit
    /\ s \in truncated <=> count - pipe[s] > Limit

\* An output is closed when it is empty and nobody can write to it any more,
\* or when the programs were killed.
ClosedAtEnd ==
  \/ timedOut
  \/ stage \in {"abort", "thrown"}
  \/ \A s \in Out \ isOpen : holds[s] = {} /\ pipe[s] = 0

\* A round of the Windows loop leaves no open output without an operation, nor
\* does the end of the loop leave any open.
Pumped(s) == s \in isOpen => s \in pending \cup ready
Rounds ==
  /\ stage \in {"pumpErr", "pumpIn", "select"} => Pumped("out")
  /\ stage \in {"pumpIn", "select"} => Pumped("err")
  /\ stage \in {"wait", "abort", "returned", "thrown"} => isOpen = {}

ProcessInv ==
  /\ ProcessTypeOK
  /\ Platform
  /\ Sending
  /\ Holding
  /\ Killed
  /\ \A s \in Out : Counted(s)
  /\ ClosedAtEnd
  /\ Rounds

LEMMA ProcessInitHolds == ProcessInit => ProcessInv
<1> SUFFICES ASSUME ProcessInit PROVE ProcessInv
  OBVIOUS
<1>1. ProcessTypeOK
  <2>1. /\ {Input, Limit, Work} \subseteq Nat /\ Capacity \in Nat
        /\ \A n \in Nat : 0 \in 0..n /\ n \in 0..n /\ 0 \in 0..n + 1
    BY RunnerAssumption
  <2>2. /\ sent \in 0..Input
        /\ pipe \in [Fd -> 0..Capacity]
        /\ kept \in [Out -> 0..Limit]
        /\ written \in [Out -> 0..Limit + 1]
        /\ left \in [Program -> 0..Work]
    BY <2>1 DEF ProcessInit
  <2>3. /\ state \in [Program -> {"unborn", "alive", "dead", "reaped"}]
        /\ holds \in [Fd -> SUBSET Program]
        /\ doing \in [Program -> Fd \cup {"sleep", NoOperation}]
    BY DEF ProcessInit, Program
  <2>4. isOpen \subseteq Fd /\ stage \in ProcessPhases
    BY DEF ProcessInit, ProcessPhases, Fd
  <2> QED
    BY <2>2, <2>3, <2>4 DEF ProcessInit, ProcessTypeOK
<1>2. scenario.platform \in {"posix", "windows"}
  BY RunnerAssumption DEF ProcessInit
<1>3. Platform /\ Killed
  BY <1>2 DEF ProcessInit, Platform, Killed, Program
<1>6. Sending
  BY RunnerAssumption DEF ProcessInit, Sending, Out
<1>7. Holding
  BY RunnerAssumption DEF ProcessInit, Holding, Fd, Out
<1>4. \A s \in Out : Counted(s)
  <2> SUFFICES ASSUME NEW s \in Out PROVE Counted(s)
    OBVIOUS
  <2>1. 0 \in Nat /\ pipe[s] = 0 /\ written[s] = 0 /\ kept[s] = 0 /\ s \notin truncated
          /\ Limit \in Nat
    BY RunnerAssumption DEF ProcessInit, Fd
  <2> QED
    BY <2>1 DEF Counted
<1>5. ClosedAtEnd /\ Rounds
  BY DEF ProcessInit, ClosedAtEnd, Rounds, Pumped, Fd, Out
<1> QED
  BY <1>1, <1>3, <1>4, <1>5, <1>6, <1>7 DEF ProcessInv

-----------------------------------------------------------------------------
(* The programs.                                                            *)

\* What was counted stays when nothing was written or read.
LEMMA CountedStays ==
  ASSUME NEW s, Counted(s), pipe'[s] = pipe[s], written'[s] = written[s],
         kept'[s] = kept[s], s \in truncated' <=> s \in truncated
  PROVE  Counted(s)'
BY DEF Counted

\* Programs that go leave less to hold.
LEMMA GoneFrame ==
  ASSUME ProcessTypeOK, Holding, NEW dead \in SUBSET Program, Gone(dead)
  PROVE  /\ state' \in [Program -> {"unborn", "alive", "dead", "reaped"}]
         /\ holds' \in [Fd -> SUBSET Program]
         /\ doing' \in [Program -> Fd \cup {"sleep", NoOperation}]
         /\ Holding'
         /\ \A f \in Fd : holds[f] = {} => holds'[f] = {}
         /\ \A p \in Program : state'[p] = IF p \in dead THEN "dead" ELSE state[p]
<1>1. /\ state' \in [Program -> {"unborn", "alive", "dead", "reaped"}]
      /\ \A p \in Program : state'[p] = IF p \in dead THEN "dead" ELSE state[p]
  BY DEF Gone, ProcessTypeOK
<1>2. /\ holds' \in [Fd -> SUBSET Program]
      /\ \A f \in Fd : holds'[f] = holds[f] \ dead
  BY DEF Gone, ProcessTypeOK
<1>3. /\ doing' \in [Program -> Fd \cup {"sleep", NoOperation}]
      /\ \A p \in Program : doing'[p] = IF p \in dead THEN NoOperation ELSE doing[p]
  BY DEF Gone, ProcessTypeOK
<1>4. Holding'
  BY <1>2, <1>3, RunnerAssumption DEF Holding, Fd, Out
<1> QED
  BY <1>1, <1>2, <1>3, <1>4

\* A step of a program, or of the clock, that writes nothing: the parent's
\* variables stay, no pipe that nobody holds is held again, and nobody comes
\* to life but the child's own child.
LEMMA QuietStep ==
  ASSUME ProcessInv, UNCHANGED <<parent, pipe, written>>, ProcessTypeOK', Holding',
         \A f \in Fd : holds[f] = {} => holds'[f] = {},
         stage = "start" => ~grouped' /\ state'["grandchild"] = "unborn",
         \A p \in Program :
           state'[p] = "alive" => state[p] = "alive" \/ state["child"] = "alive"
  PROVE  ProcessInv'
<1>1. /\ scenario' = scenario /\ stage' = stage /\ ready' = ready /\ isOpen' = isOpen
      /\ pending' = pending /\ exited' = exited /\ sent' = sent /\ kept' = kept
      /\ truncated' = truncated /\ timedOut' = timedOut /\ pipe' = pipe
      /\ written' = written
  BY DEF parent, overlapped, results
<1>2. Platform' /\ Sending' /\ Rounds'
  BY <1>1 DEF ProcessInv, Platform, Sending, Rounds, Pumped
<1>3. Killed'
  BY <1>1 DEF ProcessInv, Killed, Program
<1>4. \A s \in Out : Counted(s)'
  BY <1>1, CountedStays DEF ProcessInv
<1>5. ClosedAtEnd'
  BY <1>1 DEF ProcessInv, ClosedAtEnd, Fd
<1> QED
  BY <1>2, <1>3, <1>4, <1>5 DEF ProcessInv

LEMMA JoinGroupStep ==
  ASSUME ProcessInv, JoinGroup
  PROVE  ProcessInv'
<1>1. /\ scenario.platform = "posix" /\ grouped' = TRUE
      /\ UNCHANGED <<parent, pipe, expired, state, holds, doing, left, written>>
  BY DEF JoinGroup
<1>2. ProcessTypeOK' /\ Holding'
  BY <1>1 DEF ProcessInv, ProcessTypeOK, Holding, parent, overlapped, results
<1>3. stage # "start"
  BY <1>1 DEF ProcessInv, Platform
<1> QED
  BY <1>1, <1>2, <1>3, QuietStep

LEMMA ForkStep ==
  ASSUME ProcessInv, Fork
  PROVE  ProcessInv'
<1>1. /\ state["child"] = "alive" /\ grouped
      /\ state' = [state EXCEPT !["grandchild"] = "alive"]
      /\ holds' = [f \in Fd |-> IF "child" \in holds[f]
                                  THEN holds[f] \cup {"grandchild"} ELSE holds[f]]
      /\ UNCHANGED <<parent, pipe, expired, grouped, doing, left, written>>
  BY DEF Fork, Idle
<1>2. ProcessTypeOK'
  BY <1>1 DEF ProcessInv, ProcessTypeOK, Program, parent, overlapped, results
<1>3. Holding' /\ \A f \in Fd : holds[f] = {} => holds'[f] = {}
  BY <1>1 DEF ProcessInv, Holding
<1>4. stage # "start"
  BY <1>1 DEF ProcessInv, Platform
<1> QED
  BY <1>1, <1>2, <1>3, <1>4, QuietStep

LEMMA ActStep ==
  ASSUME ProcessInv, NEW p \in Program, Act(p)
  PROVE  ProcessInv'
<1>1. Idle(p) /\ UNCHANGED <<parent, pipe, expired, grouped, written>>
  BY DEF Act, Choose, Close, Exit
<1>2. stage # "start"
  BY <1>1 DEF ProcessInv, Platform, Idle
<1>3. CASE \E op \in Fd \cup {"sleep"} : Choose(p, op)
  <2> PICK op \in Fd \cup {"sleep"} : Choose(p, op)
    BY <1>3
  <2>1. /\ left[p] > 0 /\ UNCHANGED <<state, holds>>
        /\ op \in Fd => p \in holds[op]
        /\ doing' = [doing EXCEPT ![p] = op]
        /\ left' = IF "busy" \in scenario.traits THEN left
                   ELSE [left EXCEPT ![p] = @ - 1]
    BY DEF Choose, Fd, Out
  <2>2. left' \in [Program -> 0..Work]
    BY <2>1, RunnerAssumption DEF ProcessInv, ProcessTypeOK
  <2>3. ProcessTypeOK'
    BY <1>1, <2>1, <2>2 DEF ProcessInv, ProcessTypeOK, parent, overlapped, results
  <2>4. Holding'
    BY <2>1 DEF ProcessInv, Holding, ProcessTypeOK
  <2> QED
    BY <1>1, <1>2, <2>1, <2>3, <2>4, QuietStep
<1>4. CASE \E f \in Fd : Close(p, f)
  <2> PICK f \in Fd : Close(p, f)
    BY <1>4
  <2>1. /\ doing[p] = NoOperation /\ UNCHANGED <<state, doing, left>>
        /\ holds' = [holds EXCEPT ![f] = @ \ {p}]
    BY DEF Close, Idle
  <2>2. ProcessTypeOK'
    BY <1>1, <2>1 DEF ProcessInv, ProcessTypeOK, parent, overlapped, results
  <2>3. Holding' /\ \A g \in Fd : holds[g] = {} => holds'[g] = {}
    BY <2>1, RunnerAssumption DEF ProcessInv, Holding, ProcessTypeOK, Fd, Out
  <2> QED
    BY <1>1, <1>2, <2>1, <2>2, <2>3, QuietStep
<1>5. CASE Exit(p)
  <2>1. Gone({p}) /\ left' = left
    BY <1>5 DEF Exit
  <2>2. /\ state' \in [Program -> {"unborn", "alive", "dead", "reaped"}]
        /\ holds' \in [Fd -> SUBSET Program]
        /\ doing' \in [Program -> Fd \cup {"sleep", NoOperation}]
        /\ Holding'
        /\ \A f \in Fd : holds[f] = {} => holds'[f] = {}
        /\ \A q \in Program : state'[q] = IF q \in {p} THEN "dead" ELSE state[q]
    BY <2>1, GoneFrame DEF ProcessInv
  <2>3. ProcessTypeOK'
    BY <1>1, <2>1, <2>2 DEF ProcessInv, ProcessTypeOK, parent, overlapped, results
  <2> QED
    BY <1>1, <1>2, <2>2, <2>3, QuietStep
<1> QED
  BY <1>3, <1>4, <1>5 DEF Act

LEMMA ExpireStep ==
  ASSUME ProcessInv, Expire
  PROVE  ProcessInv'
<1>1. expired' = TRUE /\ UNCHANGED <<parent, pipe, state, grouped, holds, doing, left, written>>
  BY DEF Expire, programs
<1>2. ProcessTypeOK' /\ Holding'
  BY <1>1 DEF ProcessInv, ProcessTypeOK, Holding, parent, overlapped, results
<1>3. stage = "start" => ~grouped' /\ state'["grandchild"] = "unborn"
  BY <1>1 DEF ProcessInv, Platform
<1> QED
  BY <1>1, <1>2, <1>3, QuietStep

\* A program reads from its input or writes to an output; who writes holds it.
LEMMA DoStep ==
  ASSUME ProcessInv, NEW p \in Program, Do(p)
  PROVE  ProcessInv'
<1>1. /\ doing[p] \in Fd
      /\ doing' = [doing EXCEPT ![p] = NoOperation]
      /\ UNCHANGED <<parent, expired, state, grouped, holds, left>>
      /\ scenario' = scenario /\ stage' = stage /\ ready' = ready /\ isOpen' = isOpen
      /\ pending' = pending /\ exited' = exited /\ sent' = sent /\ kept' = kept
      /\ truncated' = truncated /\ timedOut' = timedOut
  BY DEF Do, parent, overlapped, results
<1>2. p \in holds[doing[p]]
  BY <1>1 DEF ProcessInv, Holding
<1>3. Platform' /\ Sending' /\ Rounds' /\ Killed'
  BY <1>1 DEF ProcessInv, Platform, Sending, Rounds, Pumped, Killed
<1>4. Holding'
  BY <1>1, RunnerAssumption DEF ProcessInv, Holding, ProcessTypeOK, Fd, Out
<1>5. doing' \in [Program -> Fd \cup {"sleep", NoOperation}]
  BY <1>1 DEF ProcessInv, ProcessTypeOK
<1>6. CASE /\ doing[p] = "in"
           /\ pipe' = [pipe EXCEPT !["in"] = Max({0, @ - 1})]
           /\ UNCHANGED written
  <2>1. pipe' \in [Fd -> 0..Capacity] /\ \A s \in Out : pipe'[s] = pipe[s]
    <3>1. pipe["in"] \in 0..Capacity /\ Capacity \in Nat
      BY RunnerAssumption DEF ProcessInv, ProcessTypeOK, Fd
    <3>2. Max({0, pipe["in"] - 1}) \in 0..Capacity
      BY <3>1, MaxOfTwo
    <3> QED
      BY <1>6, <3>2 DEF ProcessInv, ProcessTypeOK, Fd, Out
  <2>2. ProcessTypeOK'
    BY <1>1, <1>5, <1>6, <2>1 DEF ProcessInv, ProcessTypeOK
  <2>3. \A s \in Out : Counted(s)'
    BY <1>1, <1>6, <2>1, CountedStays DEF ProcessInv
  <2>4. ClosedAtEnd'
    BY <1>1, <2>1 DEF ProcessInv, ClosedAtEnd
  <2> QED
    BY <1>3, <1>4, <2>2, <2>3, <2>4 DEF ProcessInv
<1>7. ASSUME NEW s \in Out, doing[p] = s, pipe[s] < Capacity,
             pipe' = [pipe EXCEPT ![s] = @ + 1],
             written' = [written EXCEPT ![s] = Min({Limit + 1, @ + 1})]
      PROVE  ProcessInv'
  <2>1. /\ pipe[s] \in 0..Capacity /\ Capacity \in Nat /\ Limit \in Nat
        /\ written[s] \in 0..Limit + 1
    BY RunnerAssumption DEF ProcessInv, ProcessTypeOK, Fd
  <2>2. /\ pipe' \in [Fd -> 0..Capacity] /\ pipe'[s] = pipe[s] + 1
        /\ \A r \in Out \ {s} : pipe'[r] = pipe[r]
    BY <1>7, <2>1 DEF ProcessInv, ProcessTypeOK, Fd
  <2>3. Min({Limit + 1, written[s] + 1}) =
          IF Limit + 1 <= written[s] + 1 THEN Limit + 1 ELSE written[s] + 1
    BY <2>1, MinOfTwo
  <2>4. /\ written' \in [Out -> 0..Limit + 1]
        /\ written'[s] = IF Limit <= written[s] THEN Limit + 1 ELSE written[s] + 1
        /\ \A r \in Out \ {s} : written'[r] = written[r]
    BY <1>7, <2>1, <2>3 DEF ProcessInv, ProcessTypeOK
  <2>5. ProcessTypeOK'
    BY <1>1, <1>5, <2>2, <2>4 DEF ProcessInv, ProcessTypeOK
  <2>6. Counted(s)'
    <3>1. PICK count \in Nat :
            /\ pipe[s] <= count
            /\ written[s] = IF count <= Limit THEN count ELSE Limit + 1
            /\ kept[s] = IF count - pipe[s] <= Limit THEN count - pipe[s] ELSE Limit
            /\ s \in truncated <=> count - pipe[s] > Limit
      BY DEF ProcessInv, Counted
    <3>2. count + 1 \in Nat /\ pipe'[s] <= count + 1
            /\ (count + 1) - pipe'[s] = count - pipe[s]
      BY <2>1, <2>2, <3>1
    <3>3. written'[s] = IF count + 1 <= Limit THEN count + 1 ELSE Limit + 1
      BY <2>1, <2>4, <3>1
    <3>4. kept'[s] = kept[s] /\ truncated' = truncated
      BY <1>1
    <3> QED
      BY <3>1, <3>2, <3>3, <3>4 DEF Counted
  <2>7. \A r \in Out : Counted(r)'
    BY <1>1, <2>2, <2>4, <2>6, CountedStays DEF ProcessInv
  <2>8. ClosedAtEnd'
    BY <1>1, <1>2, <1>7, <2>2 DEF ProcessInv, ClosedAtEnd
  <2> QED
    BY <1>3, <1>4, <2>5, <2>7, <2>8 DEF ProcessInv
<1> QED
  BY <1>6, <1>7 DEF Do

-----------------------------------------------------------------------------
(* The parents.                                                             *)

\* The loop is left with all programs dead: by the deadline or by an error.
LEMMA KillStep ==
  ASSUME ProcessInv, NEW dead \in SUBSET Program, Gone(dead),
         \A p \in Program \ dead : state[p] # "alive",
         \/ stage' = "abort" /\ timedOut' = timedOut
         \/ stage' = "wait" /\ timedOut' = TRUE,
         isOpen' = {}, pending' = {}, grouped' = grouped,
         UNCHANGED <<scenario, ready, exited, sent, pipe, results, expired, left, written>>
  PROVE  ProcessInv'
<1>1. /\ state' \in [Program -> {"unborn", "alive", "dead", "reaped"}]
      /\ holds' \in [Fd -> SUBSET Program]
      /\ doing' \in [Program -> Fd \cup {"sleep", NoOperation}]
      /\ Holding'
      /\ \A p \in Program : state'[p] = IF p \in dead THEN "dead" ELSE state[p]
  BY GoneFrame DEF ProcessInv
<1>2. /\ scenario' = scenario /\ ready' = ready /\ exited' = exited /\ sent' = sent
      /\ pipe' = pipe /\ kept' = kept /\ truncated' = truncated /\ expired' = expired
      /\ left' = left /\ written' = written /\ stage' \in {"wait", "abort"}
      /\ timedOut' \in BOOLEAN
  BY DEF results, ProcessInv, ProcessTypeOK
<1>3. ProcessTypeOK'
  BY <1>1, <1>2 DEF ProcessInv, ProcessTypeOK, ProcessPhases
<1>4. Platform' /\ Sending'
  BY <1>2 DEF Platform, Sending
<1>5. Killed'
  BY <1>1 DEF Killed
<1>6. \A s \in Out : Counted(s)'
  BY <1>2, CountedStays DEF ProcessInv
<1>7. ClosedAtEnd' /\ Rounds'
  BY <1>2 DEF ClosedAtEnd, Rounds
<1> QED
  BY <1>1, <1>3, <1>4, <1>5, <1>6, <1>7 DEF ProcessInv

\* What ends the loop early kills whoever lives.
LEMMA KillGroupStep ==
  ASSUME ProcessInv, KillGroup,
         \/ Abandon("abort") /\ timedOut' = timedOut
         \/ Abandon("wait") /\ timedOut' = TRUE,
         UNCHANGED <<scenario, ready, exited, sent, pipe, results, expired>>
  PROVE  ProcessInv'
<1> DEFINE dead == {p \in Program : state[p] = "alive"}
<1>1. Gone(dead) /\ UNCHANGED <<grouped, left, written>> /\ dead \in SUBSET Program
        /\ \A p \in Program \ dead : state[p] # "alive"
  BY DEF KillGroup
<1>2. isOpen' = {} /\ pending' = {}
        /\ \/ stage' = "abort" /\ timedOut' = timedOut
           \/ stage' = "wait" /\ timedOut' = TRUE
  BY DEF Abandon
<1> HIDE DEF dead
<1> QED
  BY <1>1, <1>2, KillStep

\* A read moves bytes from the pipe to what is kept, as far as the limit goes.
LEMMA ReadStep ==
  ASSUME ProcessTypeOK, NEW s \in Out, \A r \in Out : Counted(r),
         Append(s, Min({Chunk, pipe[s]})),
         pipe' = [pipe EXCEPT ![s] = @ - Min({Chunk, pipe[s]})],
         written' = written
  PROVE  /\ pipe' \in [Fd -> 0..Capacity]
         /\ kept' \in [Out -> 0..Limit]
         /\ truncated' \subseteq Out
         /\ \A r \in Out : Counted(r)' /\ (pipe[r] = 0 => pipe'[r] = 0)
<1> DEFINE n == Min({Chunk, pipe[s]})
<1>1. /\ pipe[s] \in 0..Capacity /\ kept[s] \in 0..Limit
      /\ Capacity \in Nat /\ Limit \in Nat /\ Chunk \in Nat \ {0}
  BY RunnerAssumption DEF ProcessTypeOK, Fd
<1>2. n \in 0..pipe[s] /\ (pipe[s] = 0 => n = 0)
  BY <1>1, MinOfTwo
<1>3. /\ kept' = [kept EXCEPT ![s] = Min({Limit, @ + n})]
      /\ truncated' = IF kept[s] + n > Limit THEN truncated \cup {s} ELSE truncated
      /\ pipe' = [pipe EXCEPT ![s] = @ - n]
  BY DEF Append
<1> HIDE DEF n
<1>4. pipe' \in [Fd -> 0..Capacity] /\ pipe'[s] = pipe[s] - n
        /\ \A r \in Out \ {s} : pipe'[r] = pipe[r]
  BY <1>1, <1>2, <1>3 DEF ProcessTypeOK, Fd
<1>5. Min({Limit, kept[s] + n}) = IF Limit <= kept[s] + n THEN Limit ELSE kept[s] + n
  BY <1>1, <1>2, MinOfTwo
<1>6. kept' \in [Out -> 0..Limit]
        /\ kept'[s] = (IF Limit <= kept[s] + n THEN Limit ELSE kept[s] + n)
        /\ \A r \in Out \ {s} : kept'[r] = kept[r]
  <2>1. Min({Limit, kept[s] + n}) \in 0..Limit
    BY <1>1, <1>2, <1>5
  <2> QED
    BY <1>3, <1>5, <2>1 DEF ProcessTypeOK
<1>7. truncated' \subseteq Out /\ \A r \in Out \ {s} : r \in truncated' <=> r \in truncated
  BY <1>3 DEF ProcessTypeOK
<1>8. Counted(s)'
  <2>1. PICK c \in Nat :
          /\ pipe[s] <= c
          /\ written[s] = IF c <= Limit THEN c ELSE Limit + 1
          /\ kept[s] = IF c - pipe[s] <= Limit THEN c - pipe[s] ELSE Limit
          /\ s \in truncated <=> c - pipe[s] > Limit
    BY DEF Counted
  <2>2. pipe'[s] <= c /\ c - pipe'[s] = (c - pipe[s]) + n /\ c - pipe'[s] \in Nat
          /\ c - pipe[s] \in Nat
    BY <1>1, <1>2, <1>4, <2>1
  <2>3. kept'[s] = IF c - pipe'[s] <= Limit THEN c - pipe'[s] ELSE Limit
    BY <1>1, <1>2, <1>6, <2>1, <2>2
  <2>4. s \in truncated' <=> c - pipe'[s] > Limit
    <3>1. s \in truncated' <=> s \in truncated \/ kept[s] + n > Limit
      BY <1>3
    <3>2. c - pipe[s] > Limit \/ kept[s] + n > Limit <=> c - pipe'[s] > Limit
      BY <1>1, <1>2, <2>1, <2>2
    <3> QED
      BY <2>1, <3>1, <3>2
  <2> QED
    BY <2>1, <2>2, <2>3, <2>4 DEF Counted
<1>9. \A r \in Out \ {s} : Counted(r)'
  BY <1>4, <1>6, <1>7, CountedStays
<1> QED
  BY <1>2, <1>4, <1>6, <1>7, <1>8, <1>9

\* What a step of either loop leaves alone when it reads nothing.
LEMMA NothingRead ==
  ASSUME ProcessInv, UNCHANGED <<results, written>>, \A s \in Out : pipe'[s] = pipe[s]
  PROVE  \A s \in Out : Counted(s)'
BY CountedStays DEF ProcessInv, results

LEMMA PosixStep ==
  ASSUME ProcessInv, OnPosix
  PROVE  ProcessInv'
<1>1. scenario.platform = "posix" /\ PosixParent /\ scenario' = scenario
        /\ pending = {} /\ stage \notin {"start", "pumpOut", "pumpErr", "pumpIn", "select"}
  BY DEF OnPosix, PosixParent, TimeOut, Poll, Send, DrainOut, DrainErr, Drain, LeaveLoop,
         ProcessInv, Platform
<1>2. CASE TimeOut
  BY <1>2, KillGroupStep DEF TimeOut
<1>3. CASE Poll
  <2>1. /\ stage = "loop" /\ ready' = Reported /\ stage' = "send"
        /\ UNCHANGED <<scenario, isOpen, overlapped, sent, pipe, results, timedOut,
                       expired, programs>>
        /\ isOpen' = isOpen /\ pending' = pending /\ sent' = sent /\ pipe' = pipe
        /\ written' = written /\ state' = state /\ holds' = holds /\ doing' = doing
        /\ timedOut' = timedOut
    BY <1>3 DEF Poll, Looping, overlapped, programs
  <2>2. Reported \subseteq isOpen
    BY DEF Reported
  <2>3. ProcessTypeOK'
    BY <2>1, <2>2 DEF ProcessInv, ProcessTypeOK, ProcessPhases, overlapped, results, programs
  <2>4. Platform' /\ Sending' /\ Killed' /\ Rounds'
    BY <1>1, <2>1, <2>2 DEF ProcessInv, Platform, Sending, Killed, Rounds
  <2>5. Holding' /\ ClosedAtEnd'
    BY <2>1 DEF ProcessInv, Holding, ClosedAtEnd
  <2>6. \A s \in Out : Counted(s)'
    BY <2>1, NothingRead
  <2> QED
    BY <2>3, <2>4, <2>5, <2>6 DEF ProcessInv
<1>4. CASE Send
  <2>1. /\ stage = "send"
        /\ UNCHANGED <<scenario, ready, overlapped, results, timedOut, expired, programs>>
        /\ ready' = ready /\ pending' = pending /\ exited' = exited
        /\ written' = written /\ state' = state /\ holds' = holds /\ doing' = doing
        /\ grouped' = grouped /\ left' = left /\ timedOut' = timedOut
    BY <1>4 DEF Send, overlapped, programs
  <2>2. /\ sent' \in 0..Input
        /\ pipe' \in [Fd -> 0..Capacity]
        /\ \A s \in Out : pipe'[s] = pipe[s]
        /\ isOpen' \in {isOpen, isOpen \ {"in"}}
        /\ stage' \in {"send", "drainOut"}
        /\ stage' = "send" => isOpen' = isOpen
        /\ "in" \in isOpen' => sent' < Input
    <3>1. CASE stage' = "drainOut" /\ UNCHANGED <<isOpen, sent, pipe>>
      BY <1>1, <3>1 DEF ProcessInv, ProcessTypeOK, Sending, Fd
    <3>2. CASE stage' = "drainOut" /\ isOpen' = isOpen \ {"in"} /\ UNCHANGED <<sent, pipe>>
      BY <3>2 DEF ProcessInv, ProcessTypeOK, Fd
    <3>3. CASE /\ "in" \in ready /\ pipe["in"] < Capacity
               /\ sent' = sent + 1
               /\ pipe' = [pipe EXCEPT !["in"] = @ + 1]
               /\ IF sent' = Input
                    THEN stage' = "drainOut" /\ isOpen' = isOpen \ {"in"}
                    ELSE UNCHANGED <<stage, isOpen>>
      <4>1. Input \in Nat /\ Capacity \in Nat /\ sent \in 0..Input /\ sent < Input
              /\ pipe["in"] \in 0..Capacity
        BY <1>1, <2>1, <3>3, RunnerAssumption DEF ProcessInv, ProcessTypeOK, Sending, Fd
      <4>2. pipe' \in [Fd -> 0..Capacity] /\ \A s \in Out : pipe'[s] = pipe[s]
        BY <3>3, <4>1 DEF ProcessInv, ProcessTypeOK, Fd, Out
      <4>3. sent' \in 0..Input /\ (sent' # Input => sent' < Input)
        BY <3>3, <4>1
      <4> QED
        BY <2>1, <3>3, <4>2, <4>3
    <3> QED
      BY <1>4, <3>1, <3>2, <3>3 DEF Send
  <2>3. isOpen' \subseteq Fd /\ pending' \subseteq isOpen'
    BY <1>1, <2>1, <2>2 DEF ProcessInv, ProcessTypeOK
  <2>4. ProcessTypeOK'
    BY <2>1, <2>2, <2>3
    DEF ProcessInv, ProcessTypeOK, ProcessPhases, overlapped, results, programs
  <2>5. Platform' /\ Killed' /\ Rounds'
    BY <1>1, <2>1, <2>2 DEF ProcessInv, Platform, Killed, Rounds
  <2>6. Sending'
    BY <1>1, <2>1, <2>2 DEF ProcessInv, Sending
  <2>7. Holding' /\ ClosedAtEnd'
    BY <2>1, <2>2 DEF ProcessInv, Holding, ClosedAtEnd, Out
  <2>8. \A s \in Out : Counted(s)'
    BY <2>1, <2>2, NothingRead
  <2> QED
    BY <2>4, <2>5, <2>6, <2>7, <2>8 DEF ProcessInv
<1>5. ASSUME NEW s \in Out, NEW next \in {"drainErr", "loop"},
             stage \in {"drainOut", "drainErr"}, Drain(s, next)
      PROVE  ProcessInv'
  <2>1. /\ UNCHANGED <<scenario, ready, overlapped, sent, timedOut, expired, programs>>
        /\ ready' = ready /\ pending' = pending /\ exited' = exited /\ sent' = sent
        /\ written' = written /\ state' = state /\ holds' = holds /\ doing' = doing
        /\ grouped' = grouped /\ left' = left /\ timedOut' = timedOut
    BY <1>5 DEF Drain, overlapped, programs
  <2>2. /\ pipe' \in [Fd -> 0..Capacity]
        /\ kept' \in [Out -> 0..Limit]
        /\ truncated' \subseteq Out
        /\ \A r \in Out : Counted(r)' /\ (pipe[r] = 0 => pipe'[r] = 0)
        /\ isOpen' \in {isOpen, isOpen \ {s}}
        /\ isOpen' # isOpen => holds[s] = {} /\ pipe[s] = 0
        /\ stage' \in {"drainOut", "drainErr", "loop"}
    <3>1. CASE /\ LET n == Min({Chunk, pipe[s]})
                  IN Append(s, n) /\ pipe' = [pipe EXCEPT ![s] = @ - n]
               /\ UNCHANGED <<stage, isOpen>>
      BY <1>5, <2>1, <3>1, ReadStep DEF ProcessInv
    <3>2. CASE /\ s \notin ready \/ pipe[s] = 0
               /\ stage' = next
               /\ isOpen' = IF s \in ready /\ holds[s] = {} THEN isOpen \ {s} ELSE isOpen
               /\ UNCHANGED <<results, pipe>>
      <4>1. \A r \in Out : Counted(r)'
        BY <2>1, <3>2, NothingRead
      <4> QED
        BY <1>5, <3>2, <4>1 DEF ProcessInv, ProcessTypeOK, results
    <3> QED
      BY <1>5, <3>1, <3>2 DEF Drain
  <2>3. isOpen' \subseteq Fd /\ pending' \subseteq isOpen'
    BY <1>1, <2>1, <2>2 DEF ProcessInv, ProcessTypeOK
  <2>4. ProcessTypeOK'
    BY <2>1, <2>2, <2>3 DEF ProcessInv, ProcessTypeOK, ProcessPhases, overlapped, programs
  <2>5. Platform' /\ Sending' /\ Killed' /\ Rounds'
    BY <1>1, <1>5, <2>1, <2>2 DEF ProcessInv, Platform, Sending, Killed, Rounds
  <2>6. Holding'
    BY <2>1 DEF ProcessInv, Holding
  <2>7. ClosedAtEnd'
    BY <1>5, <2>1, <2>2 DEF ProcessInv, ClosedAtEnd
  <2> QED
    BY <2>2, <2>4, <2>5, <2>6, <2>7 DEF ProcessInv
<1>6. CASE LeaveLoop
  <2>1. /\ stage = "loop" /\ isOpen \cap Out = {}
        /\ stage' = "wait" /\ isOpen' = {} /\ pending' = {}
        /\ UNCHANGED <<scenario, ready, exited, sent, pipe, results, timedOut, expired,
                       programs>>
        /\ written' = written /\ state' = state /\ holds' = holds /\ doing' = doing
        /\ pipe' = pipe /\ timedOut' = timedOut
    BY <1>6 DEF LeaveLoop, Abandon, programs
  <2>2. ProcessTypeOK'
    BY <2>1 DEF ProcessInv, ProcessTypeOK, ProcessPhases, results, programs
  <2>3. Platform' /\ Sending' /\ Killed' /\ Rounds' /\ Holding'
    BY <1>1, <2>1 DEF ProcessInv, Platform, Sending, Killed, Rounds, Holding
  <2>4. ClosedAtEnd'
    BY <2>1 DEF ProcessInv, ClosedAtEnd
  <2>5. \A s \in Out : Counted(s)'
    BY <2>1, NothingRead
  <2> QED
    BY <2>2, <2>3, <2>4, <2>5 DEF ProcessInv
<1> QED
  BY <1>1, <1>2, <1>3, <1>4, <1>5, <1>6
  DEF PosixParent, DrainOut, DrainErr, Out

LEMMA ReapStep ==
  ASSUME ProcessInv, Reap
  PROVE  ProcessInv'
<1>1. /\ stage \in {"wait", "abort"}
      /\ stage' = IF stage = "wait" THEN "returned" ELSE "thrown"
      /\ state' = [state EXCEPT !["child"] = "reaped"]
      /\ UNCHANGED <<scenario, ready, isOpen, overlapped, sent, pipe, results, timedOut,
                     expired, grouped, holds, doing, left, written>>
      /\ pending' = pending /\ exited' = exited
  BY DEF Reap, overlapped
<1>2. ProcessTypeOK'
  BY <1>1 DEF ProcessInv, ProcessTypeOK, ProcessPhases, results
<1>3. Platform' /\ Sending' /\ Rounds' /\ Holding' /\ ClosedAtEnd'
  BY <1>1 DEF ProcessInv, Platform, Sending, Rounds, Holding, ClosedAtEnd
<1>4. Killed'
  BY <1>1 DEF ProcessInv, ProcessTypeOK, Killed
<1>5. \A s \in Out : Counted(s)'
  BY <1>1, NothingRead
<1> QED
  BY <1>2, <1>3, <1>4, <1>5 DEF ProcessInv

\* One operation of the Windows loop moves bytes of one pipe.
LEMMA TransferStep ==
  ASSUME ProcessInv, NEW s \in Fd, Transfer(s), written' = written,
         s = "in" => sent < Input /\ pipe["in"] < Capacity
  PROVE  /\ isOpen' = isOpen
         /\ sent' \in 0..Input /\ (s # "in" => sent' = sent)
         /\ pipe' \in [Fd -> 0..Capacity]
         /\ kept' \in [Out -> 0..Limit]
         /\ truncated' \subseteq Out
         /\ \A r \in Out : Counted(r)' /\ (pipe[r] = 0 => pipe'[r] = 0)
<1>1. isOpen' = isOpen
  BY DEF Transfer
<1>2. CASE s = "in"
  <2>1. /\ sent' = sent + 1
        /\ pipe' = [pipe EXCEPT ![s] = @ + 1]
        /\ UNCHANGED results
        /\ kept' = kept /\ truncated' = truncated
    BY <1>2 DEF Transfer, results
  <2>2. Input \in Nat /\ Capacity \in Nat /\ sent \in 0..Input /\ pipe["in"] \in 0..Capacity
    BY RunnerAssumption DEF ProcessInv, ProcessTypeOK, Fd
  <2>3. pipe' \in [Fd -> 0..Capacity] /\ \A r \in Out : pipe'[r] = pipe[r]
    BY <1>2, <2>1, <2>2 DEF ProcessInv, ProcessTypeOK, Fd, Out
  <2>4. \A r \in Out : Counted(r)'
    BY <2>1, <2>3, NothingRead
  <2>5. sent' \in 0..Input
    BY <1>2, <2>1, <2>2
  <2> QED
    BY <1>1, <1>2, <2>1, <2>3, <2>4, <2>5 DEF ProcessInv, ProcessTypeOK
<1>3. CASE s # "in"
  <2>1. s \in Out
    BY <1>3 DEF Fd
  <2>2. /\ Append(s, Min({Chunk, pipe[s]}))
        /\ pipe' = [pipe EXCEPT ![s] = @ - Min({Chunk, pipe[s]})]
        /\ sent' = sent
    BY <1>3 DEF Transfer
  <2>3. ProcessTypeOK /\ \A r \in Out : Counted(r)
    BY DEF ProcessInv
  <2> QED
    BY <1>1, <2>1, <2>2, <2>3, ReadStep DEF ProcessTypeOK
<1> QED
  BY <1>2, <1>3

\* A step of the Windows loop that closes at most one pipe, and an output only
\* when it is empty and nobody holds it.
LEMMA RoundStep ==
  ASSUME ProcessInv, scenario.platform # "posix", NEW s \in Fd,
         stage \in {"loop", "pumpOut", "pumpErr", "pumpIn", "select"},
         stage' \in {"loop", "pumpOut", "pumpErr", "pumpIn", "select"},
         UNCHANGED <<scenario, timedOut, expired, programs>>,
         ready' \subseteq Fd, exited' \in BOOLEAN,
         isOpen' \in {isOpen, isOpen \ {s}}, pending' \subseteq isOpen',
         isOpen' # isOpen => s = "in" \/ (holds[s] = {} /\ pipe[s] = 0),
         sent' \in 0..Input,
         "in" \in pending' => sent' < Input,
         pipe' \in [Fd -> 0..Capacity],
         kept' \in [Out -> 0..Limit],
         truncated' \subseteq Out,
         \A r \in Out : Counted(r)' /\ (pipe[r] = 0 => pipe'[r] = 0),
         Rounds'
  PROVE  ProcessInv'
<1>1. /\ scenario' = scenario /\ timedOut' = timedOut /\ expired' = expired
      /\ written' = written /\ state' = state /\ holds' = holds /\ doing' = doing
      /\ grouped' = grouped /\ left' = left
  BY DEF programs
<1>2. isOpen' \subseteq Fd
  BY DEF ProcessInv, ProcessTypeOK
<1>3. ProcessTypeOK'
  BY <1>1, <1>2 DEF ProcessInv, ProcessTypeOK, ProcessPhases
<1>4. Platform' /\ Sending'
  BY <1>1 DEF Platform, Sending
<1>5. Killed' /\ Holding'
  BY <1>1 DEF ProcessInv, Killed, Holding
<1>6. ClosedAtEnd'
  BY <1>1 DEF ProcessInv, ClosedAtEnd, Out
<1> QED
  BY <1>3, <1>4, <1>5, <1>6 DEF ProcessInv

\* pump of one pipe: whatever it finds, an output that is open afterwards has
\* an operation under way or has moved bytes.
LEMMA PumpStep ==
  ASSUME ProcessInv, NEW s \in Fd, NEW next \in {"pumpErr", "pumpIn", "select"},
         Pump(s, next),
         \/ stage = "pumpOut" /\ s = "out" /\ next = "pumpErr"
         \/ stage = "pumpErr" /\ s = "err" /\ next = "pumpIn"
         \/ stage = "pumpIn" /\ s = "in" /\ next = "select"
  PROVE  ProcessInv'
<1>1. /\ stage' = next
      /\ UNCHANGED <<scenario, exited, timedOut, expired, programs>>
      /\ exited' = exited /\ written' = written
  BY DEF Pump, programs
<1>2. /\ scenario.platform # "posix"
      /\ pending \subseteq isOpen /\ isOpen \subseteq Fd /\ ready \subseteq Fd
      /\ sent \in 0..Input /\ Input \in Nat /\ exited \in BOOLEAN
      /\ "in" \in pending => sent < Input
  BY RunnerAssumption DEF ProcessInv, Platform, ProcessTypeOK, Sending
<1>3. /\ isOpen' \in {isOpen, isOpen \ {s}}
      /\ pending' \subseteq isOpen' /\ pending \subseteq pending'
      /\ ready' \subseteq Fd /\ ready \subseteq ready'
      /\ isOpen' # isOpen => s = "in" \/ (holds[s] = {} /\ pipe[s] = 0)
      /\ sent' \in 0..Input
      /\ "in" \in pending' => sent' < Input
      /\ pipe' \in [Fd -> 0..Capacity]
      /\ kept' \in [Out -> 0..Limit]
      /\ truncated' \subseteq Out
      /\ \A r \in Out : Counted(r)' /\ (pipe[r] = 0 => pipe'[r] = 0)
      /\ s \in isOpen' => s \in pending' \cup ready'
  <2>1. ASSUME UNCHANGED <<sent, pipe, results>>
        PROVE  /\ sent' = sent
               /\ pipe' = pipe /\ pipe' \in [Fd -> 0..Capacity]
               /\ kept' \in [Out -> 0..Limit]
               /\ truncated' \subseteq Out
               /\ \A r \in Out : Counted(r)' /\ (pipe[r] = 0 => pipe'[r] = 0)
    BY <1>1, <2>1, NothingRead DEF results, ProcessInv, ProcessTypeOK
  <2>2. CASE /\ s \notin isOpen \/ s \in pending
             /\ UNCHANGED <<ready, isOpen, pending, sent, pipe, results>>
    BY <1>2, <2>1, <2>2
  <2>3. CASE /\ s \in isOpen \ pending
             /\ (s = "in" /\ sent = Input) \/ Broken(s)
             /\ Stop(s)
             /\ UNCHANGED <<ready, pending>>
    BY <1>2, <2>1, <2>3 DEF Stop, Broken
  <2>4. CASE /\ s \in isOpen \ pending
             /\ ~(s = "in" /\ sent = Input)
             /\ HasRoom(s)
             /\ Transfer(s) /\ ready' = ready \cup {s} /\ UNCHANGED pending
    <3>1. s = "in" => sent < Input /\ pipe["in"] < Capacity
      BY <1>2, <2>4 DEF HasRoom
    <3>2. /\ isOpen' = isOpen
          /\ sent' \in 0..Input /\ (s # "in" => sent' = sent)
          /\ pipe' \in [Fd -> 0..Capacity]
          /\ kept' \in [Out -> 0..Limit]
          /\ truncated' \subseteq Out
          /\ \A r \in Out : Counted(r)' /\ (pipe[r] = 0 => pipe'[r] = 0)
      BY <1>1, <2>4, <3>1, TransferStep
    <3> QED
      BY <1>2, <2>4, <3>2
  <2>5. CASE /\ s \in isOpen \ pending
             /\ ~(s = "in" /\ sent = Input)
             /\ pending' = pending \cup {s}
             /\ UNCHANGED <<ready, isOpen, sent, pipe, results>>
    BY <1>2, <2>1, <2>5
  <2> QED
    BY <2>2, <2>3, <2>4, <2>5 DEF Pump
<1>4. Rounds'
  BY <1>1, <1>3 DEF ProcessInv, Rounds, Pumped
<1> QED
  BY <1>1, <1>2, <1>3, <1>4, RoundStep

LEMMA SelectStep ==
  ASSUME ProcessInv, Select
  PROVE  ProcessInv'
<1>1. /\ stage = "select" /\ stage' = "loop"
      /\ UNCHANGED <<scenario, ready, timedOut, expired, programs>>
      /\ ready' = ready /\ written' = written
  BY DEF Select, programs
<1>2. /\ scenario.platform # "posix"
      /\ pending \subseteq isOpen /\ isOpen \subseteq Fd /\ ready \subseteq Fd
      /\ sent \in 0..Input /\ Input \in Nat /\ exited \in BOOLEAN
      /\ "in" \in pending => sent < Input
  BY <1>1, RunnerAssumption DEF ProcessInv, Platform, ProcessTypeOK, Sending
<1>3. Rounds'
  BY <1>1 DEF Rounds
<1>4. ASSUME UNCHANGED <<sent, pipe, results>>
      PROVE  /\ sent' = sent
             /\ pipe' = pipe /\ pipe' \in [Fd -> 0..Capacity]
             /\ kept' \in [Out -> 0..Limit]
             /\ truncated' \subseteq Out
             /\ \A r \in Out : Counted(r)' /\ (pipe[r] = 0 => pipe'[r] = 0)
  BY <1>1, <1>4, NothingRead DEF results, ProcessInv, ProcessTypeOK
<1>5. CASE UNCHANGED <<isOpen, pending, sent, pipe, results>> /\ exited' \in BOOLEAN
  BY <1>1, <1>2, <1>3, <1>4, <1>5, RoundStep DEF Fd
<1>6. ASSUME NEW s \in Signalled, Complete(s)
      PROVE  ProcessInv'
  <2>1. s \in Fd /\ s \in pending /\ pending' = pending \ {s} /\ exited' = exited
          /\ (Broken(s) \/ HasRoom(s))
    BY <1>2, <1>6 DEF Signalled, Complete
  <2>2. CASE Broken(s) /\ Stop(s)
    <3>1. isOpen' = isOpen \ {s} /\ UNCHANGED <<sent, pipe, results>>
      BY <2>2 DEF Stop
    <3>2. s = "in" \/ (holds[s] = {} /\ pipe[s] = 0)
      BY <2>2 DEF Broken
    <3>3. /\ isOpen' \in {isOpen, isOpen \ {s}} /\ pending' \subseteq isOpen'
          /\ "in" \in pending' => sent' < Input
      BY <1>2, <2>1, <3>1
    <3> QED
      BY <1>1, <1>2, <1>3, <1>4, <2>1, <3>1, <3>2, <3>3, RoundStep
  <2>3. CASE ~Broken(s) /\ Transfer(s)
    <3>1. s = "in" => sent < Input /\ pipe["in"] < Capacity
      BY <1>2, <2>1, <2>3 DEF HasRoom
    <3>2. /\ isOpen' = isOpen
          /\ sent' \in 0..Input /\ (s # "in" => sent' = sent)
          /\ pipe' \in [Fd -> 0..Capacity]
          /\ kept' \in [Out -> 0..Limit]
          /\ truncated' \subseteq Out
          /\ \A r \in Out : Counted(r)' /\ (pipe[r] = 0 => pipe'[r] = 0)
      BY <1>1, <2>1, <2>3, <3>1, TransferStep
    <3>3. /\ isOpen' \in {isOpen, isOpen \ {s}} /\ pending' \subseteq isOpen'
          /\ "in" \in pending' => sent' < Input
      BY <1>2, <2>1, <3>2
    <3> QED
      BY <1>1, <1>2, <1>3, <2>1, <3>2, <3>3, RoundStep
  <2> QED
    BY <1>6, <2>2, <2>3 DEF Complete
<1> QED
  BY <1>2, <1>5, <1>6 DEF Select, overlapped

LEMMA WindowsStep ==
  ASSUME ProcessInv, WindowsParent
  PROVE  ProcessInv'
<1>1. CASE AssignJob
  <2>1. stage = "start" /\ ~grouped /\ state["grandchild"] = "unborn"
          /\ scenario.platform # "posix"
    BY <1>1 DEF AssignJob, ProcessInv, Platform
  <2>2. CASE /\ stage' = "loop" /\ grouped' = TRUE
             /\ UNCHANGED <<isOpen, pending, state, holds, doing>>
             /\ UNCHANGED <<scenario, ready, exited, sent, pipe, results, timedOut, expired,
                            left, written>>
    <3>1. ProcessTypeOK'
      BY <2>2 DEF ProcessInv, ProcessTypeOK, ProcessPhases, results
    <3>2. Platform' /\ Sending' /\ Killed' /\ Rounds' /\ Holding' /\ ClosedAtEnd'
      BY <2>1, <2>2 DEF ProcessInv, Platform, Sending, Killed, Rounds, Holding, ClosedAtEnd
    <3>3. \A s \in Out : Counted(s)'
      BY <2>2, NothingRead
    <3> QED
      BY <3>1, <3>2, <3>3 DEF ProcessInv
  <2>3. CASE /\ Gone({"child"}) /\ Abandon("abort") /\ UNCHANGED grouped
             /\ UNCHANGED <<scenario, ready, exited, sent, pipe, results, timedOut, expired,
                            left, written>>
    <3>1. {"child"} \in SUBSET Program /\ \A p \in Program \ {"child"} : state[p] # "alive"
      BY <2>1 DEF Program
    <3>2. stage' = "abort" /\ isOpen' = {} /\ pending' = {}
      BY <2>3 DEF Abandon
    <3> QED
      BY <2>3, <3>1, <3>2, KillStep
  <2> QED
    BY <1>1, <2>2, <2>3 DEF AssignJob
<1>2. CASE Terminate
  BY <1>2, KillGroupStep DEF Terminate
<1>3. CASE BeginRound
  <2>1. /\ stage = "loop" /\ scenario.platform # "posix"
        /\ ready' = {} /\ stage' = "pumpOut"
        /\ UNCHANGED <<scenario, isOpen, overlapped, sent, pipe, results, timedOut,
                       expired, programs>>
        /\ isOpen' = isOpen /\ pending' = pending /\ exited' = exited /\ sent' = sent
        /\ pipe' = pipe /\ written' = written /\ kept' = kept /\ truncated' = truncated
    BY <1>3 DEF BeginRound, AtTop, overlapped, results, programs
  <2>2. \A s \in Out : Counted(s)'
    BY <2>1, NothingRead
  <2>3. Rounds'
    BY <2>1 DEF Rounds
  <2>4. /\ pending \subseteq isOpen /\ sent \in 0..Input /\ exited \in BOOLEAN
        /\ "in" \in pending => sent < Input
        /\ pipe \in [Fd -> 0..Capacity] /\ kept \in [Out -> 0..Limit]
        /\ truncated \subseteq Out
    BY DEF ProcessInv, ProcessTypeOK, Sending
  <2>5. "in" \in Fd
    BY DEF Fd
  <2> QED
    BY <2>1, <2>2, <2>3, <2>4, <2>5, RoundStep
<1>4. CASE PumpOut \/ PumpErr \/ PumpIn
  BY <1>4, PumpStep DEF PumpOut, PumpErr, PumpIn, Fd, Out
<1>5. CASE Select
  BY <1>5, SelectStep
<1>6. CASE Break
  <2>1. /\ stage' = "wait" /\ isOpen' = {} /\ pending' = {}
        /\ UNCHANGED <<scenario, ready, exited, sent, pipe, results, timedOut, expired,
                       programs>>
        /\ written' = written /\ state' = state /\ holds' = holds /\ doing' = doing
        /\ pipe' = pipe /\ timedOut' = timedOut
    BY <1>6 DEF Break, Abandon, programs
  <2>2. stage \in {"loop", "select"} /\ isOpen \cap Out = {} /\ scenario.platform # "posix"
    <3>1. CASE AtTop /\ ~Unfinished
      BY <3>1 DEF AtTop, Unfinished
    <3>2. CASE stage = "select" /\ ready = {} /\ exited /\ pending = {}
      BY <3>2 DEF ProcessInv, Platform, Rounds, Pumped, Out
    <3> QED
      BY <1>6, <3>1, <3>2 DEF Break
  <2>3. ProcessTypeOK'
    BY <2>1 DEF ProcessInv, ProcessTypeOK, ProcessPhases, results, programs
  <2>4. Platform' /\ Sending' /\ Killed' /\ Rounds' /\ Holding'
    BY <2>1, <2>2 DEF ProcessInv, Platform, Sending, Killed, Rounds, Holding
  <2>5. ClosedAtEnd'
    BY <2>1, <2>2 DEF ProcessInv, ClosedAtEnd
  <2>6. \A s \in Out : Counted(s)'
    BY <2>1, NothingRead
  <2> QED
    BY <2>3, <2>4, <2>5, <2>6 DEF ProcessInv
<1> QED
  BY <1>1, <1>2, <1>3, <1>4, <1>5, <1>6 DEF WindowsParent

LEMMA ProcessNextHolds == ProcessInv /\ [ProcessNext]_processVars => ProcessInv'
<1> SUFFICES ASSUME ProcessInv, [ProcessNext]_processVars PROVE ProcessInv'
  OBVIOUS
<1>1. CASE JoinGroup \/ Fork \/ Expire
  BY <1>1, JoinGroupStep, ForkStep, ExpireStep
<1>2. CASE \E p \in Program : Act(p) \/ Do(p)
  BY <1>2, ActStep, DoStep
<1>3. CASE Parent
  BY <1>3, PosixStep, WindowsStep, ReapStep DEF Parent
<1>4. CASE ParentFails
  BY <1>4, KillGroupStep DEF ParentFails, PollFails, Throw
<1>5. CASE UNCHANGED processVars
  <2>1. /\ UNCHANGED <<parent, pipe, written>> /\ UNCHANGED <<state, grouped, holds>>
        /\ UNCHANGED <<expired, doing, left>>
    BY <1>5 DEF processVars, programs
  <2>2. ProcessTypeOK' /\ Holding'
    BY <2>1 DEF ProcessInv, ProcessTypeOK, Holding, parent, overlapped, results
  <2>3. stage = "start" => ~grouped' /\ state'["grandchild"] = "unborn"
    BY <2>1 DEF ProcessInv, Platform
  <2> QED
    BY <2>1, <2>2, <2>3, QuietStep
<1> QED
  BY <1>1, <1>2, <1>3, <1>4, <1>5 DEF ProcessNext

\* Every variable of a run keeps its type: no pipe holds more than it can, and
\* no more is sent than there is.
THEOREM ProcessTypeCorrect == ProcessSpec => []ProcessInv /\ []ProcessTypeOK
<1>1. ProcessInv => ProcessTypeOK
  BY DEF ProcessInv
<1> QED
  BY <1>1, ProcessInitHolds, ProcessNextHolds, PTL DEF ProcessSpec

\* What a run returns is what its programs wrote, up to the limit, on either
\* platform and wherever the pipes filled up (Append, CaptureBounded).
THEOREM KeepsOutput == ProcessSpec => []OutputIsKept
<1>1. ProcessInv => OutputIsKept
  <2> SUFFICES ASSUME ProcessInv, stage = "returned", ~timedOut, NEW s \in Out
               PROVE  /\ kept[s] = Min({Limit, written[s]})
                      /\ s \in truncated <=> written[s] > Limit
    BY DEF OutputIsKept
  <2>1. pipe[s] = 0
    BY DEF ProcessInv, ClosedAtEnd, Rounds
  <2>2. PICK count \in Nat :
          /\ pipe[s] <= count
          /\ written[s] = IF count <= Limit THEN count ELSE Limit + 1
          /\ kept[s] = IF count - pipe[s] <= Limit THEN count - pipe[s] ELSE Limit
          /\ s \in truncated <=> count - pipe[s] > Limit
    BY DEF ProcessInv, Counted
  <2>3. Limit \in Nat /\ written[s] \in Nat
    BY <2>2, RunnerAssumption
  <2>4. Min({Limit, written[s]}) = IF Limit <= written[s] THEN Limit ELSE written[s]
    BY <2>3, MinOfTwo
  <2> QED
    BY <2>1, <2>2, <2>3, <2>4
<1> QED
  BY <1>1, ProcessTypeCorrect, PTL

\* A run that throws, or that the deadline ended, has left no program alive:
\* neither the child nor what it started (Kill, TerminateJobObject).
THEOREM LeavesNothing == ProcessSpec => []NothingIsLeft
<1>1. ProcessInv => NothingIsLeft
  BY DEF ProcessInv, Killed, NothingIsLeft
<1> QED
  BY <1>1, ProcessTypeCorrect, PTL

-----------------------------------------------------------------------------
(* GitSnapshots, for every number of processes.                             *)

(***************************************************************************)
(* The unpacked snapshot.  Commands that come one after another find what  *)
(* the marker promises; a copy that pafio vendor has finished stays, since *)
(* only another run of pafio vendor would touch it.                        *)
(***************************************************************************)

OneVendoring == Vendors <= 1

Vendoring(p) == at[p] # "idle" /\ command[p] = "vendor"

\* With one run of pafio vendor, what it has finished is left alone.
VendorInv ==
  /\ \A p \in Proc : at[p] \in {"clearVendor", "copyStart", "copy"} => Vendoring(p)
  /\ \A p, q \in Proc : Vendoring(p) /\ Vendoring(q) => p = q
  /\ \A p \in Proc : Vendoring(p) => vendors # 0
  /\ vendored => /\ vendors # 0
                 /\ Marker \in tree["vendor"]
                 /\ \A p \in Proc : ~Vendoring(p)

\* What a command knows of the directories when no other is at them.
Knows(p) ==
  /\ at[p] \in {"clear", "archive", "archiving", "list", "extract"} =>
       Marker \notin tree["cache"]
  /\ at[p] = "extract" =>
       Marker \notin todo[p] /\ Files \subseteq tree["cache"] \cup todo[p]
  /\ at[p] \in {"have", "clearVendor", "copyStart"} /\ place[p] = "cache" =>
       Files \subseteq tree["cache"]
  /\ at[p] = "copyStart" => tree["vendor"] = {}
  /\ at[p] = "copy" => Files \subseteq tree["vendor"] \cup todo[p]

\* One command at a time: a marker has the files beside it.
WholeInv ==
  ~shared =>
    /\ \A p, q \in Proc : at[p] # "idle" /\ at[q] # "idle" => p = q
    /\ \A p \in Proc : Knows(p)
    /\ Marker \in tree["cache"] => Files \subseteq tree["cache"]
    /\ vendored => Files \subseteq tree["vendor"]

SnapshotInv == SnapshotTypeOK /\ VendorInv /\ WholeInv

USE SnapshotAssumption

\* What tar and the copy do to a directory leaves a directory.
LEMMA TreeFacts ==
  /\ {} \in Tree
  /\ Files \in Tree
  /\ \A T \in Tree : T \cup {Marker} \in Tree
  /\ \A T \in Tree : \A f : T \ {f} \in Tree
  /\ \A T, U \in Tree : \A f \in U : T \cup {f} \in Tree
BY DEF Tree

LEMMA SnapshotInitInv == SnapshotInit => SnapshotInv
<1> SUFFICES ASSUME SnapshotInit PROVE SnapshotInv
  OBVIOUS
<1>1. /\ mirror \in {"none", "partial", "ready"}
      /\ archive \in {"none", "partial", "whole"}
      /\ at \in [Proc -> SnapshotPhases]
      /\ command \in [Proc -> {"resolve", "vendor"}]
      /\ offline \in [Proc -> BOOLEAN]
  BY DEF SnapshotInit, SnapshotPhases
<1>3. /\ inside \in [Proc -> BOOLEAN]
      /\ place \in [Proc -> Place \cup {None}]
      /\ \A p \in Proc :
           place[p] # None <=> at[p] \in {"have", "clearVendor", "copyStart", "copy"}
      /\ vendors \in 0..Vendors
  BY DEF SnapshotInit
<1>4. tree \in [Place -> Tree] /\ todo \in [Proc -> Tree]
  BY TreeFacts DEF SnapshotInit
<1>5. vendored \in BOOLEAN /\ shared \in BOOLEAN
  BY DEF SnapshotInit
<1>6. SnapshotTypeOK
  BY <1>1, <1>3, <1>4, <1>5 DEF SnapshotTypeOK
<1>2. VendorInv /\ WholeInv
  BY DEF SnapshotInit, VendorInv, Vendoring, WholeInv, Knows, Place
<1> QED BY <1>2, <1>6 DEF SnapshotInv

\* A step that does not start a command: it is one of a command that runs.
Step(p) ==
  \/ FindVendored(p) \/ LookForMirror(p) \/ CloneStart(p) \/ Clone(p)
  \/ Revision(p) \/ LookForSnapshot(p) \/ ClearEntry(p) \/ ClearDirectory(p)
  \/ ArchiveStart(p) \/ Archive(p) \/ List(p) \/ Extract(p) \/ ExtractEnds(p)
  \/ Resolved(p) \/ ClearVendor(p) \/ CopyStart(p) \/ Copy(p) \/ CopyEnds(p)
  \/ Crash(p)

\* It is a step of p alone.
LEMMA StepOfOne ==
  ASSUME SnapshotTypeOK, NEW p \in Proc, Step(p)
  PROVE  /\ at[p] # "idle"
         /\ \A q \in Proc \ {p} : at'[q] = at[q]
         /\ command' = command /\ vendors' = vendors /\ shared' = shared
<1> USE DEF SnapshotTypeOK, Proceed, End, Fails, request, locals
<1>1. at[p] # "idle"
  BY DEF Step, FindVendored, LookForMirror, CloneStart, Clone, Revision,
         LookForSnapshot, ClearEntry, ClearDirectory, ArchiveStart, Archive, List,
         Extract, ExtractEnds, Resolved, ClearVendor, CopyStart, Copy, CopyEnds, Crash
<1>2. command' = command /\ vendors' = vendors /\ shared' = shared
  BY DEF Step, FindVendored, LookForMirror, CloneStart, Clone, Revision,
         LookForSnapshot, ClearEntry, ClearDirectory, ArchiveStart, Archive, List,
         Extract, ExtractEnds, Resolved, ClearVendor, CopyStart, Copy, CopyEnds, Crash
<1>3. at' = at \/ \E ph \in SnapshotPhases : at' = [at EXCEPT ![p] = ph]
  BY DEF Step, FindVendored, LookForMirror, CloneStart, Clone, Revision,
         LookForSnapshot, ClearEntry, ClearDirectory, ArchiveStart, Archive, List,
         Extract, ExtractEnds, Resolved, ClearVendor, CopyStart, Copy, CopyEnds, Crash,
         SnapshotPhases
<1> QED BY <1>1, <1>2, <1>3

\* Types are kept, whatever runs at once.
LEMMA StepTypes ==
  ASSUME SnapshotTypeOK, NEW p \in Proc, Step(p) PROVE SnapshotTypeOK'
<1> USE DEF Proceed, End, Fails, request, locals
<1>1. mirror' \in {"none", "partial", "ready"} /\ archive' \in {"none", "partial", "whole"}
  BY DEF Step, FindVendored, LookForMirror, CloneStart, Clone, Revision,
         LookForSnapshot, ClearEntry, ClearDirectory, ArchiveStart, Archive, List,
         Extract, ExtractEnds, Resolved, ClearVendor, CopyStart, Copy, CopyEnds, Crash,
         SnapshotTypeOK
<1>2. /\ at' \in [Proc -> SnapshotPhases]
      /\ UNCHANGED <<command, offline, vendors, shared>>
  BY DEF Step, FindVendored, LookForMirror, CloneStart, Clone, Revision,
         LookForSnapshot, ClearEntry, ClearDirectory, ArchiveStart, Archive, List,
         Extract, ExtractEnds, Resolved, ClearVendor, CopyStart, Copy, CopyEnds, Crash,
         SnapshotTypeOK, SnapshotPhases
<1>3. place' \in [Proc -> Place \cup {None}]
  BY DEF Step, FindVendored, LookForMirror, CloneStart, Clone, Revision,
         LookForSnapshot, ClearEntry, ClearDirectory, ArchiveStart, Archive, List,
         Extract, ExtractEnds, Resolved, ClearVendor, CopyStart, Copy, CopyEnds, Crash,
         SnapshotTypeOK, Place
<1>4. inside' \in [Proc -> BOOLEAN]
  BY DEF Step, FindVendored, LookForMirror, CloneStart, Clone, Revision,
         LookForSnapshot, ClearEntry, ClearDirectory, ArchiveStart, Archive, List,
         Extract, ExtractEnds, Resolved, ClearVendor, CopyStart, Copy, CopyEnds, Crash,
         SnapshotTypeOK
<1>8. vendored' \in BOOLEAN
  BY DEF Step, FindVendored, LookForMirror, CloneStart, Clone, Revision,
         LookForSnapshot, ClearEntry, ClearDirectory, ArchiveStart, Archive, List,
         Extract, ExtractEnds, Resolved, ClearVendor, CopyStart, Copy, CopyEnds, Crash,
         SnapshotTypeOK
<1>5. todo' \in [Proc -> Tree]
  <2>1. CASE CopyStart(p)
    <3>1. place[p] \in Place
      BY <2>1 DEF CopyStart, SnapshotTypeOK
    <3>2. tree[place[p]] \in Tree
      BY <3>1 DEF SnapshotTypeOK
    <3> QED BY <2>1, <3>2, TreeFacts DEF CopyStart, SnapshotTypeOK
  <2>2. CASE List(p)
    BY <2>2, TreeFacts DEF List, SnapshotTypeOK
  <2>3. CASE Extract(p) \/ Copy(p)
    <3>1. todo[p] \in Tree /\ \A f : todo[p] \ {f} \in Tree
      BY TreeFacts DEF SnapshotTypeOK
    <3>2. todo' = [todo EXCEPT ![p] = {}] \/ \E f : todo' = [todo EXCEPT ![p] = @ \ {f}]
      BY <2>3 DEF Extract, Copy
    <3>3. \E S \in Tree : todo' = [todo EXCEPT ![p] = S]
      BY <3>1, <3>2, TreeFacts
    <3> QED BY <3>3 DEF SnapshotTypeOK
  <2>4. CASE ~CopyStart(p) /\ ~List(p) /\ ~Extract(p) /\ ~Copy(p)
    <3>1. UNCHANGED todo \/ todo' = [todo EXCEPT ![p] = {}]
      BY <2>4 DEF Step, FindVendored, LookForMirror, CloneStart, Clone, Revision,
             LookForSnapshot, ClearEntry, ClearDirectory, ArchiveStart, Archive,
             ExtractEnds, Resolved, ClearVendor, CopyEnds, Crash
    <3> QED BY <3>1, TreeFacts DEF SnapshotTypeOK
  <2> QED BY <2>1, <2>2, <2>3, <2>4
<1>6. tree' \in [Place -> Tree]
  <2>1. CASE ClearEntry(p)
    <3>1. \A f : tree["cache"] \ {f} \in Tree
      BY TreeFacts DEF SnapshotTypeOK, Place
    <3>2. \E f : tree' = [tree EXCEPT !["cache"] = tree["cache"] \ {f}]
      BY <2>1 DEF ClearEntry
    <3>3. \E S \in Tree : tree' = [tree EXCEPT !["cache"] = S]
      BY <3>1, <3>2
    <3> QED BY <3>3 DEF SnapshotTypeOK
  <2>2. CASE ExtractEnds(p) \/ CopyEnds(p)
    BY <2>2, TreeFacts DEF ExtractEnds, CopyEnds, SnapshotTypeOK, Place
  <2>3. CASE Extract(p)
    BY <2>3, TreeFacts DEF Extract, SnapshotTypeOK, Place
  <2>4. CASE Copy(p)
    BY <2>4, TreeFacts DEF Copy, SnapshotTypeOK, Place
  <2>5. CASE ~ClearEntry(p) /\ ~ExtractEnds(p) /\ ~CopyEnds(p) /\ ~Extract(p) /\ ~Copy(p)
    <3>1. UNCHANGED tree \/ tree' = [tree EXCEPT !["vendor"] = {}]
      BY <2>5 DEF Step, FindVendored, LookForMirror, CloneStart, Clone, Revision,
             LookForSnapshot, ClearDirectory, ArchiveStart, Archive, List,
             Resolved, ClearVendor, CopyStart, Crash
    <3> QED BY <3>1, TreeFacts DEF SnapshotTypeOK, Place
  <2> QED BY <2>1, <2>2, <2>3, <2>4, <2>5
<1>7. \A q \in Proc :
        place'[q] # None <=> at'[q] \in {"have", "clearVendor", "copyStart", "copy"}
  BY DEF Step, FindVendored, LookForMirror, CloneStart, Clone, Revision,
         LookForSnapshot, ClearEntry, ClearDirectory, ArchiveStart, Archive, List,
         Extract, ExtractEnds, Resolved, ClearVendor, CopyStart, Copy, CopyEnds, Crash,
         SnapshotTypeOK, Place
<1> QED BY <1>1, <1>2, <1>3, <1>4, <1>5, <1>6, <1>7, <1>8 DEF SnapshotTypeOK

LEMMA SnapshotTypes ==
  ASSUME SnapshotTypeOK, [SnapshotNext]_snapshotVars PROVE SnapshotTypeOK'
<1>1. CASE UNCHANGED snapshotVars
  BY <1>1 DEF snapshotVars, request, locals, SnapshotTypeOK
<1>2. CASE Purge
  BY <1>2, TreeFacts DEF Purge, request, locals, Place, SnapshotTypeOK
<1>3. ASSUME NEW p \in Proc, NEW cmd \in {"resolve", "vendor"}, NEW off \in BOOLEAN,
             StartCommand(p, cmd, off)
      PROVE  SnapshotTypeOK'
  BY <1>3 DEF StartCommand, Proceed, locals, SnapshotTypeOK, SnapshotPhases
<1>4. ASSUME NEW p \in Proc, Step(p) PROVE SnapshotTypeOK'
  BY <1>4, StepTypes
<1> QED BY <1>1, <1>2, <1>3, <1>4 DEF SnapshotNext, Step

\* Who touches the vendored copy is a run of pafio vendor.
LEMMA VendorStep ==
  ASSUME SnapshotTypeOK, VendorInv, NEW p \in Proc, Step(p)
  PROVE  /\ at'[p] \in {"clearVendor", "copyStart", "copy"} => command[p] = "vendor"
         /\ tree'["vendor"] # tree["vendor"] => command[p] = "vendor"
         /\ vendored' # vendored =>
              /\ vendored'
              /\ command[p] = "vendor"
              /\ at'[p] = "idle"
              /\ Marker \in tree'["vendor"]
<1> USE DEF SnapshotTypeOK, Proceed, End, Fails, request, locals, Place
<1>1. CASE \/ FindVendored(p) \/ LookForMirror(p) \/ CloneStart(p) \/ Clone(p)
           \/ Revision(p) \/ LookForSnapshot(p)
  BY <1>1 DEF FindVendored, LookForMirror, CloneStart, Clone, Revision, LookForSnapshot
<1>2. CASE \/ ClearEntry(p) \/ ClearDirectory(p)
           \/ ArchiveStart(p) \/ Archive(p) \/ List(p)
  BY <1>2 DEF ClearEntry, ClearDirectory, ArchiveStart, Archive, List
<1>3. CASE Extract(p) \/ ExtractEnds(p)
  BY <1>3 DEF Extract, ExtractEnds
<1>4. CASE Resolved(p) \/ Crash(p)
  BY <1>4 DEF Resolved, Crash
<1>5. CASE ClearVendor(p) \/ CopyStart(p) \/ Copy(p)
  BY <1>5 DEF ClearVendor, CopyStart, Copy, VendorInv, Vendoring
<1>6. CASE CopyEnds(p)
  <2>1. command[p] = "vendor"
    BY <1>6 DEF CopyEnds, VendorInv, Vendoring
  <2> QED BY <1>6, <2>1 DEF CopyEnds
<1> QED BY <1>1, <1>2, <1>3, <1>4, <1>5, <1>6 DEF Step

LEMMA StartVendorInv ==
  ASSUME OneVendoring, SnapshotTypeOK, VendorInv, NEW p \in Proc,
         NEW cmd \in {"resolve", "vendor"}, NEW off \in BOOLEAN,
         StartCommand(p, cmd, off)
  PROVE  VendorInv'
<1> USE DEF SnapshotTypeOK, StartCommand, Proceed, locals
<1>1. CASE cmd = "resolve"
  BY <1>1 DEF VendorInv, Vendoring
<1>2. CASE cmd = "vendor"
  <2>1. vendors = 0 /\ vendors' = 1
    BY <1>2 DEF OneVendoring
  <2>2. ~vendored /\ \A q \in Proc : ~Vendoring(q)
    BY <2>1 DEF VendorInv
  <2>3. \A q \in Proc \ {p} : ~Vendoring(q)'
    BY <2>2 DEF Vendoring
  <2>4. Vendoring(p)'
    BY <1>2 DEF Vendoring
  <2>5. \A q \in Proc : at'[q] \in {"clearVendor", "copyStart", "copy"} => Vendoring(q)'
    BY <2>4 DEF VendorInv, Vendoring
  <2> QED BY <2>1, <2>2, <2>3, <2>5 DEF VendorInv
<1> QED BY <1>1, <1>2

LEMMA NextVendorInv ==
  ASSUME OneVendoring, SnapshotTypeOK, VendorInv, [SnapshotNext]_snapshotVars
  PROVE  VendorInv'
<1>1. CASE UNCHANGED snapshotVars
  BY <1>1 DEF snapshotVars, request, VendorInv, Vendoring
<1>2. CASE Purge
  BY <1>2 DEF Purge, request, VendorInv, Vendoring, SnapshotTypeOK, Place
<1>3. ASSUME NEW p \in Proc, NEW cmd \in {"resolve", "vendor"}, NEW off \in BOOLEAN,
             StartCommand(p, cmd, off)
      PROVE  VendorInv'
  BY <1>3, StartVendorInv
<1>4. ASSUME NEW p \in Proc, Step(p) PROVE VendorInv'
  <2>1. /\ at[p] # "idle"
        /\ \A q \in Proc \ {p} : at'[q] = at[q]
        /\ command' = command /\ vendors' = vendors
    BY <1>4, StepOfOne
  <2>2. /\ at'[p] \in {"clearVendor", "copyStart", "copy"} => command[p] = "vendor"
        /\ tree'["vendor"] # tree["vendor"] => command[p] = "vendor"
        /\ vendored' # vendored =>
             /\ vendored'
             /\ command[p] = "vendor"
             /\ at'[p] = "idle"
             /\ Marker \in tree'["vendor"]
    BY <1>4, VendorStep
  <2>3. \A q \in Proc : Vendoring(q)' => Vendoring(q)
    BY <2>1 DEF Vendoring
  <2>4. \A q \in Proc : at'[q] \in {"clearVendor", "copyStart", "copy"} => Vendoring(q)'
    BY <2>1, <2>2 DEF VendorInv, Vendoring
  <2>5. vendored' => /\ vendors # 0
                     /\ Marker \in tree'["vendor"]
                     /\ \A q \in Proc : ~Vendoring(q)'
    <3>1. CASE vendored' = vendored
      BY <2>1, <2>2, <2>3, <3>1 DEF VendorInv, Vendoring
    <3>2. CASE vendored' # vendored
      <4>1. Vendoring(p) /\ ~Vendoring(p)'
        BY <2>1, <2>2, <3>2 DEF Vendoring
      <4>2. \A q \in Proc : ~Vendoring(q)'
        BY <2>3, <4>1 DEF VendorInv
      <4> QED BY <2>2, <3>2, <4>1, <4>2 DEF VendorInv
    <3> QED BY <3>1, <3>2
  <2> QED BY <2>1, <2>3, <2>4, <2>5 DEF VendorInv
<1> QED BY <1>1, <1>2, <1>3, <1>4 DEF SnapshotNext, Step

\* A step of the only command that runs.
LEMMA StepKeepsWhole ==
  ASSUME SnapshotInv, NEW p \in Proc, Step(p), ~shared
  PROVE  /\ Knows(p)'
         /\ Marker \in tree'["cache"] => Files \subseteq tree'["cache"]
         /\ tree'["vendor"] = tree["vendor"] \/ command[p] = "vendor"
         /\ vendored' /\ ~vendored => Files \subseteq tree'["vendor"]
<1> USE DEF SnapshotTypeOK, Proceed, End, Fails, request, locals, Place
<1>0. /\ SnapshotTypeOK
      /\ Knows(p)
      /\ Marker \in tree["cache"] => Files \subseteq tree["cache"]
      /\ tree'["vendor"] = tree["vendor"] \/ command[p] = "vendor"
  BY VendorStep DEF SnapshotInv, WholeInv
<1>1. CASE \/ FindVendored(p) \/ LookForMirror(p) \/ CloneStart(p) \/ Clone(p)
           \/ Revision(p)
  BY <1>0, <1>1 DEF FindVendored, LookForMirror, CloneStart, Clone, Revision, Knows
<1>2. CASE LookForSnapshot(p)
  BY <1>0, <1>2 DEF LookForSnapshot, Knows
<1>3. CASE ClearEntry(p) \/ ClearDirectory(p)
  BY <1>0, <1>3 DEF ClearEntry, ClearDirectory, Knows
<1>4. CASE ArchiveStart(p) \/ Archive(p)
  BY <1>0, <1>4 DEF ArchiveStart, Archive, Knows
<1>5. CASE List(p)
  BY <1>0, <1>5 DEF List, Knows, Files
<1>6. CASE Extract(p)
  <2>0. PICK f \in todo[p] :
       IF inside[p]
         THEN /\ tree' = [tree EXCEPT !["cache"] = @ \cup {f}]
              /\ todo' = [todo EXCEPT ![p] = @ \ {f}]
              /\ UNCHANGED <<archive, at, place, inside>>
         ELSE archive' = "none" /\ End(p) /\ UNCHANGED tree
    BY <1>6 DEF Extract
  <2>1. CASE ~inside[p]
    BY <1>0, <1>6, <2>0, <2>1 DEF Extract, Knows
  <2>2. CASE inside[p]
    <3>1. /\ at'[p] = "extract"
          /\ tree'["cache"] = tree["cache"] \cup {f}
          /\ tree'["vendor"] = tree["vendor"]
          /\ todo'[p] = todo[p] \ {f}
          /\ vendored' = vendored
      BY <1>0, <1>6, <2>0, <2>2 DEF Extract
    <3>2. at[p] = "extract"
      BY <1>6 DEF Extract
    <3> QED BY <1>0, <3>1, <3>2 DEF Knows, Files
  <2> QED BY <2>1, <2>2
<1>7. CASE ExtractEnds(p)
  BY <1>0, <1>7 DEF ExtractEnds, Knows
<1>8. CASE Resolved(p)
  BY <1>0, <1>8 DEF Resolved, Knows
<1>9. CASE ClearVendor(p)
  BY <1>0, <1>9 DEF ClearVendor, Knows
<1>10. CASE CopyStart(p)
  <2>1. CASE tree[place[p]] = {}
    BY <1>0, <1>10, <2>1 DEF CopyStart, Knows
  <2>2. CASE tree[place[p]] # {}
    <3>1. /\ at[p] = "copyStart"
          /\ at'[p] = "copy"
          /\ todo'[p] = tree[place[p]]
          /\ tree' = tree /\ vendored' = vendored
      BY <1>0, <1>10, <2>2 DEF CopyStart
    <3>2. place[p] \in Place
      BY <1>0, <3>1
    <3>3. Files \subseteq todo'[p]
      BY <1>0, <2>2, <3>1, <3>2 DEF Knows
    <3> QED BY <1>0, <3>1, <3>2, <3>3 DEF Knows
  <2> QED BY <2>1, <2>2
<1>11. CASE Copy(p)
  BY <1>0, <1>11 DEF Copy, Knows
<1>12. CASE CopyEnds(p)
  BY <1>0, <1>12 DEF CopyEnds, Knows
<1>13. CASE Crash(p)
  BY <1>0, <1>13 DEF Crash, Knows
<1> QED BY <1>1, <1>2, <1>3, <1>4, <1>5, <1>6, <1>7, <1>8, <1>9, <1>10, <1>11, <1>12,
           <1>13 DEF Step

LEMMA NextWholeInv ==
  ASSUME SnapshotInv, [SnapshotNext]_snapshotVars PROVE WholeInv'
<1>1. CASE UNCHANGED snapshotVars
  BY <1>1 DEF snapshotVars, locals, SnapshotInv, WholeInv, Knows
<1>2. CASE Purge
  BY <1>2 DEF Purge, locals, SnapshotInv, SnapshotTypeOK, WholeInv, Knows, Place
<1>3. ASSUME NEW p \in Proc, NEW cmd \in {"resolve", "vendor"}, NEW off \in BOOLEAN,
             StartCommand(p, cmd, off)
      PROVE  WholeInv'
  <2>1. /\ \A q \in Proc \ {p} : at'[q] = at[q]
        /\ at'[p] = "find"
        /\ shared' = (shared \/ \E q \in Proc : at[q] # "idle")
        /\ tree' = tree /\ todo' = todo /\ place' = place /\ vendored' = vendored
    BY <1>3 DEF StartCommand, Proceed, locals, SnapshotInv, SnapshotTypeOK
  <2>2. \A q \in Proc : Knows(q) => Knows(q)'
    BY <2>1 DEF Knows
  <2> QED BY <2>1, <2>2 DEF SnapshotInv, WholeInv
<1>4. ASSUME NEW p \in Proc, Step(p), ~shared' PROVE WholeInv'
  <2>1. /\ at[p] # "idle"
        /\ \A q \in Proc \ {p} : at'[q] = at[q]
        /\ ~shared
    BY <1>4, StepOfOne DEF SnapshotInv
  <2>2. \A q \in Proc \ {p} : at'[q] = "idle"
    BY <2>1 DEF SnapshotInv, WholeInv
  <2>3. /\ Knows(p)'
        /\ Marker \in tree'["cache"] => Files \subseteq tree'["cache"]
        /\ tree'["vendor"] = tree["vendor"] \/ command[p] = "vendor"
        /\ vendored' /\ ~vendored => Files \subseteq tree'["vendor"]
    BY <1>4, <2>1, StepKeepsWhole
  <2>4. \A q \in Proc : Knows(q)'
    BY <2>2, <2>3 DEF Knows
  <2>5. vendored => tree'["vendor"] = tree["vendor"] /\ Files \subseteq tree["vendor"]
    BY <2>1, <2>3 DEF SnapshotInv, VendorInv, Vendoring, WholeInv
  <2> QED BY <2>2, <2>3, <2>4, <2>5 DEF WholeInv
<1>5. ASSUME NEW p \in Proc, Step(p) PROVE WholeInv'
  BY <1>4, <1>5 DEF WholeInv
<1> QED BY <1>1, <1>2, <1>3, <1>5 DEF SnapshotNext, Step

LEMMA NextSnapshotInv ==
  ASSUME OneVendoring, SnapshotInv, [SnapshotNext]_snapshotVars PROVE SnapshotInv'
BY SnapshotTypes, NextVendorInv, NextWholeInv DEF SnapshotInv

\* What FindVendored sees of a finished copy is its marker.
LEMMA StepFindsVendored ==
  ASSUME SnapshotInv, [SnapshotNext]_snapshotVars, NEW p \in Proc,
         vendored, at[p] = "find"
  PROVE  at'[p] # "mirror"
<1>0. SnapshotTypeOK /\ Marker \in tree["vendor"]
  BY DEF SnapshotInv, VendorInv
<1>1. CASE UNCHANGED snapshotVars
  BY <1>1 DEF snapshotVars
<1>2. CASE Purge
  BY <1>2 DEF Purge
<1>3. ASSUME NEW q \in Proc, NEW cmd \in {"resolve", "vendor"}, NEW off \in BOOLEAN,
             StartCommand(q, cmd, off)
      PROVE  at'[p] # "mirror"
  BY <1>0, <1>3 DEF StartCommand, Proceed, SnapshotTypeOK
<1>4. ASSUME NEW q \in Proc \ {p}, Step(q) PROVE at'[p] # "mirror"
  BY <1>0, <1>4, StepOfOne
<1>5. CASE Step(p)
  <2>1. FindVendored(p) \/ Crash(p)
    BY <1>5 DEF Step, LookForMirror, CloneStart, Clone, Revision, LookForSnapshot,
                ClearEntry, ClearDirectory, ArchiveStart, Archive, List, Extract,
                ExtractEnds, Resolved, ClearVendor, CopyStart, Copy, CopyEnds
  <2> QED BY <1>0, <2>1 DEF FindVendored, Crash, End, Proceed, SnapshotTypeOK
<1> QED BY <1>1, <1>2, <1>3, <1>4, <1>5 DEF SnapshotNext, Step

\* What the resolver of PafioResolve works with is the whole snapshot, whatever
\* failed or was killed before it, for every number of processes: commands that come
\* one after another are not deceived by the marker EnsureSnapshot trusts.
THEOREM SnapshotsAreWhole ==
  ASSUME OneVendoring PROVE SnapshotSpec => []SnapshotIsWhole
<1>1. SnapshotInv => SnapshotIsWhole
  BY DEF SnapshotInv, WholeInv, Knows, SnapshotIsWhole, SnapshotTypeOK, Place
<1>2. SnapshotInv /\ [SnapshotNext]_snapshotVars => SnapshotInv'
  BY NextSnapshotInv
<1> QED BY SnapshotInitInv, <1>1, <1>2, PTL DEF SnapshotSpec

\* After pafio vendor no command looks for the mirror or the network of a git source
\* (FindVendoredSnapshot comes first), even of commands that run at once.
THEOREM VendoredSuffices ==
  ASSUME OneVendoring PROVE SnapshotSpec => VendoredIsEnough
<1>1. SnapshotInv /\ [SnapshotNext]_snapshotVars => SnapshotInv'
  BY NextSnapshotInv
<1>2. SnapshotInv /\ [SnapshotNext]_snapshotVars =>
        [\A p \in Proc : vendored /\ at[p] = "find" => at'[p] # "mirror"]_snapshotVars
  BY StepFindsVendored
<1> QED BY SnapshotInitInv, <1>1, <1>2, PTL DEF SnapshotSpec, VendoredIsEnough
=============================================================================
