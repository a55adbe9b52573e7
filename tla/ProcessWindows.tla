--------------------------- MODULE ProcessWindows ---------------------------
(***************************************************************************)
(* RunProcessChecked of PafioCore/ProcessWindows.cpp: overlapped reads and *)
(* writes, at most one under way on each pipe, in rounds that end with a   *)
(* wait for any of them or for the child.  The loop goes on until the      *)
(* child and all pipes have ended, or the deadline has passed.  An         *)
(* operation under way moves its bytes when the parent takes its result.   *)
(***************************************************************************)
EXTENDS ProcessPrograms

\* The child is created suspended, so that it cannot start anything before it is in
\* its job; if it cannot be put there it is terminated alone.
AssignJob ==
  /\ stage = "start"
  /\ \/ /\ stage' = "loop"
        /\ grouped' = TRUE
        /\ UNCHANGED <<isOpen, pending, state, holds, doing>>
     \/ /\ "fail" \in scenario.traits
        /\ Gone({"child"})
        /\ Abandon("abort")
        /\ UNCHANGED grouped
  /\ UNCHANGED <<scenario, ready, exited, sent, pipe, results, timedOut, expired,
                 left, written>>

AtTop == scenario.platform = "windows" /\ stage = "loop"
Unfinished == ~exited \/ isOpen # {}

\* The deadline is looked at before every round.
Terminate ==
  /\ AtTop
  /\ Unfinished
  /\ expired
  /\ timedOut' = TRUE
  /\ KillGroup
  /\ Abandon("wait")
  /\ UNCHANGED <<scenario, ready, exited, sent, pipe, results, expired>>

\* The destructor of ChildProcess runs when anything throws.
Throw ==
  /\ "fail" \in scenario.traits
  /\ stage \in {"pumpOut", "pumpErr", "pumpIn", "select"}
  /\ KillGroup
  /\ Abandon("abort")
  /\ UNCHANGED <<scenario, ready, exited, sent, pipe, results, timedOut, expired>>

BeginRound ==
  /\ AtTop
  /\ Unfinished
  /\ ~expired
  /\ ready' = {}
  /\ stage' = "pumpOut"
  /\ UNCHANGED <<scenario, isOpen, overlapped, sent, pipe, results, timedOut,
                 expired, programs>>

\* Nobody has the other end; an output may still hold bytes.
Broken(s) == holds[s] = {} /\ (s = "in" \/ pipe[s] = 0)
HasRoom(s) == IF s = "in" THEN pipe[s] < Capacity ELSE pipe[s] > 0

Stop(s) == isOpen' = isOpen \ {s} /\ UNCHANGED <<sent, pipe, results>>

\* consume: the bytes of one operation.
Transfer(s) ==
  /\ IF s = "in"
       THEN /\ sent' = sent + 1
            /\ pipe' = [pipe EXCEPT ![s] = @ + 1]
            /\ UNCHANGED results
       ELSE LET n == Min({Chunk, pipe[s]})
            IN /\ Append(s, n)
               /\ pipe' = [pipe EXCEPT ![s] = @ - n]
               /\ UNCHANGED sent
  /\ UNCHANGED isOpen

\* Pipe::pump: nothing if the last operation is still under way, or a new one, which
\* may complete at once.
Pump(s, next) ==
  /\ stage' = next
  /\ \/ /\ s \notin isOpen \/ s \in pending
        /\ UNCHANGED <<ready, isOpen, pending, sent, pipe, results>>
     \/ /\ s \in isOpen \ pending
        /\ (s = "in" /\ sent = Input) \/ Broken(s)
        /\ Stop(s)
        /\ UNCHANGED <<ready, pending>>
     \/ /\ s \in isOpen \ pending
        /\ ~(s = "in" /\ sent = Input)
        /\ ~Broken(s)
        /\ IF HasRoom(s)
             THEN Transfer(s) /\ ready' = ready \cup {s} /\ UNCHANGED pending
             ELSE /\ pending' = pending \cup {s}
                  /\ UNCHANGED <<ready, isOpen, sent, pipe, results>>
  /\ UNCHANGED <<scenario, exited, timedOut, expired, programs>>

PumpOut == stage = "pumpOut" /\ Pump("out", "pumpErr")
PumpErr == stage = "pumpErr" /\ Pump("err", "pumpIn")
PumpIn == stage = "pumpIn" /\ Pump("in", "select")

\* Operations under way whose result is there, in the order of the handles.
Signalled == {s \in pending : Broken(s) \/ HasRoom(s)}
Rank == [out |-> 1, err |-> 2, in |-> 3]
First(s) == \A r \in Signalled : Rank[s] <= Rank[r]
ChildSignalled == ~exited /\ state["child"] = "dead"

\* Pipe::complete.
Complete(s) ==
  /\ pending' = pending \ {s}
  /\ IF Broken(s) THEN Stop(s) ELSE Transfer(s)
  /\ UNCHANGED exited

\* Variant: the pipes are forgotten once the child has ended.
Select_ForgetsPipes ==
  /\ stage = "select"
  /\ stage' = "loop"
  /\ \/ /\ ready # {} \/ (~ChildSignalled /\ Signalled = {} /\ expired)
        /\ UNCHANGED <<isOpen, overlapped, sent, pipe, results>>
     \/ /\ ready = {} /\ ChildSignalled
        /\ exited' = TRUE
        /\ isOpen' = {}
        /\ pending' = {}
        /\ UNCHANGED <<sent, pipe, results>>
     \/ /\ ready = {} /\ ~ChildSignalled
        /\ \E s \in Signalled : First(s) /\ Complete(s)
  /\ UNCHANGED <<scenario, ready, timedOut, expired, programs>>

\* The next round follows at once if bytes were moved.  Else the parent waits for the
\* child or a pipe, but not past the deadline.
Select ==
  /\ stage = "select"
  /\ ready # {} \/ ~exited \/ pending # {}
  /\ stage' = "loop"
  /\ \/ /\ ready # {} \/ (~ChildSignalled /\ Signalled = {} /\ expired)
        /\ UNCHANGED <<isOpen, overlapped, sent, pipe, results>>
     \/ /\ ready = {} /\ ChildSignalled
        /\ exited' = TRUE
        /\ UNCHANGED <<isOpen, pending, sent, pipe, results>>
     \/ /\ ready = {} /\ ~ChildSignalled
        /\ \E s \in Signalled : First(s) /\ Complete(s)
  /\ UNCHANGED <<scenario, ready, timedOut, expired, programs>>

\* Nothing is left to wait for.
Break ==
  /\ \/ AtTop /\ ~Unfinished
     \/ stage = "select" /\ ready = {} /\ exited /\ pending = {}
  /\ Abandon("wait")
  /\ UNCHANGED <<scenario, ready, exited, sent, pipe, results, timedOut, expired,
                 programs>>

WindowsParent ==
  \/ AssignJob \/ Terminate \/ BeginRound \/ Break
  \/ PumpOut \/ PumpErr \/ PumpIn \/ Select
=============================================================================
