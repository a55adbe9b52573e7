---------------------------- MODULE ProcessPosix ----------------------------
(***************************************************************************)
(* RunProcessChecked of PafioCore/ProcessPosix.cpp: the parent feeds the   *)
(* child's input and collects two outputs in one poll loop, until both     *)
(* outputs are closed or a deadline has passed, and then waits for the     *)
(* child.                                                                  *)
(***************************************************************************)
EXTENDS ProcessPrograms

\* setpgid, before the child becomes the program.
JoinGroup ==
  /\ scenario.platform = "posix"
  /\ state["child"] = "alive"
  /\ ~grouped
  /\ grouped' = TRUE
  /\ UNCHANGED <<parent, pipe, expired, state, holds, doing, left, written>>

Looping == stage = "loop" /\ isOpen \cap Out # {}

\* The deadline is looked at before every poll, and poll wakes up for it.
TimeOut ==
  /\ Looping
  /\ expired
  /\ timedOut' = TRUE
  /\ KillGroup
  /\ Abandon("wait")
  /\ UNCHANGED <<scenario, ready, exited, sent, pipe, results, expired>>

\* What poll would report of the open descriptors.
Reported ==
  {f \in isOpen :
     \/ holds[f] = {}
     \/ IF f = "in" THEN pipe[f] < Capacity ELSE pipe[f] > 0}

Poll ==
  /\ Looping
  /\ ~expired
  /\ Reported # {}
  /\ ready' = Reported
  /\ stage' = "send"
  /\ UNCHANGED <<scenario, isOpen, overlapped, sent, pipe, results, timedOut,
                 expired, programs>>

\* An error of poll, or of a descriptor: the child is killed before the exception
\* leaves.
PollFails ==
  /\ "fail" \in scenario.traits
  /\ Looping
  /\ KillGroup
  /\ Abandon("abort")
  /\ UNCHANGED <<scenario, ready, exited, sent, pipe, results, timedOut, expired>>

\* Variant: the write waits for room.
Send_Blocks ==
  /\ stage = "send"
  /\ IF "in" \notin ready
       THEN stage' = "drainOut" /\ UNCHANGED <<isOpen, sent, pipe>>
       ELSE /\ pipe["in"] < Capacity
            /\ sent' = sent + 1
            /\ pipe' = [pipe EXCEPT !["in"] = @ + 1]
            /\ IF sent' = Input
                 THEN stage' = "drainOut" /\ isOpen' = isOpen \ {"in"}
                 ELSE UNCHANGED <<stage, isOpen>>
  /\ UNCHANGED <<scenario, ready, overlapped, results, timedOut, expired, programs>>

\* As much input as the pipe takes; none if nobody can read it any more.
Send ==
  /\ stage = "send"
  /\ \/ /\ "in" \notin ready \/ (holds["in"] # {} /\ pipe["in"] = Capacity)
        /\ stage' = "drainOut"
        /\ UNCHANGED <<isOpen, sent, pipe>>
     \/ /\ "in" \in ready /\ holds["in"] = {}
        /\ stage' = "drainOut"
        /\ isOpen' = isOpen \ {"in"}
        /\ UNCHANGED <<sent, pipe>>
     \/ /\ "in" \in ready /\ holds["in"] # {} /\ pipe["in"] < Capacity
        /\ sent' = sent + 1
        /\ pipe' = [pipe EXCEPT !["in"] = @ + 1]
        /\ IF sent' = Input
             THEN stage' = "drainOut" /\ isOpen' = isOpen \ {"in"}
             ELSE UNCHANGED <<stage, isOpen>>
  /\ UNCHANGED <<scenario, ready, overlapped, results, timedOut, expired, programs>>

\* One read of a descriptor poll reported: a chunk, nothing yet, or its end.
Drain(s, next) ==
  /\ \/ /\ s \in ready /\ pipe[s] > 0
        /\ LET n == Min({Chunk, pipe[s]})
           IN Append(s, n) /\ pipe' = [pipe EXCEPT ![s] = @ - n]
        /\ UNCHANGED <<stage, isOpen>>
     \/ /\ s \notin ready \/ pipe[s] = 0
        /\ stage' = next
        /\ isOpen' = IF s \in ready /\ holds[s] = {} THEN isOpen \ {s} ELSE isOpen
        /\ UNCHANGED <<results, pipe>>
  /\ UNCHANGED <<scenario, ready, overlapped, sent, timedOut, expired, programs>>

DrainOut == stage = "drainOut" /\ Drain("out", "drainErr")
DrainErr == stage = "drainErr" /\ Drain("err", "loop")

\* Both outputs have ended.
LeaveLoop ==
  /\ stage = "loop"
  /\ isOpen \cap Out = {}
  /\ Abandon("wait")
  /\ UNCHANGED <<scenario, ready, exited, sent, pipe, results, timedOut, expired,
                 programs>>

PosixParent == TimeOut \/ Poll \/ Send \/ DrainOut \/ DrainErr \/ LeaveLoop
=============================================================================
