--------------------------- MODULE ProcessPrograms ---------------------------
(***************************************************************************)
(* What RunProcessChecked starts, on either platform: a child, and a       *)
(* process the child may start itself, which read, write, close and exit   *)
(* as they like, for ever if "busy" is among their traits.  Their input    *)
(* and two outputs are pipes of bounded capacity, of which the bytes are   *)
(* counted.  The parent is ProcessPosix or ProcessWindows.                 *)
(***************************************************************************)
EXTENDS Integers, FiniteSets, FiniteSetsExt

CONSTANTS
  Input,     \* bytes of stdin_text
  Limit,     \* max_stdout_bytes, max_stderr_bytes
  Chunk,     \* bytes one read returns at most
  Capacity,  \* bytes a pipe holds
  Work,      \* bound on the reads and writes of a process
  Scenarios, \* the platforms, requests and programs there are
  NoOperation  \* no operation

\* What programs may do, and that a system call of the parent may fail.
Traits == {"fork", "close", "hang", "busy", "fail"}

ASSUME RunnerAssumption ==
  /\ {Input, Limit, Work} \subseteq Nat
  /\ {Chunk, Capacity} \subseteq Nat \ {0}
  /\ Scenarios \subseteq [platform : {"posix", "windows"}, deadline : BOOLEAN,
                          traits : SUBSET Traits]
  /\ NoOperation \notin {"in", "out", "err", "sleep"}

Out == {"out", "err"}
Fd == Out \cup {"in"}
Program == {"child", "grandchild"}

VARIABLES
  scenario,   \* the platform, whether there is a timeout, and what may happen
  stage,      \* what the parent does next
  ready,      \* the pipes poll reported, or that have moved bytes: a subset of Fd
  isOpen,     \* the ends of pipes the parent has open
  pending,    \* Windows: the pipes with an operation under way
  exited,     \* Windows: the parent has seen the child's end
  sent,       \* stdin_written, offset_
  pipe,       \* [Fd -> bytes in the pipe]
  kept,       \* [Out -> bytes of stdout_text, stderr_text]
  truncated,  \* stdout_truncated, stderr_truncated: a subset of Out
  timedOut,   \* timed_out
  expired,    \* the timeout has elapsed
  state,      \* [Program -> "unborn", "alive", "dead", "reaped"]
  grouped,    \* the child runs, in a process group or a job of its own
  holds,      \* [Fd -> the programs that have it open]
  doing,      \* [Program -> the operation it is in]
  left,       \* [Program -> operations it has left]
  written     \* history: [Out -> bytes written to it, counted up to Limit + 1]

results == <<kept, truncated>>
overlapped == <<pending, exited>>
programs == <<state, grouped, holds, doing, left, written>>
parent == <<scenario, stage, ready, isOpen, overlapped, sent, results, timedOut>>
processVars == <<parent, pipe, expired, programs>>

ProcessPhases ==
  {"start", "loop", "send", "drainOut", "drainErr",
   "pumpOut", "pumpErr", "pumpIn", "select", "wait", "abort", "returned", "thrown"}

ProcessTypeOK ==
  /\ scenario \in Scenarios
  /\ stage \in ProcessPhases
  /\ ready \subseteq Fd
  /\ isOpen \subseteq Fd
  /\ pending \subseteq isOpen
  /\ exited \in BOOLEAN
  /\ sent \in 0..Input
  /\ pipe \in [Fd -> 0..Capacity]
  /\ kept \in [Out -> 0..Limit]
  /\ truncated \subseteq Out
  /\ timedOut \in BOOLEAN
  /\ expired \in BOOLEAN
  /\ state \in [Program -> {"unborn", "alive", "dead", "reaped"}]
  /\ grouped \in BOOLEAN
  /\ holds \in [Fd -> SUBSET Program]
  /\ doing \in [Program -> Fd \cup {"sleep", NoOperation}]
  /\ left \in [Program -> 0..Work]
  /\ written \in [Out -> 0..Limit + 1]

\* The child exists, the parent has closed the ends that are not its own.
ProcessInit ==
  /\ scenario \in Scenarios
  /\ stage = IF scenario.platform = "posix" THEN "loop" ELSE "start"
  /\ ready = {}
  /\ isOpen = IF Input = 0 THEN Out ELSE Fd
  /\ pending = {}
  /\ exited = FALSE
  /\ sent = 0
  /\ pipe = [f \in Fd |-> 0]
  /\ kept = [s \in Out |-> 0]
  /\ truncated = {}
  /\ timedOut = FALSE
  /\ expired = FALSE
  /\ state = [p \in Program |-> IF p = "child" THEN "alive" ELSE "unborn"]
  /\ grouped = FALSE
  /\ holds = [f \in Fd |-> IF f = "in" /\ Input = 0 THEN {} ELSE {"child"}]
  /\ doing = [p \in Program |-> NoOperation]
  /\ left = [p \in Program |-> Work]
  /\ written = [s \in Out |-> 0]

-----------------------------------------------------------------------------
(* The programs.                                                            *)

\* A program that is gone has nothing open.
Gone(dead) ==
  /\ state' = [p \in Program |-> IF p \in dead THEN "dead" ELSE state[p]]
  /\ holds' = [f \in Fd |-> holds[f] \ dead]
  /\ doing' = [p \in Program |-> IF p \in dead THEN NoOperation ELSE doing[p]]

Idle(p) == state[p] = "alive" /\ grouped /\ doing[p] = NoOperation

\* The next thing a program does; it may well wait for it.
Choose(p, op) ==
  /\ Idle(p)
  /\ left[p] > 0
  /\ IF op = "sleep" THEN "hang" \in scenario.traits ELSE p \in holds[op]
  /\ doing' = [doing EXCEPT ![p] = op]
  /\ left' = IF "busy" \in scenario.traits THEN left ELSE [left EXCEPT ![p] = @ - 1]
  /\ UNCHANGED <<parent, pipe, expired, state, grouped, holds, written>>

\* A byte is read or written, or the input has ended.
Do(p) ==
  /\ doing[p] \in Fd
  /\ doing' = [doing EXCEPT ![p] = NoOperation]
  /\ \/ /\ doing[p] = "in"
        /\ pipe["in"] > 0 \/ "in" \notin isOpen
        /\ pipe' = [pipe EXCEPT !["in"] = Max({0, @ - 1})]
        /\ UNCHANGED written
     \/ \E s \in Out :
          /\ doing[p] = s
          /\ pipe[s] < Capacity
          /\ pipe' = [pipe EXCEPT ![s] = @ + 1]
          /\ written' = [written EXCEPT ![s] = Min({Limit + 1, @ + 1})]
  /\ UNCHANGED <<parent, expired, state, grouped, holds, left>>

Close(p, f) ==
  /\ "close" \in scenario.traits
  /\ Idle(p)
  /\ p \in holds[f]
  /\ holds' = [holds EXCEPT ![f] = @ \ {p}]
  /\ UNCHANGED <<parent, pipe, expired, state, grouped, doing, left, written>>

Fork ==
  /\ "fork" \in scenario.traits
  /\ Idle("child")
  /\ state["grandchild"] = "unborn"
  /\ state' = [state EXCEPT !["grandchild"] = "alive"]
  /\ holds' = [f \in Fd |->
                 IF "child" \in holds[f] THEN holds[f] \cup {"grandchild"} ELSE holds[f]]
  /\ UNCHANGED <<parent, pipe, expired, grouped, doing, left, written>>

Exit(p) ==
  /\ Idle(p)
  /\ Gone({p})
  /\ UNCHANGED <<parent, pipe, expired, grouped, left, written>>

Act(p) ==
  \/ \E op \in Fd \cup {"sleep"} : Choose(p, op)
  \/ \E f \in Fd : Close(p, f)
  \/ Exit(p)

\* The clock.
Expire ==
  /\ scenario.deadline
  /\ ~expired
  /\ expired' = TRUE
  /\ UNCHANGED <<parent, pipe, programs>>

-----------------------------------------------------------------------------
(* What both parents do with them.                                          *)

\* Variant: the child alone is killed.
KillGroup_ChildOnly ==
  /\ Gone({p \in {"child"} : state[p] = "alive"})
  /\ UNCHANGED <<grouped, left, written>>

\* The child's process group or job is killed, or the child if it has none yet:
\* then it has started nothing.
KillGroup ==
  /\ Gone({p \in Program : state[p] = "alive"})
  /\ UNCHANGED <<grouped, left, written>>

\* The loop is left, to wait for the child or for an exception.
Abandon(next) ==
  /\ stage' = next
  /\ isOpen' = {}
  /\ pending' = {}

\* What the limit leaves room for is kept.
Append(s, n) ==
  /\ kept' = [kept EXCEPT ![s] = Min({Limit, @ + n})]
  /\ truncated' = IF kept[s] + n > Limit THEN truncated \cup {s} ELSE truncated

\* The wait for the child's end, which has no deadline.
Reap ==
  /\ stage \in {"wait", "abort"}
  /\ state["child"] = "dead"
  /\ state' = [state EXCEPT !["child"] = "reaped"]
  /\ stage' = IF stage = "wait" THEN "returned" ELSE "thrown"
  /\ UNCHANGED <<scenario, ready, isOpen, overlapped, sent, pipe, results, timedOut,
                 expired, grouped, holds, doing, left, written>>
=============================================================================
