---------------------------- MODULE ProcessRunner ----------------------------
(***************************************************************************)
(* A run of RunProcessChecked on POSIX or on Windows: what both promise    *)
(* their callers, whichever loop of theirs the parent is in.               *)
(***************************************************************************)
EXTENDS ProcessPosix, ProcessWindows

OnPosix == scenario.platform = "posix" /\ PosixParent
Parent == OnPosix \/ WindowsParent \/ Reap

ParentFails == (scenario.platform = "posix" /\ PollFails) \/ Throw

ProcessNext ==
  \/ JoinGroup \/ Fork \/ Expire
  \/ \E p \in Program : Act(p) \/ Do(p)
  \/ Parent \/ ParentFails

\* The parent and the clock go on; of the programs nothing is known.
ProcessSpec ==
  /\ ProcessInit /\ [][ProcessNext]_processVars
  /\ WF_processVars(Parent) /\ WF_processVars(Expire)

\* Programs that go on as well, and so run to their end.
RunningSpec ==
  /\ ProcessSpec
  /\ WF_processVars(JoinGroup)
  /\ \A p \in Program : WF_processVars(Act(p)) /\ WF_processVars(Do(p))

-----------------------------------------------------------------------------
(* Properties.                                                              *)

\* The parent comes back.  Of programs that run to their end, no order of reads and
\* writes on the three bounded pipes leaves the parent and a program waiting for
\* one another; programs that hang, or write for ever, end with the deadline: on
\* POSIX if they keep an output open, on Windows whatever they do.
Returns == <>(stage \in {"returned", "thrown"})

\* "Capture limits bound retained output while every stream continues draining":
\* without a timeout all that the programs wrote is there up to the limit, and
\* marked truncated exactly if more was written.
OutputIsKept ==
  stage = "returned" /\ ~timedOut =>
    \A s \in Out :
      /\ kept[s] = Min({Limit, written[s]})
      /\ s \in truncated <=> written[s] > Limit

\* A run that failed or timed out leaves none of its processes behind.
NothingIsLeft ==
  stage = "thrown" \/ (stage = "returned" /\ timedOut) =>
    \A p \in Program : state[p] # "alive"
=============================================================================
