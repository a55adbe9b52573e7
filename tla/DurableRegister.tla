-------------------------- MODULE DurableRegister --------------------------
(***************************************************************************)
(* What AtomicWriteFile promises its callers (PafioCore/AtomicFile.hpp:    *)
(* "Same-directory temp + fsync + rename for mutable state files"): the    *)
(* target file is a register.  A write takes effect at one instant or not  *)
(* at all; a write that returned normally survives a loss of power, and a  *)
(* loss of power reveals the last such write or a later one, never a mix.  *)
(***************************************************************************)
CONSTANTS Writer, Content, NoContent

VARIABLES
  value,       \* what a reader of the target sees
  revealable,  \* the values the target may have after a loss of power
  pending      \* [Writer -> the state of its call]

rvars == <<value, revealable, pending>>

\* "idle": not called yet, or killed; "ok": returned; "failed": thrown.
Resting == {"idle", "ok", "failed"}
Call(state, c) == [state |-> state, content |-> c]
Rest(how) == Call(how, NoContent)

RegisterTypeOK ==
  /\ value \in Content \cup {NoContent}
  /\ revealable \in SUBSET (Content \cup {NoContent})
  /\ pending \in [Writer -> {Rest(how) : how \in Resting} \cup
                            [state : {"called", "done"}, content : Content]]

RegisterInit ==
  /\ value \in Content \cup {NoContent}
  /\ revealable = {value}
  /\ pending = [w \in Writer |-> Rest("idle")]

Invoke(w, c) ==
  /\ pending[w].state \in Resting
  /\ pending' = [pending EXCEPT ![w] = Call("called", c)]
  /\ UNCHANGED <<value, revealable>>

TakeEffect(w) ==
  /\ pending[w].state = "called"
  /\ pending' = [pending EXCEPT ![w] = Call("done", @.content)]
  /\ value' = pending[w].content
  /\ revealable' = revealable \cup {value'}

\* The call returns: what it wrote, or what was written over it, is durable.
Acknowledge(w) ==
  /\ pending[w].state = "done"
  /\ pending' = [pending EXCEPT ![w] = Rest("ok")]
  /\ revealable' = {value}
  /\ UNCHANGED value

\* The call throws, or its process is killed: it took effect or it did not.
GiveUp(w) ==
  /\ pending[w].state \notin Resting
  /\ \E how \in {"idle", "failed"} : pending' = [pending EXCEPT ![w] = Rest(how)]
  /\ UNCHANGED <<value, revealable>>

LosePower ==
  /\ value' \in revealable
  /\ revealable' = {value'}
  /\ pending' = [w \in Writer |-> Rest("idle")]

RegisterNext ==
  \/ \E w \in Writer, c \in Content : Invoke(w, c)
  \/ \E w \in Writer : TakeEffect(w) \/ Acknowledge(w) \/ GiveUp(w)
  \/ LosePower

RegisterSpec == RegisterInit /\ [][RegisterNext]_rvars
=============================================================================
