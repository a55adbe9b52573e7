----------------------------- MODULE MCTufChain -----------------------------
(* A small instance of TufChain for TLC: three stories that differ in what   *)
(* may happen, each with as much of it as the run can afford.                *)
EXTENDS TufChain, TLC

VARIABLE story  \* what happens in this behaviour, fixed from the start

One == [keyids |-> <<"a">>, threshold |-> 1]
Two == [keyids |-> <<"a", "b">>, threshold |-> 2]
New == [keyids |-> <<"b", "c">>, threshold |-> 1]

\* Two keys must sign the root and the targets, one the others; then key a is
\* retired, and the public key of c is not in the root yet.
MCPolicies == {
  [known |-> {"a", "b"},
   roles |-> [r \in Role |-> IF r \in {"root", "targets"} THEN Two ELSE One]],
  [known |-> {"b"}, roles |-> [r \in Role |-> New]]}

Good(k) == [key |-> k, good |-> TRUE]
Bad(k) == [key |-> k, good |-> FALSE]

\* None, one of two, one twice, a bad one first, a stranger's.
MCLists == {<< >>, <<Good("b")>>, <<Good("a"), Good("a")>>,
            <<Bad("a"), Good("a"), Good("b")>>, <<Good("c"), Good("b"), Good("a")>>}

MCOrder == <<"alpha", "beta">>

\* "flaws": one document is not as usual, and no time passes.
\* "clock": time passes, and every document is as usual.
\* "registry": a whole registry of two namespaces is verified.
ScenarioInit == Init /\ story \in {"flaws", "clock", "registry"}

Allowed ==
  IF story = "registry" THEN
    /\ request'.mode # "package"
    /\ UNCHANGED <<now, pin>>
  ELSE
    /\ request'.mode # "registry"
    /\ request'.ns # "beta"
    /\ published' # published =>
         published'[Len(published')].timestamp.snapshot.targets["beta"] = Absent
    /\ IF story = "flaws" THEN now' = now ELSE ~flawed'

Scenario == ScenarioInit /\ [][Next /\ Allowed /\ UNCHANGED story]_<<vars, story>>
=============================================================================
