----------------------------- MODULE MCTurnCapture -----------------------------
(* The instance of TurnCapture that TLC checks. *)
EXTENDS TurnCapture, TLC

CONSTANTS t1, t2, t3, r1, s1

MCCalls      == {t1, t2, t3, r1}
MCRetrievals == {r1}
MCSessions   == {s1}
MCSessionOf  == [t \in MCCalls |-> s1]
MCKeyed      == {t1, t2}
\* The two turns that carry the key differ in nothing else.
Versions     == Permutations(MCKeyed)
MCTokens     == [t \in MCCalls |-> 1]

\* With the two there comes a third turn or a retrieval.
MCNext ==
  /\ Next
  /\ pc'[t3] = "idle" \/ pc'[r1] = "idle"
MCSpec == Init /\ [][MCNext]_vars
=============================================================================
