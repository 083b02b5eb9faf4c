--------------------------- MODULE MCSessionContext ---------------------------
(* The instance of SessionContext that TLC checks. *)
EXTENDS SessionContext, TLC

CONSTANTS c1, c2, c3, n1, n2

MCCalls == {c1, c2, c3}
MCNodes == {n1, n2}
MCAlike == Permutations(MCCalls) \cup Permutations(MCNodes)

\* The Loop activates a node once, in a behaviour without retrievals: those have
\* nothing to do with the frontier.
Retrieves == \E c \in Calls : pc[c] \in LoadAwaiting \cup {"loaded"}
MCNext ==
  \/ \E c \in Calls : Turn(c) \/ Land(c)
  \/ added = {} /\ \E c \in Calls : Retrieval(c)
  \/ \E w \in late : LandLate(w)
  \/ ~ Retrieves /\ added = {} /\ \E n \in Nodes : LoopActivates(n)
  \/ Crash
MCSpec == Init /\ [][MCNext]_vars
=============================================================================
