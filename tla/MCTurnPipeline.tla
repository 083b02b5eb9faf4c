---------------------------- MODULE MCTurnPipeline ----------------------------
(* The instance of TurnPipeline that TLC checks. *)
EXTENDS TurnPipeline

CONSTANTS t1, t2, s1

MCTurns     == {t1, t2}
MCRetrievals == {}
MCSessions  == {s1}
MCSessionOf == [t \in MCTurns |-> s1]
MCKeyed     == {t1}
MCTokens    == [t \in MCTurns |-> 1]
MCKind      == [t \in MCTurns |-> "user"]
=============================================================================
