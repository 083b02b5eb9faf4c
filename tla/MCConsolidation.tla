---------------------------- MODULE MCConsolidation ----------------------------
(* The instance of Consolidation that TLC checks. *)
EXTENDS Consolidation

CONSTANTS u1, u2, u3, a1, x1

MCItems == {u1, u2, u3, a1, x1}
MCKind  == [i \in MCItems |-> CASE i = a1 -> "assistant"
                                 [] i = x1 -> "extract"
                                 [] OTHER -> "user"]
=============================================================================
