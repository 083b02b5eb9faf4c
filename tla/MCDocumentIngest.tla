--------------------------- MODULE MCDocumentIngest ---------------------------
(* The instances of DocumentIngest that TLC checks. *)
EXTENDS DocumentIngest, TLC

CONSTANTS c1, c2, c3, empty, full

MCCalls == {c1, c2, c3}
MCSize  == empty :> 0 @@ full :> 2
MCAlike == Permutations(MCCalls)

MCTwoCalls == {c1, c2}
=============================================================================
