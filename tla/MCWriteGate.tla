------------------------------ MODULE MCWriteGate ------------------------------
(* The instance of WriteGate that TLC checks.  Of three SPARQL writes one has *)
(* a vector to index, and so has one of the handlers' writes, which is one    *)
(* update; the other makes several.  A run makes one call of a handler or of  *)
(* a read beside the writes: those meet nowhere but on the event loop.        *)
EXTENDS WriteGate

CONSTANTS w1, w2, w3, h1, h2, q1

MCWriters  == {w1, w2, w3}
MCHandlers == {h1, h2}
MCEmbedded == {w1, h2}
MCMany     == {h1}
MCReaders  == {q1}

MCNext ==
  /\ Next
  /\ pc'[h1] = "idle" \/ pc'[h2] = "idle"
  /\ reading'[q1] # "idle" => \A h \in Handlers : pc'[h] = "idle"

MCSpec == Init /\ [][MCNext]_vars /\ Fairness
=============================================================================
