--------------------------- MODULE WriteQueueProofs ---------------------------
(***************************************************************************)
(* The order of the calls inside execute_write stays a total one, so that  *)
(* at most one call has the lock, whatever the calls do: the lemmas that   *)
(* the proofs about the modules that extend WriteQueue rest on.            *)
(***************************************************************************)
EXTENDS WriteQueue, TLAPS

\* Of two calls inside, one is ahead of the other.
LEMMA OneHolder ==
  ASSUME QueueOK, NEW c \in Calls, NEW d \in Calls, Holds(c), Holds(d)
  PROVE  c = d
BY DEF QueueOK, Holds

\* A call moves: it asks for the lock again, comes for the first time, or
\* leaves.  If the lock's holder has a statement committed, it is still the
\* holder, and another call than the one that moved.
LEMMA MovesKeepsQueue ==
  ASSUME QueueOK, NEW c \in Calls, NEW asks \in BOOLEAN, Moves(c, asks),
         landed' \in BOOLEAN, landed' => landed /\ ~ Holds(c)
  PROVE  /\ QueueOK'
         /\ \A d \in Calls : landed' /\ Holds(d)' => d # c /\ Holds(d)
<1>1. inside' \subseteq Calls /\ ahead' \in [Calls -> SUBSET inside']
  BY DEF QueueOK, Moves
<1>2. \A d \in Calls : d \notin ahead'[d]
  BY DEF QueueOK, Moves
<1>3. \A d \in Calls \ inside' : ahead'[d] = {}
  BY DEF QueueOK, Moves
<1>4. \A d, e \in inside' : d # e => (d \in ahead'[e] \/ e \in ahead'[d])
  BY DEF QueueOK, Moves
<1>5. \A d, e \in inside' : ~ (d \in ahead'[e] /\ e \in ahead'[d])
  BY DEF QueueOK, Moves
<1>6. ASSUME landed'
      PROVE  \E d \in inside' : Holds(d)'
  <2>1. PICK d \in inside : Holds(d) /\ d # c
    BY <1>6 DEF QueueOK
  <2>2. d \in inside' /\ ahead'[d] = {}
    BY <2>1 DEF QueueOK, Moves, Holds
  <2> QED
    BY <2>2 DEF Holds
<1>7. ASSUME NEW d \in Calls, landed', Holds(d)'
      PROVE  d # c /\ Holds(d)
  <2>1. PICK e \in inside : Holds(e) /\ e # c
    BY <1>7 DEF QueueOK
  <2>2. e \in inside' /\ ahead'[e] = {}
    BY <2>1 DEF QueueOK, Moves, Holds
  <2>3. d = e
    BY <1>1, <1>4, <1>7, <2>2 DEF Holds
  <2> QED
    BY <2>1, <2>3
<1> QED
  BY <1>1, <1>2, <1>3, <1>4, <1>5, <1>6, <1>7 DEF QueueOK

\* A commit changes nobody's place.
LEMMA LandsKeepsQueue ==
  ASSUME QueueOK, NEW c \in Calls, Lands(c)
  PROVE  QueueOK' /\ \A d \in Calls : Holds(d)' => d = c
<1>1. QueueOK' /\ \A d \in Calls : Holds(d)' <=> Holds(d)
  BY DEF QueueOK, Lands, Holds
<1> QED
  BY <1>1, OneHolder DEF Lands

LEMMA LostQueueIsOK ==
  ASSUME QueueLost
  PROVE  QueueOK'
BY DEF QueueLost, QueueOK, Holds

LEMMA InitQueueIsOK ==
  ASSUME QueueInit
  PROVE  QueueOK
BY DEF QueueInit, QueueOK, Holds

\* Whatever the calls of the gate do, asyncio's lock has one holder at most and
\* serves them in a total order (execute_write); what the modules of the tools
\* assume of the order of their calls.
THEOREM QueueStaysOrdered == QueueSpec => []QueueOK
<1>1. QueueOK /\ [QueueNext]_queue => QueueOK'
  <2> SUFFICES ASSUME QueueOK, [QueueNext]_queue
               PROVE  QueueOK'
    OBVIOUS
  <2>1. ASSUME NEW c \in Calls, Asks(c)
        PROVE  QueueOK'
    <3>1. /\ Moves(c, TRUE) /\ landed' \in BOOLEAN
          /\ landed' => landed /\ ~ Holds(c)
      BY <2>1 DEF Asks, QueueOK, Holds
    <3> QED
      BY <3>1, MovesKeepsQueue
  <2>2. ASSUME NEW c \in Calls, Returns(c) \/ Raises(c, c), Moves(c, FALSE)
        PROVE  QueueOK'
    <3>1. landed' \in BOOLEAN /\ (landed' => landed /\ ~ Holds(c))
      BY <2>2 DEF Returns, Raises, QueueOK
    <3> QED
      BY <2>2, <3>1, MovesKeepsQueue
  <2>3. ASSUME NEW w \in late, LandsLate(w)
        PROVE  QueueOK'
    BY <2>3 DEF LandsLate, QueueOK, Holds
  <2>4. CASE UNCHANGED queue
    BY <2>4 DEF queue, QueueOK, Holds
  <2> QED
    BY <2>1, <2>2, <2>3, <2>4, LandsKeepsQueue, LostQueueIsOK DEF QueueNext
<1> QED
  BY <1>1, InitQueueIsOK, PTL DEF QueueSpec

=============================================================================
