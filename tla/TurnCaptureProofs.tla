---------------------------- MODULE TurnCaptureProofs ----------------------------
(***************************************************************************)
(* Proofs about TurnCapture: its types, that the Loop is never handed a    *)
(* message that is not stored, and that FOLLOWED_BY never closes a cycle.  *)
(* The last rests on the write lock: whoever looks for the previous        *)
(* message holds the lock, so the message it finds is of a turn that has   *)
(* looked already, and that turn is never chained to anything after it     *)
(* (CaptureInv).                                                           *)
(*                                                                         *)
(* About the workers, for any items: the types and the counts of           *)
(* Consolidation (ConsolidationInv), and what a poll answers.              *)
(*                                                                         *)
(* About TurnPipeline: it implements the workers' specification, so what   *)
(* is proved of them holds of it; an answered turn is settled when the     *)
(* pipeline is at rest, and the Loop takes messages in the order           *)
(* FOLLOWED_BY gives them (PipelineInv).                                   *)
(*                                                                         *)
(* And about the calls of a session that come one at a time: its turns are *)
(* chained in that order, and the last version of a keyed message is the   *)
(* live one (SequentialInv, a function from where the turns are to what    *)
(* the graph holds).                                                       *)
(*                                                                         *)
(* Last, the token estimate of a session, which calls that overlap may     *)
(* lose but never count twice (EstimateInv), on lemmas about the sum over  *)
(* a set of calls.                                                         *)
(***************************************************************************)
EXTENDS TurnPipeline, WriteQueueProofs, FiniteSetTheorems

Places == Awaiting \cup Ended \cup {"idle", "quest"}

\* Where a call is when it adds to the estimate.
Counting == {"estimate", "inject"}

\* Where a call is when its message is stored, and when its link is tried.
PastMessage == {"estimate", "link", "push", "answered"}
PastLink == {"push", "answered", "raised", "lost"}

InsideAwaits == \A t \in inside : pc[t] \in Awaiting

StoredFirst ==
  \A t \in Calls :
    /\ pc[t] \in PastMessage => t \in stored
    /\ pc[t] = "message" /\ landed /\ Holds(t) => t \in stored

\* What a statement that was given up may still do.
LateOK ==
  \A w \in late :
    /\ w.on \subseteq Calls
    /\ w.statement.kind \in {"archive", "link"} => w.on \subseteq stored
    /\ w.statement.kind = "link" =>
         w.on \subseteq {w.statement.turn} /\ pc[w.statement.turn] \in PastLink

\* A message gets its SENT_IN edge while its turn holds the lock, or later.
SentIsPast ==
  \A t \in sentIn : pc[t] \in PastLink \/ (pc[t] = "link" /\ landed /\ Holds(t))

\* A message that others follow is of a turn that is past its own link.
FollowedIsPast == \A e \in followedBy : pc[e[1]] \in PastLink

CaptureInv ==
  /\ TypeOK /\ InsideAwaits /\ StoredFirst /\ EnqueuedIsStored
  /\ LateOK /\ SentIsPast /\ FollowedIsPast /\ ChainHasNoCycle

-----------------------------------------------------------------------------
\* An edge to a message that nothing follows closes no cycle.
LEMMA NewEdgesCloseNoCycle ==
  ASSUME ChainHasNoCycle, NEW t \in Calls, NEW P, t \notin P,
         \A u \in Calls : <<t, u>> \notin followedBy,
         followedBy' = followedBy \cup {<<p, t>> : p \in P}
  PROVE  ChainHasNoCycle'
<1> SUFFICES ASSUME NEW S \in (SUBSET Calls) \ {{}}
             PROVE  \E s \in S : \A u \in S : <<s, u>> \notin followedBy'
  BY DEF ChainHasNoCycle
<1>1. CASE t \in S
  <2>1. \A u \in S : <<t, u>> \notin followedBy'
    OBVIOUS
  <2> QED
    BY <1>1, <2>1
<1>2. CASE t \notin S
  <2>1. PICK s \in S : \A u \in S : <<s, u>> \notin followedBy
    BY DEF ChainHasNoCycle
  <2>2. \A u \in S : <<s, u>> \notin followedBy'
    BY <1>2, <2>1
  <2> QED
    BY <2>2
<1> QED
  BY <1>1, <1>2

\* A statement commits: the graph changes, and no call goes on.
LEMMA CommitKeepsInv ==
  ASSUME CaptureInv, NEW w, NEW on, Writes(w, on),
         w.turn \in Calls, w.value \in Nat, on \subseteq Calls,
         w.kind \in {"archive", "link"} => on \subseteq stored,
         w.kind = "link" => \A t \in on : pc[t] \in PastLink
                              \/ (pc[t] = "link" /\ landed' /\ Holds(t)'),
         UNCHANGED <<pc, arg, born, enqueued, disturbed, failures>>,
         QueueOK', inside' = inside, late' \subseteq late,
         \A t \in Calls : landed /\ Holds(t) => landed' /\ Holds(t)',
         \A t \in Calls : pc[t] = "message" /\ landed' /\ Holds(t)' =>
           (landed /\ Holds(t)) \/ t \in stored'
  PROVE  CaptureInv'
<1>1. /\ pc' = pc /\ arg' = arg /\ born' = born /\ enqueued' = enqueued
      /\ disturbed' = disturbed /\ failures' = failures /\ followedBy' = followedBy
  BY DEF Writes
<1>2. /\ stored \subseteq stored' /\ stored' \subseteq Calls
      /\ archived' \subseteq stored' /\ sentIn \subseteq sentIn'
      /\ sentIn' \subseteq stored'
  BY DEF Writes, CaptureInv, TypeOK
<1>3. sessions' \subseteq Sessions /\ estimate' \in [Sessions -> Nat]
      /\ lastPush' \in [Sessions -> Nat \cup {None}]
  BY TurnCaptureAssumption DEF Writes, CaptureInv, TypeOK
<1>4. TypeOK'
  <2>1. followedBy' \subseteq sentIn' \X Calls
    BY <1>1, <1>2 DEF CaptureInv, TypeOK
  <2> QED
    BY <1>1, <1>2, <1>3, <2>1 DEF CaptureInv, TypeOK
<1>5. InsideAwaits' /\ FollowedIsPast' /\ ChainHasNoCycle'
  BY <1>1 DEF CaptureInv, InsideAwaits, FollowedIsPast, ChainHasNoCycle
<1>6. StoredFirst'
  BY <1>1, <1>2 DEF CaptureInv, StoredFirst
<1>7. EnqueuedIsStored' /\ LateOK'
  BY <1>1, <1>2 DEF CaptureInv, EnqueuedIsStored, Enqueued, LateOK
<1>8. SentIsPast'
  <2>1. \A t \in sentIn' : t \in sentIn \/ (w.kind = "link" /\ t \in on)
    BY DEF Writes
  <2>2. sentIn \subseteq Calls
    BY DEF CaptureInv, TypeOK
  <2> QED
    BY <1>1, <2>1, <2>2 DEF CaptureInv, SentIsPast
<1> QED
  BY <1>4, <1>5, <1>6, <1>7, <1>8 DEF CaptureInv

LEMMA LandKeepsInv ==
  ASSUME CaptureInv, NEW t \in Calls, Land(t)
  PROVE  CaptureInv'
<1> DEFINE w == Statement(t)
<1>1. /\ Holds(t) /\ ~ landed /\ landed' = TRUE /\ Lands(t) /\ Writes(w, Selects(w))
      /\ late' = late /\ inside' = inside /\ ahead' = ahead
      /\ UNCHANGED <<pc, arg, born, enqueued, disturbed, failures>>
  BY DEF Land, Lands
<1>2. QueueOK' /\ (\A u \in Calls : Holds(u)' => u = t) /\ Holds(t)'
  BY <1>1, LandsKeepsQueue DEF CaptureInv, TypeOK, Holds
<1>3. w.turn = t /\ w.kind = pc[t] /\ w.value = arg[t] /\ w.value \in Nat
  BY DEF Statement, CaptureInv, TypeOK
<1>4. /\ Selects(w) \subseteq Calls
      /\ w.kind \in {"archive", "link"} => Selects(w) \subseteq stored
      /\ w.kind \in {"link", "message"} => Selects(w) \subseteq {t}
      /\ w.kind = "message" => Selects(w) = {t}
  BY <1>3 DEF Selects, CaptureInv, TypeOK
<1>5. pc[t] = "message" => t \in stored'
  BY <1>1, <1>3, <1>4 DEF Writes
<1> HIDE DEF w
<1>6. w.kind = "link" => \A u \in Selects(w) : pc[u] = "link" /\ landed' /\ Holds(u)'
  BY <1>1, <1>2, <1>3, <1>4
<1> QED
  BY <1>1, <1>2, <1>3, <1>4, <1>5, <1>6, CommitKeepsInv

LEMMA LandLateKeepsInv ==
  ASSUME CaptureInv, NEW w \in late, LandLate(w)
  PROVE  CaptureInv'
<1>1. PICK on \in {w.on, Selects(w.statement)} : Writes(w.statement, on)
  BY DEF LandLate
<1>2. /\ late' = late \ {w} /\ inside' = inside /\ ahead' = ahead /\ landed' = landed
      /\ UNCHANGED <<pc, arg, born, enqueued, disturbed, failures>>
  BY DEF LandLate, LandsLate
<1>3. QueueOK' /\ \A u \in Calls : Holds(u)' <=> Holds(u)
  BY <1>2 DEF CaptureInv, TypeOK, QueueOK, Holds
<1>4. w.statement.turn \in Calls /\ w.statement.value \in Nat
  BY DEF CaptureInv, TypeOK
<1>5. /\ on \subseteq Calls
      /\ w.statement.kind \in {"archive", "link"} => on \subseteq stored
      /\ w.statement.kind = "link" => \A u \in on : pc[u] \in PastLink
  BY <1>4 DEF CaptureInv, LateOK, TypeOK, Selects
<1>6. /\ late' \subseteq late
      /\ \A t \in Calls : landed /\ Holds(t) => landed' /\ Holds(t)'
      /\ \A t \in Calls : pc[t] = "message" /\ landed' /\ Holds(t)' =>
           (landed /\ Holds(t)) \/ t \in stored'
  BY <1>2, <1>3
<1>7. w.statement.kind = "link" => \A t \in on : pc[t] \in PastLink
                                    \/ (pc[t] = "link" /\ landed' /\ Holds(t)')
  BY <1>5
<1> HIDE DEF PastLink
<1> QED
  BY <1>1, <1>2, <1>3, <1>4, <1>5, <1>6, <1>7, CommitKeepsInv

-----------------------------------------------------------------------------
\* A call that is not inside execute_write goes on, and stays out.
LEMMA StayingOutMoves ==
  ASSUME QueueOK, NEW t \in Calls, t \notin inside, UNCHANGED queue
  PROVE  Moves(t, FALSE) /\ landed' = landed /\ late' = late /\ ~ Holds(t)
BY DEF QueueOK, Moves, queue, Holds

\* A call goes on, and nothing in the graph changes but the chain.
LEMMA GoingOnKeepsInv ==
  ASSUME CaptureInv, NEW t \in Calls, NEW next \in Places, NEW asks \in BOOLEAN,
         Moves(t, asks), pc' = [pc EXCEPT ![t] = next], asks => next \in Awaiting,
         landed' = (landed /\ ~ Holds(t)),
         late' \in {late, late \cup {[statement |-> Statement(t), on |-> Selects(Statement(t))]}},
         late' # late /\ pc[t] = "link" => next \in PastLink,
         arg' \in [Calls -> Nat], born' \in [Calls -> Nat],
         disturbed' \subseteq Sessions, failures' \in 0 .. MaxFailures,
         UNCHANGED <<stored, archived, sessions, sentIn, estimate, lastPush>>,
         pc[t] \in PastLink => next \in PastLink,
         pc[t] = "link" => next \in PastLink \/ (next = "link" /\ t \notin inside),
         next \in PastMessage => t \in stored,
         enqueued' \in Seq(Calls), Enqueued' \subseteq stored,
         \/ followedBy' = followedBy
         \/ /\ pc[t] = "link" /\ next \in PastLink /\ Holds(t)
            /\ followedBy' = followedBy \cup {<<p, t>> : p \in Previous(t)}
  PROVE  CaptureInv'
<1>1. QueueOK' /\ \A d \in Calls : landed' /\ Holds(d)' => d # t /\ Holds(d)
  <2>1. landed' \in BOOLEAN /\ (landed' => landed /\ ~ Holds(t))
    BY DEF CaptureInv, TypeOK, QueueOK
  <2> QED
    BY <2>1, MovesKeepsQueue DEF CaptureInv, TypeOK
<1>2. /\ stored' = stored /\ archived' = archived /\ sessions' = sessions /\ sentIn' = sentIn
      /\ estimate' = estimate /\ lastPush' = lastPush
  OBVIOUS
<1>3. /\ pc' \in [Calls -> Places] /\ pc'[t] = next /\ t \in Calls
      /\ \A d \in Calls \ {t} : pc'[d] = pc[d]
  BY DEF CaptureInv, TypeOK, Places
<1>4. Previous(t) \subseteq sentIn \ {t}
  BY DEF Previous, Newest, InSession
<1>5. TypeOK'
  <2>1. followedBy' \subseteq sentIn' \X Calls
    BY <1>2, <1>4 DEF CaptureInv, TypeOK
  <2>2. \A w \in late' : w.statement.turn \in Calls /\ w.statement.value \in Nat
    BY DEF CaptureInv, TypeOK, Statement
  <2> QED
    BY <1>1, <1>2, <1>3, <2>1, <2>2 DEF CaptureInv, TypeOK, Places
<1>6. InsideAwaits'
  <2>1. \A d \in inside' : (d \in inside /\ d # t) \/ (d = t /\ asks)
    BY DEF Moves
  <2>2. inside \subseteq Calls
    BY DEF CaptureInv, TypeOK, QueueOK
  <2> QED
    BY <1>3, <2>1, <2>2 DEF CaptureInv, InsideAwaits
<1>7. StoredFirst'
  <2>1. ASSUME NEW d \in Calls, pc'[d] \in PastMessage
        PROVE  d \in stored
    BY <1>3, <2>1 DEF CaptureInv, StoredFirst
  <2>2. ASSUME NEW d \in Calls, pc'[d] = "message", landed', Holds(d)'
        PROVE  d \in stored
    <3>1. d # t /\ Holds(d) /\ landed
      BY <1>1, <2>2
    <3>2. pc[d] = "message"
      BY <1>3, <2>2, <3>1
    <3> QED
      BY <3>1, <3>2 DEF CaptureInv, StoredFirst
  <2> QED
    BY <1>2, <2>1, <2>2 DEF StoredFirst
<1>8. EnqueuedIsStored'
  BY <1>2 DEF EnqueuedIsStored
<1>9. \A d \in Calls : pc[d] \in PastLink => pc'[d] \in PastLink
  BY <1>3
<1>10. LateOK'
  <2> DEFINE v == [statement |-> Statement(t), on |-> Selects(Statement(t))]
  <2>1. /\ v.statement.kind = pc[t] /\ v.statement.turn = t /\ v.on \subseteq Calls
        /\ v.statement.kind \in {"archive", "link"} => v.on \subseteq stored
        /\ v.statement.kind = "link" => v.on \subseteq {t}
    BY DEF Statement, Selects, CaptureInv, TypeOK
  <2>2. late' = late \/ late' = late \cup {v}
    OBVIOUS
  <2> HIDE DEF v
  <2>3. \A w \in late : pc[w.statement.turn] \in PastLink => pc'[w.statement.turn] \in PastLink
    BY <1>9 DEF CaptureInv, TypeOK
  <2>4. late' # late /\ v.statement.kind = "link" => pc'[t] \in PastLink
    BY <1>3, <2>1
  <2> QED
    BY <1>2, <2>1, <2>2, <2>3, <2>4 DEF CaptureInv, LateOK
<1>11. SentIsPast'
  <2> SUFFICES ASSUME NEW d \in sentIn
               PROVE  pc'[d] \in PastLink \/ (pc'[d] = "link" /\ landed' /\ Holds(d)')
    BY <1>2 DEF SentIsPast, Holds
  <2>1. d \in Calls
    BY DEF CaptureInv, TypeOK
  <2>2. CASE pc[d] \in PastLink
    BY <1>9, <2>1, <2>2
  <2>3. CASE pc[d] = "link" /\ landed /\ Holds(d)
    <3>1. CASE d = t
      BY <1>3, <2>3, <3>1 DEF Holds
    <3>2. CASE d # t
      <4>1. Holds(d)' /\ ~ Holds(t)
        BY <2>1, <2>3, <3>2, OneHolder DEF Moves, Holds, CaptureInv, TypeOK, QueueOK
      <4> QED
        BY <1>3, <2>1, <2>3, <3>2, <4>1
    <3> QED
      BY <3>1, <3>2
  <2> QED
    BY <2>2, <2>3 DEF CaptureInv, SentIsPast
<1>12. FollowedIsPast' /\ ChainHasNoCycle'
  <2>1. CASE followedBy' = followedBy
    <3>1. \A e \in followedBy : e[1] \in Calls
      BY DEF CaptureInv, TypeOK
    <3> QED
      BY <1>9, <2>1, <3>1 DEF CaptureInv, FollowedIsPast, ChainHasNoCycle
  <2>2. CASE /\ pc[t] = "link" /\ next \in PastLink /\ Holds(t)
             /\ followedBy' = followedBy \cup {<<p, t>> : p \in Previous(t)}
    <3>1. \A u \in Calls : <<t, u>> \notin followedBy
      BY <2>2 DEF CaptureInv, FollowedIsPast, PastLink
    <3>2. \A p \in Previous(t) : p \in Calls /\ pc[p] \in PastLink
      BY <1>4, <2>2, OneHolder DEF CaptureInv, SentIsPast, TypeOK
    <3>3. FollowedIsPast'
      <4>1. \A e \in followedBy : e[1] \in Calls /\ pc[e[1]] \in PastLink
        BY DEF CaptureInv, FollowedIsPast, TypeOK
      <4> QED
        BY <1>9, <2>2, <3>2, <4>1 DEF FollowedIsPast
    <3>4. ChainHasNoCycle'
      BY <1>4, <2>2, <3>1, NewEdgesCloseNoCycle DEF CaptureInv
    <3> QED
      BY <3>3, <3>4
  <2> QED
    BY <2>1, <2>2
<1> QED
  BY <1>5, <1>6, <1>7, <1>8, <1>10, <1>11, <1>12 DEF CaptureInv

\* What the actions have in common.
LEMMA FailsIsTyped ==
  ASSUME CaptureInv, NEW t \in Calls, Fails(t)
  PROVE  disturbed' \subseteq Sessions /\ failures' \in 0 .. MaxFailures
BY TurnCaptureAssumption DEF Fails, CaptureInv, TypeOK

LEMMA SettlesFacts ==
  ASSUME CaptureInv, NEW t \in Calls, NEW next, Passes(t, next) \/ Breaks(t, next)
  PROVE  /\ t \in inside /\ Moves(t, FALSE) /\ pc' = [pc EXCEPT ![t] = next]
         /\ landed' = (landed /\ ~ Holds(t))
         /\ late' \in {late, late \cup {[statement |-> Statement(t),
                                         on |-> Selects(Statement(t))]}}
         /\ Passes(t, next) => late' = late /\ Holds(t) /\ landed
         /\ arg' \in [Calls -> Nat] /\ born' \in [Calls -> Nat]
         /\ disturbed' \subseteq Sessions /\ failures' \in 0 .. MaxFailures
<1>1. CASE Passes(t, next)
  BY <1>1 DEF Passes, GoesTo, Returns, Holds, CaptureInv, TypeOK
<1>2. CASE Breaks(t, next) /\ ~ Passes(t, next)
  <2>1. disturbed' \subseteq Sessions /\ failures' \in 0 .. MaxFailures
    BY <1>2, FailsIsTyped DEF Breaks
  <2> QED
    BY <1>2, <2>1 DEF Breaks, GoesTo, Raises, CaptureInv, TypeOK
<1> QED
  BY <1>1, <1>2

\* A call's awaited write returns or raises, and that is all that happens.
LEMMA SettlingKeepsInv ==
  ASSUME CaptureInv, NEW t \in Calls, NEW next \in Places,
         Passes(t, next) \/ Breaks(t, next),
         UNCHANGED <<graph, enqueued>>,
         pc[t] \in PastLink => next \in PastLink,
         pc[t] # "link",
         next \in PastMessage => t \in stored
  PROVE  CaptureInv'
<1>1. /\ UNCHANGED <<stored, archived, sessions, sentIn, estimate, lastPush>>
      /\ followedBy' = followedBy /\ enqueued' = enqueued
  BY DEF graph
<1>2. enqueued' \in Seq(Calls) /\ Enqueued' \subseteq stored
  BY <1>1 DEF CaptureInv, TypeOK, EnqueuedIsStored, Enqueued
<1> QED
  BY <1>1, <1>2, SettlesFacts, GoingOnKeepsInv

\* A call asks for the lock, with a value it has computed.
LEMMA IssuingKeepsInv ==
  ASSUME CaptureInv, NEW t \in Calls, NEW v \in Nat, Issues(t, v), UNCHANGED <<graph, enqueued>>
  PROVE  CaptureInv'
<1>1. /\ UNCHANGED <<stored, archived, sessions, sentIn, estimate, lastPush>>
      /\ followedBy' = followedBy /\ enqueued' = enqueued
  BY DEF graph
<1>2. enqueued' \in Seq(Calls) /\ Enqueued' \subseteq stored
  BY <1>1 DEF CaptureInv, TypeOK, EnqueuedIsStored, Enqueued
<1>3. /\ pc[t] \in Awaiting /\ t \notin inside /\ ~ Holds(t) /\ Moves(t, TRUE)
      /\ landed' = landed /\ late' = late /\ landed \in BOOLEAN
      /\ pc' = [pc EXCEPT ![t] = pc[t]] /\ pc[t] \in Places
  BY DEF Issues, Holds, CaptureInv, TypeOK, QueueOK, Places
<1>4. /\ arg' \in [Calls -> Nat] /\ born' \in [Calls -> Nat]
      /\ disturbed' \subseteq Sessions /\ failures' \in 0 .. MaxFailures
  BY DEF Issues, CaptureInv, TypeOK
<1>5. pc[t] \in PastMessage => t \in stored
  BY DEF CaptureInv, StoredFirst
<1>6. landed' = (landed /\ ~ Holds(t))
  BY <1>3
<1>7. pc[t] = "link" => pc[t] \in PastLink \/ (pc[t] = "link" /\ t \notin inside)
  BY <1>3
<1> QED
  BY <1>1, <1>2, <1>3, <1>4, <1>5, <1>6, <1>7, GoingOnKeepsInv

\* A call goes on without the gate.
LEMMA StayingOutKeepsInv ==
  ASSUME CaptureInv, NEW t \in Calls, NEW next \in Places, t \notin inside,
         pc' = [pc EXCEPT ![t] = next], UNCHANGED <<arg, queue, graph, enqueued>>,
         born' \in [Calls -> Nat],
         disturbed' \subseteq Sessions, failures' \in 0 .. MaxFailures,
         pc[t] \in PastLink => next \in PastLink,
         pc[t] # "link",
         next \in PastMessage => t \in stored
  PROVE  CaptureInv'
<1>1. /\ UNCHANGED <<stored, archived, sessions, sentIn, estimate, lastPush>>
      /\ followedBy' = followedBy /\ enqueued' = enqueued
  BY DEF graph
<1>2. enqueued' \in Seq(Calls) /\ Enqueued' \subseteq stored
  BY <1>1 DEF CaptureInv, TypeOK, EnqueuedIsStored, Enqueued
<1>3. /\ Moves(t, FALSE) /\ late' = late /\ arg' \in [Calls -> Nat]
      /\ landed' = landed /\ ~ Holds(t) /\ landed \in BOOLEAN
  BY StayingOutMoves DEF CaptureInv, TypeOK, QueueOK
<1>4. landed' = (landed /\ ~ Holds(t))
  BY <1>3
<1> QED
  BY <1>1, <1>2, <1>3, <1>4, GoingOnKeepsInv

LEMMA LinkedKeepsInv ==
  ASSUME CaptureInv, NEW t \in Calls, Linked(t)
  PROVE  CaptureInv'
<1>1. /\ pc[t] = "link" /\ t \in stored
      /\ UNCHANGED <<stored, archived, sessions, sentIn, estimate, lastPush>>
  BY DEF Linked, CaptureInv, StoredFirst, PastMessage
<1>2. \/ enqueued' = enqueued
      \/ enqueued' = Append(enqueued, t)
  BY DEF Linked
<1>3. enqueued' \in Seq(Calls) /\ Enqueued' \subseteq stored
  <2>1. enqueued \in Seq(Calls) /\ Enqueued \subseteq stored
    BY DEF CaptureInv, TypeOK, EnqueuedIsStored
  <2>2. CASE enqueued' = enqueued
    BY <2>1, <2>2 DEF Enqueued
  <2>3. CASE enqueued' = Append(enqueued, t)
    <3>1. enqueued' \in Seq(Calls) /\ Len(enqueued') = Len(enqueued) + 1
          /\ Len(enqueued) \in Nat
      BY <2>1, <2>3
    <3>2. \A i \in 1 .. Len(enqueued) : enqueued'[i] = enqueued[i]
      BY <2>1, <2>3
    <3>3. enqueued'[Len(enqueued) + 1] = t
      BY <2>1, <2>3
    <3>4. ASSUME NEW i \in 1 .. Len(enqueued')
          PROVE  enqueued'[i] \in stored
      <4>1. i \in 1 .. Len(enqueued) \/ i = Len(enqueued) + 1
        BY <3>1, <3>4
      <4>2. \A j \in 1 .. Len(enqueued) : enqueued[j] \in stored
        BY <2>1 DEF Enqueued
      <4> QED
        BY <1>1, <3>2, <3>3, <4>1, <4>2
    <3> QED
      BY <3>1, <3>4 DEF Enqueued
  <2> QED
    BY <1>2, <2>2, <2>3
<1>4. PICK next \in {"push", "raised"} :
        /\ Passes(t, next) \/ Breaks(t, next)
        /\ \/ followedBy' = followedBy
           \/ Holds(t) /\ followedBy' = followedBy \cup {<<p, t>> : p \in Previous(t)}
  BY DEF Linked, Passes, Returns
<1>5. next \in PastLink /\ next \in Places
  BY DEF PastLink, Places, Ended, Awaiting
<1>6. next \in PastMessage => t \in stored
  BY <1>1
<1> QED
  BY <1>1, <1>3, <1>4, <1>5, <1>6, SettlesFacts, GoingOnKeepsInv

LEMMA StepKeepsInv ==
  ASSUME CaptureInv, NEW t \in Calls, Step(t)
  PROVE  CaptureInv'
<1> USE DEF Places, Awaiting, Ended, PastMessage, PastLink
<1>1. /\ pc \in [Calls -> Places]
      /\ t \in inside => pc[t] \in Awaiting
      /\ disturbed \subseteq Sessions /\ failures \in 0 .. MaxFailures
      /\ born \in [Calls -> Nat] /\ SessionOf[t] \in Sessions /\ Tokens[t] \in Nat
  BY TurnCaptureAssumption DEF CaptureInv, TypeOK, InsideAwaits
<1>2. IsFiniteSet(sentIn) /\ \A s : MessageCount(s) \in Nat
  <2>1. \A s : InSession(s) \ archived \subseteq Calls
    BY DEF InSession, CaptureInv, TypeOK
  <2>2. \A s : IsFiniteSet(InSession(s) \ archived)
    BY <2>1, FS_Subset, TurnCaptureAssumption
  <2>3. sentIn \subseteq Calls
    BY DEF CaptureInv, TypeOK
  <2> QED
    BY <2>2, <2>3, FS_Subset, FS_CardinalityType, TurnCaptureAssumption DEF MessageCount
<1>3. CASE Begin(t)
  <2>1. Cardinality({u \in Calls : born[u] # 0}) \in Nat
    BY FS_Subset, FS_CardinalityType, TurnCaptureAssumption
  <2>2. born' \in [Calls -> Nat] /\ disturbed' \subseteq Sessions /\ failures' \in 0 .. MaxFailures
    <3>1. born' \in [Calls -> Nat]
      BY <1>1, <1>3, <2>1 DEF Begin
    <3> QED
      BY <1>1, <1>3, <3>1 DEF Begin
  <2>3. t \notin inside
    BY <1>1, <1>3 DEF Begin
  <2>4. FirstOf(t) \in {"quest", "inject"}
    BY DEF FirstOf
  <2> QED
    BY <1>3, <2>2, <2>3, <2>4, StayingOutKeepsInv DEF Begin
<1>4. CASE QuestFound(t)
  <2>1. t \notin inside /\ born' \in [Calls -> Nat]
    BY <1>1, <1>4 DEF QuestFound
  <2>2. disturbed' \subseteq Sessions /\ failures' \in 0 .. MaxFailures
    BY <1>1, <1>4, FailsIsTyped DEF QuestFound
  <2> QED
    BY <1>4, <2>1, <2>2, StayingOutKeepsInv DEF QuestFound
<1>5. CASE IssueWrite(t)
  BY <1>5, IssuingKeepsInv DEF IssueWrite
<1>6. CASE SessionUpserted(t)
  <2>1. AfterSession(t) \in {"archive", "message"}
    BY DEF AfterSession
  <2> QED
    BY <1>6, <2>1, SettlingKeepsInv DEF SessionUpserted, Settles
<1>7. CASE EarlierArchived(t)
  BY <1>7, SettlingKeepsInv DEF EarlierArchived, Settles
<1>8. CASE MessageCreated(t)
  <2>1. CASE Passes(t, "estimate")
    <3>1. t \in stored
      BY <1>8, <2>1, SettlesFacts DEF MessageCreated, CaptureInv, StoredFirst
    <3> QED
      BY <1>8, <2>1, <3>1, SettlingKeepsInv DEF MessageCreated
  <2>2. CASE Breaks(t, "raised")
    BY <1>8, <2>2, SettlingKeepsInv DEF MessageCreated
  <2> QED
    BY <1>8, <2>1, <2>2 DEF MessageCreated
<1>9. CASE EstimateRead(t)
  <2>1. estimate[SessionOf[t]] + Tokens[t] \in Nat
    BY <1>1 DEF CaptureInv, TypeOK
  <2> QED
    BY <1>9, <2>1, IssuingKeepsInv DEF EstimateRead
<1>10. CASE EstimateWritten(t)
  <2>1. /\ AfterEstimate(t) \in {"link", "told", "unheard"}
        /\ AfterEstimate(t) = "link" => t \in stored
    BY <1>10 DEF EstimateWritten, AfterEstimate, CaptureInv, StoredFirst
  <2> QED
    BY <1>10, <2>1, SettlingKeepsInv DEF EstimateWritten, Settles
<1>11. CASE Linked(t)
  BY <1>11, LinkedKeepsInv
<1>12. CASE PushDecided(t)
  <2>1. t \in stored /\ pc[t] = "push" /\ t \notin inside
    BY <1>12 DEF PushDecided, CaptureInv, StoredFirst
  <2>2. CASE Issues(t, MessageCount(SessionOf[t]))
    BY <1>2, <1>12, <2>2, IssuingKeepsInv DEF PushDecided
  <2>3. CASE /\ pc' = [pc EXCEPT ![t] = "answered"]
             /\ UNCHANGED <<arg, queue, born, disturbed, failures>>
    BY <1>1, <1>12, <2>1, <2>3, StayingOutKeepsInv DEF PushDecided
  <2> QED
    BY <1>12, <2>2, <2>3 DEF PushDecided
<1>13. CASE PushMarked(t)
  <2>1. t \in stored
    BY <1>13 DEF PushMarked, CaptureInv, StoredFirst
  <2> QED
    BY <1>13, <2>1, SettlingKeepsInv DEF PushMarked, Settles
<1> QED
  BY <1>3, <1>4, <1>5, <1>6, <1>7, <1>8, <1>9, <1>10, <1>11, <1>12, <1>13 DEF Step

LEMMA CrashKeepsInv ==
  ASSUME CaptureInv, Crash
  PROVE  CaptureInv'
<1>1. /\ pc' = [t \in Calls |-> IF t \in InFlight(SessionOf[t]) THEN "lost" ELSE pc[t]]
      /\ inside' = {} /\ landed' = FALSE /\ late' = {} /\ QueueOK'
      /\ arg' = arg /\ born' = born /\ enqueued' = enqueued /\ stored' = stored
      /\ archived' = archived /\ sessions' = sessions /\ sentIn' = sentIn
      /\ followedBy' = followedBy /\ estimate' = estimate /\ lastPush' = lastPush
  BY LostQueueIsOK DEF Crash, QueueLost, graph
<1>2. \A t \in Calls : pc'[t] = "lost" \/ (pc'[t] = pc[t] /\ pc[t] \notin Awaiting)
  BY <1>1 DEF InFlight
<1>3. /\ pc' \in [Calls -> Places] /\ disturbed' \subseteq Sessions
      /\ failures' \in 0 .. MaxFailures
  BY <1>1, TurnCaptureAssumption DEF Crash, CaptureInv, TypeOK, Places, Ended
<1>4. TypeOK'
  BY <1>1, <1>3 DEF CaptureInv, TypeOK, Places
<1>5. InsideAwaits' /\ StoredFirst' /\ EnqueuedIsStored' /\ LateOK' /\ ChainHasNoCycle'
  BY <1>1, <1>2
    DEF CaptureInv, InsideAwaits, StoredFirst, EnqueuedIsStored, Enqueued, LateOK,
                    ChainHasNoCycle, PastMessage
<1>6. SentIsPast'
  <2>1. \A t \in sentIn : t \in Calls
    BY DEF CaptureInv, TypeOK
  <2> QED
    BY <1>1, <1>2, <2>1 DEF CaptureInv, SentIsPast, PastLink, Awaiting
<1>7. FollowedIsPast'
  <2>1. \A e \in followedBy : e[1] \in Calls
    BY DEF CaptureInv, TypeOK
  <2> QED
    BY <1>1, <1>2, <2>1 DEF CaptureInv, FollowedIsPast, PastLink
<1> QED
  BY <1>4, <1>5, <1>6, <1>7 DEF CaptureInv

LEMMA StutterKeepsInv ==
  ASSUME CaptureInv, UNCHANGED vars
  PROVE  CaptureInv'
<1>1. /\ pc' = pc /\ arg' = arg /\ born' = born /\ enqueued' = enqueued /\ stored' = stored
      /\ archived' = archived /\ sessions' = sessions /\ sentIn' = sentIn
      /\ followedBy' = followedBy /\ estimate' = estimate /\ lastPush' = lastPush
      /\ disturbed' = disturbed /\ failures' = failures
      /\ inside' = inside /\ ahead' = ahead /\ landed' = landed /\ late' = late
  BY DEF vars, queue, graph
<1>2. TypeOK'
  BY <1>1 DEF CaptureInv, TypeOK, QueueOK, Holds
<1>3. InsideAwaits' /\ StoredFirst' /\ EnqueuedIsStored'
  BY <1>1 DEF CaptureInv, InsideAwaits, StoredFirst, EnqueuedIsStored, Enqueued, Holds
<1>4. LateOK' /\ SentIsPast' /\ FollowedIsPast' /\ ChainHasNoCycle'
  BY <1>1 DEF CaptureInv, LateOK, SentIsPast, FollowedIsPast, ChainHasNoCycle, Holds
<1> QED
  BY <1>2, <1>3, <1>4 DEF CaptureInv

LEMMA InitCaptureInv == Init => CaptureInv
<1> SUFFICES ASSUME Init PROVE CaptureInv
  OBVIOUS
<1>1. QueueOK /\ inside = {} /\ late = {}
  BY InitQueueIsOK DEF Init, QueueInit
<1>2. /\ pc \in [Calls -> Places] /\ arg \in [Calls -> Nat] /\ born \in [Calls -> Nat]
      /\ stored = {} /\ archived = {} /\ sessions = {} /\ sentIn = {} /\ followedBy = {}
      /\ estimate \in [Sessions -> Nat] /\ lastPush \in [Sessions -> Nat \cup {None}]
      /\ enqueued = <<>> /\ disturbed = {}
  BY DEF Init, Places
<1>3. failures \in 0 .. MaxFailures
  BY TurnCaptureAssumption DEF Init
<1>4. TypeOK
  BY <1>1, <1>2, <1>3 DEF TypeOK, Places
<1>5. StoredFirst
  BY DEF Init, QueueInit, StoredFirst, PastMessage
<1>6. EnqueuedIsStored
  BY <1>2 DEF EnqueuedIsStored, Enqueued
<1>7. InsideAwaits /\ LateOK /\ SentIsPast /\ FollowedIsPast /\ ChainHasNoCycle
  <2>1. InsideAwaits /\ LateOK /\ SentIsPast /\ FollowedIsPast
    BY <1>1, <1>2 DEF InsideAwaits, LateOK, SentIsPast, FollowedIsPast
  <2>2. ASSUME NEW S \in (SUBSET Calls) \ {{}}
        PROVE  \E t \in S : \A u \in S : <<t, u>> \notin followedBy
    <3>1. PICK t \in S : TRUE
      OBVIOUS
    <3> QED
      BY <1>2, <3>1
  <2> QED
    BY <2>1, <2>2 DEF ChainHasNoCycle
<1> QED
  BY <1>4, <1>5, <1>6, <1>7 DEF CaptureInv

LEMMA NextKeepsInv ==
  ASSUME CaptureInv, [Next]_vars
  PROVE  CaptureInv'
BY StepKeepsInv, LandKeepsInv, LandLateKeepsInv, CrashKeepsInv, StutterKeepsInv DEF Next

-----------------------------------------------------------------------------
\* CaptureInv is an invariant of notify_turn.
THEOREM CaptureSafety == Spec => []CaptureInv
<1>1. Init => CaptureInv
  BY InitCaptureInv
<1>2. CaptureInv /\ [Next]_vars => CaptureInv'
  BY NextKeepsInv
<1> QED
  BY <1>1, <1>2, PTL DEF Spec

\* Types of a call's variables, of the queue for the lock and of the graph; what
\* is archived or linked to its session is stored (notify_turn).
THEOREM CaptureTyped == Spec => []TypeOK
<1>1. CaptureInv => TypeOK
  BY DEF CaptureInv
<1> QED
  BY <1>1, CaptureSafety, PTL

\* The Loop is only handed stored messages (notify_turn's calls of run whose
\* failure is swallowed come before or after the one that stores the message).
THEOREM HandedOverIsStored == Spec => []EnqueuedIsStored
<1>1. CaptureInv => EnqueuedIsStored
  BY DEF CaptureInv
<1> QED
  BY <1>1, CaptureSafety, PTL

\* FOLLOWED_BY closes no cycle, for any number of turns that overlap, fail or
\* are given up (notify_turn links, then looks for the previous message).
THEOREM ChainIsAcyclic == Spec => []ChainHasNoCycle
<1>1. CaptureInv => ChainHasNoCycle
  BY DEF CaptureInv
<1> QED
  BY <1>1, CaptureSafety, PTL

-----------------------------------------------------------------------------
(***************************************************************************)
(* The workers by themselves: ConsolidationInv is inductive, and           *)
(* consolidation_pending is honest, for any items, any queue limit and any *)
(* configuration, whatever puts the items.                                 *)
(***************************************************************************)
\* What is in a queue after an item is put at its end.
LEMMA QueueAppend ==
  ASSUME NEW q \in Seq(Items), NEW j \in Items, NEW i
  PROVE  InQueue(Append(q, j), i) <=> InQueue(q, i) \/ i = j
<1> DEFINE L == Len(q)
<1>1. /\ L \in Nat /\ Len(Append(q, j)) = L + 1 /\ Append(q, j)[L + 1] = j
      /\ \A n \in 1 .. L : Append(q, j)[n] = q[n]
  OBVIOUS
<1> HIDE DEF L
<1>2. 1 .. L + 1 = (1 .. L) \cup {L + 1}
  BY <1>1
<1> QED
  BY <1>1, <1>2 DEF InQueue, L

\* What is in a queue after the item at its head is taken.
LEMMA QueueTail ==
  ASSUME NEW q \in Seq(Items), q # <<>>, NEW i
  PROVE  /\ InQueue(q, i) <=> InQueue(Tail(q), i) \/ i = Head(q)
         /\ Tail(q) \in Seq(Items)
         /\ Head(q) \in Items
         /\ Len(Tail(q)) = Len(q) - 1
<1>1. Tail(q) \in Seq(Items) /\ Head(q) \in Items /\ Len(Tail(q)) = Len(q) - 1
  OBVIOUS
<1>2. InQueue(Tail(q), i) => InQueue(q, i)
  <2>1. SUFFICES ASSUME NEW n \in 1 .. Len(Tail(q)), Tail(q)[n] = i
                 PROVE  q[n + 1] = i /\ n + 1 \in 1 .. Len(q)
    BY DEF InQueue
  <2> QED BY <2>1, <1>1
<1>3. i = Head(q) => InQueue(q, i)
  BY DEF InQueue
<1>4. ASSUME NEW n \in 1 .. Len(q), q[n] = i
      PROVE  InQueue(Tail(q), i) \/ i = Head(q)
  <2>1. CASE n = 1
    BY <2>1, <1>4
  <2>2. CASE n # 1
    <3>1. n - 1 \in 1 .. Len(Tail(q)) /\ Tail(q)[n - 1] = i
      BY <2>2, <1>4, <1>1
    <3> QED BY <3>1 DEF InQueue
  <2> QED BY <2>1, <2>2
<1> QED BY <1>1, <1>2, <1>3, <1>4 DEF InQueue

-----------------------------------------------------------------------------
LEMMA InitWorkers == WorkersInit => ConsolidationInv
<1> SUFFICES ASSUME WorkersInit PROVE ConsolidationInv
  OBVIOUS
<1> USE ConsolidationAssumption DEF WorkersInit
<1>1. WorkersTyped
  <2>1. <<>> \in Seq(Items) /\ Len(<<>>) <= ObsMax
    OBVIOUS
  <2> QED BY <2>1 DEF WorkersTyped
<1>2. CountsAreExact
  BY DEF CountsAreExact, One
<1>3. NoneStrayed
  BY DEF NoneStrayed, InQueue
<1> QED BY <1>1, <1>2, <1>3 DEF ConsolidationInv

\* _enqueue_observation types and counts, and leaves a user turn in the
\* Observation worker's queue or dropped.
LEMMA EnqueueKeeps ==
  ASSUME ConsolidationInv, NEW i \in Items, EnqueueObservation(i)
  PROVE  /\ obsQueue' \in Seq(Items) /\ Len(obsQueue') <= ObsMax
         /\ obsOpen' \in Nat /\ inObs' = inObs
         /\ obsEnd' \in [Items -> {"none", "done", "failed", "dropped"}]
         /\ obsOpen' = Len(obsQueue') + One(inObs)
         /\ \A j \in Items \ {i} : obsEnd'[j] = obsEnd[j]
         /\ \A j : InQueue(obsQueue, j) => InQueue(obsQueue', j)
         /\ ObservationsOn /\ Kind[i] = "user"
              => obsEnd'[i] # "none" \/ InQueue(obsQueue', i)
<1> USE ConsolidationAssumption DEF ConsolidationInv, WorkersTyped, CountsAreExact
<1>1. CASE /\ ObservationsOn /\ Kind[i] = "user" /\ Len(obsQueue) < ObsMax
           /\ obsQueue' = Append(obsQueue, i)
           /\ obsOpen' = obsOpen + 1
           /\ UNCHANGED <<inObs, obsEnd>>
  <2>1. \A j : InQueue(obsQueue', j) <=> InQueue(obsQueue, j) \/ j = i
    BY <1>1, QueueAppend
  <2>2. obsQueue' \in Seq(Items) /\ Len(obsQueue') = Len(obsQueue) + 1
    BY <1>1
  <2> QED BY <1>1, <2>1, <2>2 DEF One
<1>2. CASE /\ ObservationsOn /\ Kind[i] = "user" /\ Len(obsQueue) >= ObsMax
           /\ obsEnd' = [obsEnd EXCEPT ![i] = "dropped"]
           /\ UNCHANGED <<obsQueue, obsOpen, inObs>>
  BY <1>2
<1>3. CASE ~ (ObservationsOn /\ Kind[i] = "user") /\ UNCHANGED obsVars
  BY <1>3 DEF obsVars
<1> QED BY <1>1, <1>2, <1>3 DEF EnqueueObservation

-----------------------------------------------------------------------------
LEMMA PutKeepsWorkers ==
  ASSUME ConsolidationInv, NEW i \in Items, Put(i)
  PROVE  ConsolidationInv'
<1> USE DEF Put, obsVars
<1>1. \A j : InQueue(loopQueue', j) <=> InQueue(loopQueue, j) \/ j = i
  BY QueueAppend DEF ConsolidationInv, WorkersTyped
<1>2. WorkersTyped'
  BY DEF ConsolidationInv, WorkersTyped
<1>3. CountsAreExact'
  BY DEF ConsolidationInv, WorkersTyped, CountsAreExact, One
<1>4. NoneStrayed'
  <2>1. \A j \in Items : Owed(j)' <=> Owed(j)
    BY DEF Owed
  <2>2. \A j : InQueue(obsQueue', j) <=> InQueue(obsQueue, j)
    BY DEF InQueue
  <2>3. loopEnd[i] = "none" /\ ~ Owed(i)
    BY DEF ConsolidationInv, NoneStrayed, Owed
  <2> QED BY <1>1, <2>1, <2>2, <2>3 DEF ConsolidationInv, WorkersTyped, NoneStrayed
<1> QED BY <1>2, <1>3, <1>4 DEF ConsolidationInv

LEMMA LoopTakeKeeps ==
  ASSUME ConsolidationInv, LoopTake
  PROVE  ConsolidationInv'
<1> USE DEF LoopTake, obsVars
<1>1. /\ \A j : InQueue(loopQueue, j) <=> InQueue(loopQueue', j) \/ j = inLoop'
      /\ loopQueue' \in Seq(Items) /\ inLoop' \in Items
      /\ Len(loopQueue') = Len(loopQueue) - 1
  BY QueueTail DEF ConsolidationInv, WorkersTyped
<1>2. WorkersTyped'
  BY <1>1 DEF ConsolidationInv, WorkersTyped
<1>3. CountsAreExact'
  BY <1>1, ConsolidationAssumption DEF ConsolidationInv, WorkersTyped, CountsAreExact, One
<1>4. NoneStrayed'
  <2>1. \A j \in Items : Owed(j)' <=> Owed(j)
    BY DEF Owed
  <2>2. \A j : InQueue(obsQueue', j) <=> InQueue(obsQueue, j)
    BY DEF InQueue
  <2>3. ~ saving
    BY DEF ConsolidationInv, CountsAreExact
  <2> QED BY <1>1, <2>1, <2>2, <2>3, ConsolidationAssumption
        DEF ConsolidationInv, WorkersTyped, NoneStrayed
<1> QED BY <1>2, <1>3, <1>4 DEF ConsolidationInv

\* run_loop ends for the item the worker has, one way or the other; then the
\* worker keeps the item, or is done with it.
LEMMA LoopEndKeeps ==
  ASSUME ConsolidationInv, inLoop # NoItem, ~ saving,
         NEW how \in {"done", "failed"},
         loopEnd' = [loopEnd EXCEPT ![inLoop] = how],
         \/ EnqueueObservation(inLoop)
         \/ how = "failed" /\ ~ SideBranch /\ UNCHANGED obsVars,
         \/ saving' = TRUE /\ UNCHANGED <<inLoop, loopOpen>>
         \/ TaskDone /\ UNCHANGED saving,
         UNCHANGED <<loopQueue, puts, lost>>
  PROVE  ConsolidationInv'
<1>1. PICK i \in Items : i = inLoop /\ i \in puts
  BY DEF ConsolidationInv, WorkersTyped, NoneStrayed
<1>2. \/ EnqueueObservation(i)
      \/ how = "failed" /\ ~ SideBranch /\ UNCHANGED obsVars
  BY <1>1 DEF EnqueueObservation
<1>3. /\ obsQueue' \in Seq(Items) /\ Len(obsQueue') <= ObsMax
      /\ obsOpen' \in Nat /\ inObs' = inObs
      /\ obsEnd' \in [Items -> {"none", "done", "failed", "dropped"}]
      /\ obsOpen' = Len(obsQueue') + One(inObs)
      /\ \A j \in Items \ {i} : obsEnd'[j] = obsEnd[j]
      /\ \A j : InQueue(obsQueue, j) => InQueue(obsQueue', j)
  <2>1. CASE EnqueueObservation(i)
    BY <1>1, <2>1, EnqueueKeeps
  <2>2. CASE UNCHANGED obsVars
    BY <2>2 DEF obsVars, ConsolidationInv, WorkersTyped, CountsAreExact
  <2> QED BY <1>2, <2>1, <2>2
<1>4. ASSUME Owed(i)'
      PROVE  obsEnd'[i] # "none" \/ InQueue(obsQueue', i)
  <2>1. loopEnd'[i] = how
    BY <1>1 DEF ConsolidationInv, WorkersTyped
  <2>2. ~ (how = "failed" /\ ~ SideBranch)
    BY <1>4, <2>1 DEF Owed
  <2>3. EnqueueObservation(i) /\ ObservationsOn /\ Kind[i] = "user"
    BY <1>2, <1>4, <2>2 DEF Owed
  <2> QED BY <1>1, <2>3, EnqueueKeeps
<1>5. WorkersTyped'
  <2>1. loopEnd' \in [Items -> {"none", "done", "failed"}]
    BY <1>1 DEF ConsolidationInv, WorkersTyped
  <2>2. CASE saving' = TRUE /\ UNCHANGED <<inLoop, loopOpen>>
    BY <1>3, <2>2, <2>1 DEF ConsolidationInv, WorkersTyped
  <2>3. CASE TaskDone /\ UNCHANGED saving
    <3>1. loopOpen' = Len(loopQueue) /\ loopOpen' \in Nat
      BY <2>3 DEF TaskDone, ConsolidationInv, WorkersTyped, CountsAreExact, One
    <3> QED BY <1>3, <2>3, <2>1, <3>1 DEF TaskDone, ConsolidationInv, WorkersTyped
  <2> QED BY <2>2, <2>3
<1>6. CountsAreExact'
  <2>1. loopOpen' = Len(loopQueue) + One(inLoop') /\ (saving' => inLoop' # NoItem)
    BY DEF TaskDone, ConsolidationInv, WorkersTyped, CountsAreExact, One
  <2>2. One(inObs)' = One(inObs) /\ One(inLoop)' = One(inLoop')
    BY <1>3 DEF One
  <2> QED BY <1>3, <2>1, <2>2 DEF CountsAreExact
<1>7. NoneStrayed'
  <2>1. loopEnd'[i] = how /\ \A j \in Items \ {i} : loopEnd'[j] = loopEnd[j]
    BY <1>1 DEF ConsolidationInv, WorkersTyped
  <2>2. \A j \in Items \ {i} : Owed(j)' <=> Owed(j)
    BY <2>1 DEF Owed
  <2>3. \A j : InQueue(loopQueue', j) <=> InQueue(loopQueue, j)
    BY DEF InQueue
  <2>4. inLoop' \in {i, NoItem} /\ (saving' => inLoop' = i)
    BY <1>1 DEF TaskDone
  <2>5. \A j \in Items : j = inLoop' \/ InQueue(loopQueue', j) => j \in puts'
    BY <1>1, <2>3, <2>4, ConsolidationAssumption
       DEF ConsolidationInv, NoneStrayed
  <2>6. \A j \in Items \ puts' : loopEnd'[j] = "none"
    BY <1>1, <2>1 DEF ConsolidationInv, NoneStrayed
  <2>7. saving' => loopEnd'[inLoop'] # "none"
    BY <2>1, <2>4
  <2>8. ASSUME NEW j \in puts' \ lost'
        PROVE  /\ loopEnd'[j] = "none" => j = inLoop' \/ InQueue(loopQueue', j)
               /\ Owed(j)' /\ obsEnd'[j] = "none"
                    => j = inObs' \/ InQueue(obsQueue', j)
    <3>1. CASE j = i
      <4>1. Owed(j)' => obsEnd'[j] # "none" \/ InQueue(obsQueue', j)
        BY <1>4, <3>1
      <4> QED BY <2>1, <3>1, <4>1
    <3>2. CASE j # i
      <4>1. j \in Items \ {i} /\ j \in puts \ lost
        BY <3>2 DEF ConsolidationInv, WorkersTyped
      <4> QED BY <1>1, <1>3, <2>1, <2>2, <2>3, <4>1
            DEF ConsolidationInv, NoneStrayed
    <3> QED BY <3>1, <3>2
  <2> QED BY <2>5, <2>6, <2>7, <2>8 DEF NoneStrayed
<1> QED BY <1>5, <1>6, <1>7 DEF ConsolidationInv

LEMMA SummarySavedKeeps ==
  ASSUME ConsolidationInv, SummarySaved
  PROVE  ConsolidationInv'
<1> USE DEF SummarySaved, TaskDone, obsVars
<1>1. loopOpen' = Len(loopQueue) /\ loopOpen' \in Nat
  BY DEF ConsolidationInv, WorkersTyped, CountsAreExact, One
<1>2. WorkersTyped'
  BY <1>1 DEF ConsolidationInv, WorkersTyped
<1>3. CountsAreExact'
  BY <1>1 DEF ConsolidationInv, WorkersTyped, CountsAreExact, One
<1>4. NoneStrayed'
  <2>1. \A j \in Items : Owed(j)' <=> Owed(j)
    BY DEF Owed
  <2>2. \A j : /\ InQueue(obsQueue', j) <=> InQueue(obsQueue, j)
               /\ InQueue(loopQueue', j) <=> InQueue(loopQueue, j)
    BY DEF InQueue
  <2> QED BY <2>1, <2>2, ConsolidationAssumption
        DEF ConsolidationInv, WorkersTyped, NoneStrayed
<1> QED BY <1>2, <1>3, <1>4 DEF ConsolidationInv

LEMMA ObsTakeKeeps ==
  ASSUME ConsolidationInv, ObsTake
  PROVE  ConsolidationInv'
<1> USE DEF ObsTake, loopVars
<1>1. /\ \A j : InQueue(obsQueue, j) <=> InQueue(obsQueue', j) \/ j = inObs'
      /\ obsQueue' \in Seq(Items) /\ inObs' \in Items
      /\ Len(obsQueue') = Len(obsQueue) - 1
  BY QueueTail DEF ConsolidationInv, WorkersTyped
<1>2. WorkersTyped'
  BY <1>1, ConsolidationAssumption DEF ConsolidationInv, WorkersTyped
<1>3. CountsAreExact'
  BY <1>1, ConsolidationAssumption DEF ConsolidationInv, WorkersTyped, CountsAreExact, One
<1>4. NoneStrayed'
  <2>1. \A j \in Items : Owed(j)' <=> Owed(j)
    BY DEF Owed
  <2>2. \A j : InQueue(loopQueue', j) <=> InQueue(loopQueue, j)
    BY DEF InQueue
  <2>3. \A j \in puts : j \in Items /\ j # NoItem
    BY ConsolidationAssumption DEF ConsolidationInv, WorkersTyped
  <2>4. inObs = NoItem
    OBVIOUS
  <2>5. \A j \in puts' \ lost' : Owed(j)' /\ obsEnd'[j] = "none"
                                    => j = inObs' \/ InQueue(obsQueue', j)
    BY <1>1, <2>1, <2>3, <2>4 DEF ConsolidationInv, NoneStrayed
  <2> QED BY <2>2, <2>3, <2>5 DEF ConsolidationInv, NoneStrayed
<1> QED BY <1>2, <1>3, <1>4 DEF ConsolidationInv

LEMMA ObsEndsKeeps ==
  ASSUME ConsolidationInv, NEW how \in {"done", "failed"}, ObsEnds(how)
  PROVE  ConsolidationInv'
<1> USE DEF ObsEnds, loopVars
<1>1. obsOpen' = Len(obsQueue) /\ obsOpen' \in Nat
  BY DEF ConsolidationInv, WorkersTyped, CountsAreExact, One
<1>2. WorkersTyped'
  BY <1>1 DEF ConsolidationInv, WorkersTyped
<1>3. CountsAreExact'
  BY <1>1 DEF ConsolidationInv, WorkersTyped, CountsAreExact, One
<1>4. NoneStrayed'
  <2>1. \A j \in Items : Owed(j)' <=> Owed(j)
    BY DEF Owed
  <2>2. \A j : /\ InQueue(obsQueue', j) <=> InQueue(obsQueue, j)
               /\ InQueue(loopQueue', j) <=> InQueue(loopQueue, j)
    BY DEF InQueue
  <2>3. \A j \in Items : obsEnd'[j] = "none" => obsEnd[j] = "none" /\ j # inObs
    BY DEF ConsolidationInv, WorkersTyped
  <2>4. puts \subseteq Items
    BY DEF ConsolidationInv, WorkersTyped
  <2> QED BY <2>1, <2>2, <2>3, <2>4 DEF ConsolidationInv, NoneStrayed
<1> QED BY <1>2, <1>3, <1>4 DEF ConsolidationInv

LEMMA EndKeepsWorkers ==
  ASSUME ConsolidationInv, WorkersEnd
  PROVE  ConsolidationInv'
<1> USE ConsolidationAssumption DEF WorkersEnd
<1>1. WorkersTyped'
  <2>1. <<>> \in Seq(Items) /\ Len(<<>>) <= ObsMax
    OBVIOUS
  <2>2. lost' \subseteq Items
    BY DEF ConsolidationInv, WorkersTyped
  <2> QED BY <2>1, <2>2 DEF ConsolidationInv, WorkersTyped
<1>2. CountsAreExact'
  BY DEF CountsAreExact, One
<1>3. NoneStrayed'
  <2>1. \A j \in Items : Owed(j)' <=> Owed(j)
    BY DEF Owed
  <2>2. \A j : ~ InQueue(loopQueue', j)
    BY DEF InQueue
  <2>3. \A j \in puts' \ lost' : Settled(j) /\ j \in Items
    BY DEF ConsolidationInv, WorkersTyped
  <2> QED BY <2>1, <2>2, <2>3 DEF ConsolidationInv, WorkersTyped, NoneStrayed, Settled
<1> QED BY <1>1, <1>2, <1>3 DEF ConsolidationInv

LEMMA StutterKeepsWorkers ==
  ASSUME ConsolidationInv, UNCHANGED workerVars
  PROVE  ConsolidationInv'
BY DEF workerVars, loopVars, obsVars, ConsolidationInv, WorkersTyped, CountsAreExact, One,
       NoneStrayed, Owed, InQueue

-----------------------------------------------------------------------------
\* Whatever the interleaving of producers, the two workers, failures and
\* crashes, the counters count exactly what is queued or in flight, and no
\* item that is not settled is anywhere else.
THEOREM ConsolidationSafety == WorkersSpec => []ConsolidationInv
<1>1. ConsolidationInv /\ [WorkersNext]_workerVars => ConsolidationInv'
  <2> SUFFICES ASSUME ConsolidationInv, [WorkersNext]_workerVars PROVE ConsolidationInv'
    OBVIOUS
  <2>1. CASE \E i \in Items : Put(i)
    BY <2>1, PutKeepsWorkers
  <2>2. CASE LoopTake
    BY <2>2, LoopTakeKeeps
  <2>3. CASE LoopReturns
    BY <2>3, LoopEndKeeps DEF LoopReturns
  <2>4. CASE LoopRaises
    BY <2>4, LoopEndKeeps DEF LoopRaises
  <2>5. CASE SummarySaved
    BY <2>5, SummarySavedKeeps
  <2>6. CASE ObsTake
    BY <2>6, ObsTakeKeeps
  <2>7. CASE ObsEnds("done") \/ ObsEnds("failed")
    BY <2>7, ObsEndsKeeps
  <2>8. CASE WorkersEnd
    BY <2>8, EndKeepsWorkers
  <2>9. CASE UNCHANGED workerVars
    BY <2>9, StutterKeepsWorkers
  <2> QED BY <2>1, <2>2, <2>3, <2>4, <2>5, <2>6, <2>7, <2>8, <2>9
        DEF WorkersNext, LoopStep, ObserverStep
<1> QED BY InitWorkers, <1>1, PTL DEF WorkersSpec

\* consolidation_pending = 0 means that every item put before, and not lost in
\* a crash, is settled.
THEOREM PollHonesty == WorkersSpec => []PollIsHonest
<1>1. ConsolidationInv => PollIsHonest
  <2> SUFFICES ASSUME ConsolidationInv, Pending = 0, NEW i \in puts \ lost
               PROVE  Settled(i)
    BY DEF PollIsHonest
  <2>1. loopOpen = 0 /\ obsOpen = 0
    BY DEF Pending, ConsolidationInv, WorkersTyped
  <2>2. /\ Len(loopQueue) = 0 /\ One(inLoop) = 0
        /\ Len(obsQueue) = 0 /\ One(inObs) = 0
    BY <2>1 DEF ConsolidationInv, WorkersTyped, CountsAreExact, One
  <2>3. inLoop = NoItem /\ inObs = NoItem
    BY <2>2 DEF One
  <2>4. ~ InQueue(loopQueue, i) /\ ~ InQueue(obsQueue, i)
    BY <2>2 DEF InQueue
  <2>5. i # NoItem
    BY ConsolidationAssumption DEF ConsolidationInv, WorkersTyped
  <2> QED BY <2>3, <2>4, <2>5 DEF ConsolidationInv, NoneStrayed, Settled
<1> QED BY <1>1, ConsolidationSafety, PTL

-----------------------------------------------------------------------------
(***************************************************************************)
(* The composition with the workers.  What holds of notify_turn and what   *)
(* holds of the workers holds of both together, for a step of the pipeline *)
(* is a step of each or leaves its variables alone.                        *)
(***************************************************************************)
USE TurnPipelineAssumption

\* What a step of the pipeline is to notify_turn.
LEMMA PipelineStepIsCaptureStep ==
  [PipelineNext]_pipelineVars => [Next]_vars
BY DEF PipelineNext, pipelineVars, CaptureStep, HandOver, Commits, CommitsLate,
       Consolidates, ProcessEnds, Next, Step

\* What it is to the workers.
LEMMA PipelineStepIsWorkersStep ==
  [PipelineNext]_pipelineVars => [WorkersNext]_workerVars
<1> SUFFICES ASSUME [PipelineNext]_pipelineVars PROVE [WorkersNext]_workerVars
  OBVIOUS
<1>1. ASSUME NEW t \in Calls, CaptureStep(t) \/ HandOver(t)
      PROVE  [WorkersNext]_workerVars
  BY <1>1 DEF CaptureStep, HandOver, WorkersNext
<1>2. Commits \/ CommitsLate => UNCHANGED workerVars
  BY DEF Commits, CommitsLate
<1>3. Consolidates \/ ProcessEnds => WorkersNext
  BY DEF Consolidates, ProcessEnds, WorkersNext
<1>4. UNCHANGED pipelineVars => UNCHANGED workerVars
  BY DEF pipelineVars
<1> QED
  BY <1>1, <1>2, <1>3, <1>4 DEF PipelineNext

\* The pipeline implements the workers' specification.
THEOREM PipelineImplementsWorkers == PipelineSpec => WorkersSpec
<1>1. PipelineInit => WorkersInit
  BY DEF PipelineInit
<1> QED
  BY <1>1, PipelineStepIsWorkersStep, PTL DEF PipelineSpec, WorkersSpec

LEMMA PipelineCaptures == PipelineSpec => []CaptureInv
<1>1. PipelineInit => CaptureInv
  BY InitCaptureInv DEF PipelineInit
<1>2. CaptureInv /\ [PipelineNext]_pipelineVars => CaptureInv'
  BY PipelineStepIsCaptureStep, NextKeepsInv
<1> QED
  BY <1>1, <1>2, PTL DEF PipelineSpec

\* What is proved of the workers, in the pipeline.
LEMMA PipelineConsolidates ==
  PipelineSpec => [](ConsolidationInv /\ PollIsHonest)
BY ConsolidationSafety, PollHonesty, PipelineImplementsWorkers, PTL

-----------------------------------------------------------------------------
\* A turn is put in the Loop's queue by the step in which its link returned.
PutAtLink ==
  /\ \A t \in puts : pc[t] \in PastLink
  /\ \A t \in Calls : pc[t] \in {"push", "answered"} => t \in puts

\* What is in the queue is there once, and the Loop has not seen it.
QueuedOnce ==
  /\ \A n \in 1 .. Len(loopQueue) :
       loopQueue[n] \in puts /\ loopQueue[n] # inLoop /\ loopEnd[loopQueue[n]] = "none"
  /\ \A n, m \in 1 .. Len(loopQueue) : loopQueue[n] = loopQueue[m] => n = m

\* A message that is in the queue has the one that follows it further back.
QueueFollowsChain ==
  \A e \in followedBy : \A n \in 1 .. Len(loopQueue) :
    loopQueue[n] = e[1] => \E m \in 1 .. Len(loopQueue) : n < m /\ loopQueue[m] = e[2]

PipelineInv == PutAtLink /\ QueuedOnce /\ QueueFollowsChain


\* Where a step of notify_turn that puts nothing in the queue takes its turn.
LEMMA CaptureStepMoves ==
  ASSUME CaptureInv, NEW t \in Calls, CaptureStep(t)
  PROVE  /\ followedBy' = followedBy
         /\ \A u \in Calls :
              /\ pc[u] \in PastLink => pc'[u] \in PastLink
              /\ pc'[u] \in {"push", "answered"} => pc[u] \in {"push", "answered"}
<1> USE DEF Awaiting, Ended, PastLink
<1>1. pc \in [Calls -> Places] /\ enqueued \in Seq(Calls)
  BY DEF CaptureInv, TypeOK, Places
<1>2. Append(enqueued, t) # enqueued
  <2>1. Len(Append(enqueued, t)) = Len(enqueued) + 1 /\ Len(enqueued) \in Nat
    BY <1>1
  <2> QED
    BY <2>1
<1> DEFINE Moved == /\ followedBy' = followedBy
                    /\ \A u \in Calls :
                         /\ pc[u] \in PastLink => pc'[u] \in PastLink
                         /\ pc'[u] \in {"push", "answered"} => pc[u] \in {"push", "answered"}
<1>3. ASSUME followedBy' = followedBy, NEW next, pc' = [pc EXCEPT ![t] = next],
             pc[t] \in PastLink => next \in PastLink,
             next \in {"push", "answered"} => pc[t] \in {"push", "answered"}
      PROVE  Moved
  BY <1>1, <1>3
<1>4. ASSUME followedBy' = followedBy, NEW next, Settles(t, next),
             pc[t] \in PastLink => next \in PastLink,
             next \in {"push", "answered"} => pc[t] \in {"push", "answered"}
      PROVE  Moved
  <2>1. pc' = [pc EXCEPT ![t] = next]
    BY <1>4 DEF Settles, Passes, Breaks, GoesTo
  <2> QED
    BY <1>3, <1>4, <2>1
<1>5. CASE Begin(t) \/ QuestFound(t)
  <2>1. CASE Begin(t)
    <3>1. FirstOf(t) \in {"quest", "inject"}
      BY DEF FirstOf
    <3> QED
      BY <1>3, <2>1, <3>1 DEF Begin, graph
  <2>2. CASE pc[t] = "quest" /\ pc' = [pc EXCEPT ![t] = "session"]
    BY <1>3, <1>5, <2>2 DEF Begin, QuestFound, graph
  <2>3. CASE pc[t] = "quest" /\ pc' = [pc EXCEPT ![t] = "raised"]
    BY <1>3, <1>5, <2>3 DEF Begin, QuestFound, graph
  <2> QED
    BY <1>5, <2>1, <2>2, <2>3 DEF QuestFound
<1>6. CASE IssueWrite(t) \/ EstimateRead(t)
  BY <1>6 DEF IssueWrite, EstimateRead, Issues, graph
<1>7. CASE SessionUpserted(t)
  <2>1. AfterSession(t) \in {"archive", "message"}
    BY DEF AfterSession
  <2> QED
    BY <1>4, <1>7, <2>1 DEF SessionUpserted, graph
<1>8. CASE EarlierArchived(t) \/ EstimateWritten(t) \/ PushMarked(t)
  <2>1. EstimateWritten(t) => AfterEstimate(t) \in {"link", "told", "unheard"}
    BY DEF AfterEstimate
  <2> QED
    BY <1>4, <1>8, <2>1 DEF EarlierArchived, EstimateWritten, PushMarked, graph
<1>9. CASE MessageCreated(t)
  <2>1. CASE Passes(t, "estimate")
    BY <1>3, <1>9, <2>1 DEF MessageCreated, Passes, GoesTo, graph
  <2>2. CASE Breaks(t, "raised")
    BY <1>3, <1>9, <2>2 DEF MessageCreated, Breaks, GoesTo, graph
  <2> QED
    BY <1>9, <2>1, <2>2 DEF MessageCreated
<1>10. CASE Linked(t)
  <2>1. followedBy' = followedBy /\ pc[t] = "link" /\ pc' = [pc EXCEPT ![t] = "raised"]
    BY <1>2, <1>10 DEF CaptureStep, Linked, Breaks, GoesTo
  <2> QED
    BY <1>3, <2>1
<1>11. CASE PushDecided(t)
  <2>1. followedBy' = followedBy /\ pc[t] = "push"
    BY <1>11 DEF PushDecided, graph
  <2>2. pc' = pc \/ pc' = [pc EXCEPT ![t] = "answered"]
    BY <1>11 DEF PushDecided, Issues
  <2> QED
    BY <1>3, <2>1, <2>2
<1> QED
  BY <1>5, <1>6, <1>7, <1>8, <1>9, <1>10, <1>11 DEF CaptureStep, Step

\* What the step does that puts a turn in the queue.
LEMMA HandOverPuts ==
  ASSUME CaptureInv, NEW t \in Calls, HandOver(t)
  PROVE  /\ pc[t] = "link" /\ pc' = [pc EXCEPT ![t] = "push"]
         /\ Put(t)
         /\ \A e \in followedBy : e[1] # t
         /\ \A e \in followedBy' : e \in followedBy \/ (e[2] = t /\ e[1] # t)
<1>1. pc[t] = "link" /\ Put(t) /\ enqueued \in Seq(Calls)
  BY DEF HandOver, Linked, CaptureInv, TypeOK
<1>2. enqueued' # enqueued
  <2>1. Len(Append(enqueued, t)) = Len(enqueued) + 1 /\ Len(enqueued) \in Nat
    BY <1>1
  <2> QED
    BY <2>1 DEF HandOver
<1>3. pc' = [pc EXCEPT ![t] = "push"]
  BY <1>2 DEF HandOver, Linked, Passes, Breaks, GoesTo
<1>4. \A e \in followedBy : e[1] # t
  BY <1>1 DEF CaptureInv, FollowedIsPast, PastLink
<1>5. \A p \in Previous(t) : p # t
  BY DEF Previous, Newest
<1>6. \A e \in followedBy' : e \in followedBy \/ (e[2] = t /\ e[1] # t)
  BY <1>2, <1>5 DEF HandOver, Linked
<1> QED
  BY <1>1, <1>3, <1>4, <1>6

-----------------------------------------------------------------------------
LEMMA HandOverKeepsPipeline ==
  ASSUME PipelineInv, CaptureInv, ConsolidationInv, NEW t \in Calls, HandOver(t)
  PROVE  PipelineInv'
<1> DEFINE L == Len(loopQueue)
<1>1. /\ t \notin puts /\ puts' = puts \cup {t} /\ loopQueue' = Append(loopQueue, t)
      /\ inLoop' = inLoop /\ loopEnd' = loopEnd
  BY HandOverPuts DEF Put
<1>2. /\ loopQueue \in Seq(Calls) /\ loopEnd[t] = "none" /\ inLoop # t
      /\ puts \subseteq Calls /\ pc \in [Calls -> Places]
  <2>1. \A i \in Calls \ puts : loopEnd[i] = "none"
    BY DEF ConsolidationInv, NoneStrayed
  <2>2. \A i \in Calls : i = inLoop => i \in puts
    BY DEF ConsolidationInv, NoneStrayed
  <2> QED
    BY <1>1, <2>1, <2>2
      DEF ConsolidationInv, WorkersTyped, CaptureInv, TypeOK, Places
<1>3. /\ L \in Nat /\ Len(loopQueue') = L + 1 /\ loopQueue'[L + 1] = t
      /\ \A n \in 1 .. L : loopQueue'[n] = loopQueue[n]
  BY <1>1, <1>2
<1>4. \A n \in 1 .. L : loopQueue[n] \in puts /\ loopQueue[n] # t
  BY <1>1 DEF PipelineInv, QueuedOnce
<1> HIDE DEF L
<1>5. PutAtLink'
  BY <1>1, <1>2, HandOverPuts DEF PipelineInv, PutAtLink, PastLink
<1>6. QueuedOnce'
  <2>1. ASSUME NEW n \in 1 .. L + 1
        PROVE  /\ loopQueue'[n] \in puts' /\ loopQueue'[n] # inLoop'
               /\ loopEnd'[loopQueue'[n]] = "none"
    <3>1. n \in 1 .. L \/ n = L + 1
      BY <1>3
    <3>2. n \in 1 .. L => loopQueue[n] # inLoop /\ loopEnd[loopQueue[n]] = "none"
      BY DEF PipelineInv, QueuedOnce, L
    <3> QED
      BY <1>1, <1>2, <1>3, <1>4, <3>1, <3>2
  <2>2. ASSUME NEW n \in 1 .. L + 1, NEW m \in 1 .. L + 1, loopQueue'[n] = loopQueue'[m]
        PROVE  n = m
    <3>1. (n \in 1 .. L \/ n = L + 1) /\ (m \in 1 .. L \/ m = L + 1)
      BY <1>3
    <3>2. n \in 1 .. L /\ m \in 1 .. L /\ loopQueue[n] = loopQueue[m] => n = m
      BY DEF PipelineInv, QueuedOnce, L
    <3> QED
      BY <1>3, <1>4, <2>2, <3>1, <3>2
  <2> QED
    BY <1>3, <2>1, <2>2 DEF QueuedOnce
<1>7. QueueFollowsChain'
  <2>1. ASSUME NEW e \in followedBy', NEW n \in 1 .. L + 1, loopQueue'[n] = e[1]
        PROVE  \E m \in 1 .. L + 1 : n < m /\ loopQueue'[m] = e[2]
    <3>1. e[1] # t /\ (e \in followedBy \/ e[2] = t)
      BY HandOverPuts
    <3>2. n \in 1 .. L /\ n < L + 1 /\ L + 1 \in 1 .. L + 1 /\ loopQueue[n] = e[1]
      BY <1>3, <2>1, <3>1
    <3>3. CASE e[2] = t
      BY <1>3, <3>2, <3>3
    <3>4. CASE e \in followedBy
      <4>1. PICK m \in 1 .. L : n < m /\ loopQueue[m] = e[2]
        BY <3>2, <3>4 DEF PipelineInv, QueueFollowsChain, L
      <4>2. m \in 1 .. L + 1 /\ loopQueue'[m] = e[2]
        BY <1>3, <4>1
      <4> QED
        BY <4>1, <4>2
    <3> QED
      BY <3>1, <3>3, <3>4
  <2> QED
    BY <1>3, <2>1 DEF QueueFollowsChain
<1> QED
  BY <1>5, <1>6, <1>7 DEF PipelineInv

LEMMA LoopTakeKeepsPipeline ==
  ASSUME PipelineInv, ConsolidationInv, LoopTake, UNCHANGED vars
  PROVE  PipelineInv'
<1> DEFINE L == Len(loopQueue)
<1>1. /\ loopQueue # <<>> /\ loopQueue' = Tail(loopQueue) /\ inLoop' = Head(loopQueue)
      /\ puts' = puts /\ loopEnd' = loopEnd /\ pc' = pc /\ followedBy' = followedBy
  BY DEF LoopTake, vars, graph
<1>2. loopQueue \in Seq(Calls)
  BY DEF ConsolidationInv, WorkersTyped
<1>3. /\ L \in Nat \ {0} /\ Len(loopQueue') = L - 1 /\ inLoop' = loopQueue[1]
      /\ \A n \in 1 .. L - 1 : n + 1 \in 1 .. L /\ loopQueue'[n] = loopQueue[n + 1]
  BY <1>1, <1>2
<1> HIDE DEF L
<1>4. PutAtLink'
  BY <1>1 DEF PipelineInv, PutAtLink
<1>5. QueuedOnce'
  <2>1. /\ \A n \in 1 .. L : loopQueue[n] \in puts /\ loopEnd[loopQueue[n]] = "none"
        /\ \A n, m \in 1 .. L : loopQueue[n] = loopQueue[m] => n = m
    BY DEF PipelineInv, QueuedOnce, L
  <2>2. ASSUME NEW n \in 1 .. L - 1
        PROVE  /\ loopQueue'[n] \in puts' /\ loopQueue'[n] # inLoop'
               /\ loopEnd'[loopQueue'[n]] = "none"
    <3>1. n + 1 \in 1 .. L /\ 1 \in 1 .. L /\ n + 1 # 1
      BY <1>3
    <3> QED
      BY <1>1, <1>3, <2>1, <3>1
  <2>3. ASSUME NEW n \in 1 .. L - 1, NEW m \in 1 .. L - 1, loopQueue'[n] = loopQueue'[m]
        PROVE  n = m
    <3>1. n + 1 = m + 1
      BY <1>3, <2>1, <2>3
    <3> QED
      BY <3>1
  <2> QED
    BY <1>3, <2>2, <2>3 DEF QueuedOnce
<1>6. QueueFollowsChain'
  <2>1. ASSUME NEW e \in followedBy, NEW n \in 1 .. L - 1, loopQueue'[n] = e[1]
        PROVE  \E m \in 1 .. L - 1 : n < m /\ loopQueue'[m] = e[2]
    <3>1. n + 1 \in 1 .. L /\ loopQueue[n + 1] = e[1]
      BY <1>3, <2>1
    <3>2. PICK m \in 1 .. L : n + 1 < m /\ loopQueue[m] = e[2]
      BY <3>1 DEF PipelineInv, QueueFollowsChain, L
    <3>3. m - 1 \in 1 .. L - 1 /\ n < m - 1 /\ (m - 1) + 1 = m
      BY <1>3, <3>2
    <3>4. loopQueue'[m - 1] = e[2]
      BY <1>3, <3>2, <3>3
    <3> QED
      BY <3>3, <3>4
  <2>2. followedBy' = followedBy /\ Len(loopQueue') = L - 1
    BY <1>1, <1>3
  <2> HIDE TurnPipelineAssumption
  <2> QED
    BY <2>1, <2>2 DEF QueueFollowsChain
<1> QED
  BY <1>4, <1>5, <1>6 DEF PipelineInv

\* The other steps of the workers settle the item the Loop has taken, or nothing
\* of the Loop's.
LEMMA ConsolidatesKeepsPipeline ==
  ASSUME PipelineInv, ConsolidationInv, Consolidates
  PROVE  PipelineInv'
<1>1. pc' = pc /\ followedBy' = followedBy /\ UNCHANGED vars
  BY DEF Consolidates, vars, graph
<1>2. CASE LoopTake
  BY <1>1, <1>2, LoopTakeKeepsPipeline
<1>3. ASSUME loopQueue' = loopQueue, puts' = puts,
             \/ loopEnd' = loopEnd /\ inLoop' = inLoop
             \/ /\ inLoop' \in {inLoop, NoItem}
                /\ \E how : loopEnd' = [loopEnd EXCEPT ![inLoop] = how]
             \/ loopEnd' = loopEnd /\ inLoop' = NoItem
      PROVE  PipelineInv'
  <2>1. \A n \in 1 .. Len(loopQueue) : loopQueue[n] \in puts /\ loopQueue[n] # NoItem
    BY ConsolidationAssumption DEF PipelineInv, QueuedOnce, ConsolidationInv, WorkersTyped
  <2>2. \A n \in 1 .. Len(loopQueue) :
          loopQueue[n] # inLoop /\ loopEnd[loopQueue[n]] = "none"
    BY DEF PipelineInv, QueuedOnce
  <2>3. loopEnd \in [Calls -> {"none", "done", "failed"}] /\ puts \subseteq Calls
    BY DEF ConsolidationInv, WorkersTyped
  <2>4. \A n \in 1 .. Len(loopQueue) :
          loopQueue[n] # inLoop' /\ loopEnd'[loopQueue[n]] = "none"
    BY <1>3, <2>1, <2>2, <2>3
  <2>5. QueuedOnce'
    BY <1>3, <2>1, <2>4 DEF PipelineInv, QueuedOnce
  <2> QED
    BY <1>1, <1>3, <2>5 DEF PipelineInv, PutAtLink, QueueFollowsChain
<1>4. CASE LoopReturns
  BY <1>3, <1>4 DEF LoopReturns, TaskDone
<1>5. CASE LoopRaises
  BY <1>3, <1>5 DEF LoopRaises, TaskDone
<1>6. CASE SummarySaved
  BY <1>3, <1>6 DEF SummarySaved, TaskDone
<1>7. CASE ObserverStep
  BY <1>3, <1>7 DEF ObserverStep, ObsTake, ObsEnds, loopVars
<1> QED
  BY <1>2, <1>4, <1>5, <1>6, <1>7 DEF Consolidates, LoopStep

LEMMA OtherStepsKeepPipeline ==
  ASSUME PipelineInv, CaptureInv, ConsolidationInv,
         \/ \E t \in Calls : CaptureStep(t)
         \/ Commits \/ CommitsLate \/ ProcessEnds \/ UNCHANGED pipelineVars
  PROVE  PipelineInv'
<1>1. followedBy' = followedBy /\ puts \subseteq Calls
  BY CaptureStepMoves
     DEF Commits, CommitsLate, Land, LandLate, Writes, ProcessEnds, Crash, graph,
         pipelineVars, vars, ConsolidationInv, WorkersTyped
<1>2. \A u \in Calls :
        /\ pc[u] \in PastLink => pc'[u] \in PastLink
        /\ pc'[u] \in {"push", "answered"} => pc[u] \in {"push", "answered"}
  <2>1. CASE \E t \in Calls : CaptureStep(t)
    BY <2>1, CaptureStepMoves
  <2>2. CASE Commits \/ CommitsLate \/ UNCHANGED pipelineVars
    BY <2>2 DEF Commits, CommitsLate, Land, LandLate, pipelineVars, vars
  <2>3. CASE ProcessEnds
    BY <2>3 DEF ProcessEnds, Crash, PastLink
  <2> QED
    BY <2>1, <2>2, <2>3
<1>3. /\ puts' = puts /\ loopEnd' = loopEnd
      /\ loopQueue' = <<>> \/ (loopQueue' = loopQueue /\ inLoop' = inLoop)
  BY DEF CaptureStep, Commits, CommitsLate, ProcessEnds, WorkersEnd, workerVars,
         loopVars, pipelineVars
<1>4. PutAtLink'
  BY <1>1, <1>2, <1>3 DEF PipelineInv, PutAtLink
<1>5. QueuedOnce' /\ QueueFollowsChain'
  <2>1. CASE loopQueue' = <<>>
    BY <2>1 DEF QueuedOnce, QueueFollowsChain
  <2>2. CASE loopQueue' = loopQueue /\ inLoop' = inLoop
    BY <1>1, <1>3, <2>2 DEF PipelineInv, QueuedOnce, QueueFollowsChain
  <2> QED
    BY <1>3, <2>1, <2>2
<1> QED
  BY <1>4, <1>5 DEF PipelineInv

LEMMA PipelineKeepsInv == PipelineSpec => []PipelineInv
<1>1. PipelineInit => PipelineInv
  BY DEF PipelineInit, Init, WorkersInit, PipelineInv, PutAtLink, QueuedOnce,
         QueueFollowsChain
<1>2. /\ PipelineInv /\ CaptureInv /\ ConsolidationInv
      /\ [PipelineNext]_pipelineVars
      => PipelineInv'
  BY HandOverKeepsPipeline, ConsolidatesKeepsPipeline, OtherStepsKeepPipeline
     DEF PipelineNext
<1> QED
  BY <1>1, <1>2, PipelineCaptures, PipelineConsolidates, PTL DEF PipelineSpec

\* A client whose turns are answered and that reads consolidation_pending = 0
\* finds each of them settled or lost in a crash (notify_turn puts a turn in the
\* queue in the step after its link, before the call answers).
THEOREM AnsweredTurnsSettle == PipelineSpec => []AnsweredAreSettled
<1>1. PipelineInv /\ PollIsHonest => AnsweredAreSettled
  BY DEF PipelineInv, PutAtLink, PollIsHonest, AnsweredAreSettled
<1> QED
  BY <1>1, PipelineKeepsInv, PipelineConsolidates, PTL

\* The Loop takes turns up in the order FOLLOWED_BY gives them, for any number
\* of turns that overlap, fail or are given up: a message that is still in the
\* queue has the one that follows it behind it.
THEOREM LoopKeepsTheChain == PipelineSpec => []LoopFollowsTheChain
<1>1. PipelineInv => LoopFollowsTheChain
  BY DEF PipelineInv, QueuedOnce, QueueFollowsChain, LoopFollowsTheChain
<1> QED
  BY <1>1, PipelineKeepsInv, PTL

HIDE TurnPipelineAssumption
-----------------------------------------------------------------------------
(***************************************************************************)
(* Turns of a session that come one at a time.                             *)
(***************************************************************************)

\* What turn t has written: its awaited statement, when it commits, counts.
Landed(t) == landed /\ Holds(t)
HasSession(t) ==
  \/ pc[t] \in {"archive", "message"} \cup PastMessage
  \/ pc[t] = "session" /\ Landed(t)
HasMessage(t) == pc[t] \in PastMessage \/ (pc[t] = "message" /\ Landed(t))
HasLink(t) == pc[t] \in {"push", "answered"} \/ (pc[t] = "link" /\ Landed(t))
BetweenVersions(t) ==
  (pc[t] = "archive" /\ Landed(t)) \/ (pc[t] = "message" /\ ~ Landed(t))

\* Turns are numbered as they come; and what a statement that was given up is.
Came == {t \in Calls : born[t] # 0}
ComingOK ==
  /\ \A t \in Calls : born[t] # 0 <=> pc[t] # "idle"
  /\ \A t \in Calls : born[t] <= Cardinality(Came)
  /\ \A t \in Calls : pc[t] = "archive" => t \in Keyed
  /\ \A w \in late :
       /\ w.statement.kind = "archive" => w.statement.turn \in Keyed
       /\ w.statement.kind = "message" => w.on \subseteq {w.statement.turn}

CallsOf(s) == {t \in Calls : SessionOf[t] = s}
Chained(s) == {t \in CallsOf(s) : pc[t] \in {"push", "answered"}}
Chain(C) == UNION {{<<p, t>> : p \in Newest({u \in C : born[u] < born[t]})} : t \in C}

\* The turns of session s come one at a time, and none has failed.
OneAtATime(s) ==
  /\ \A t \in CallsOf(s) : pc[t] \notin {"raised", "lost"}
  /\ \A t, u \in InFlight(s) : t = u
  /\ \A t \in InFlight(s) : \A u \in CallsOf(s) : pc[u] = "answered" => born[u] < born[t]
  /\ \A w \in late : SessionOf[w.statement.turn] # s

\* And so what is in the graph is what they have written.
LiveVersions == (stored \cap Keyed) \ archived
EffectsOK(s) ==
  /\ \A t \in CallsOf(s) : HasSession(t) => s \in sessions
  /\ \A t \in CallsOf(s) \cap stored : HasMessage(t)
  /\ InSession(s) = {t \in CallsOf(s) : HasLink(t)}
  /\ {e \in followedBy : SessionOf[e[2]] = s} = Chain(Chained(s))
  /\ Keyed \subseteq CallsOf(s) =>
       LiveVersions = IF \E t \in Keyed : BetweenVersions(t) THEN {}
                      ELSE Newest({t \in Keyed : HasMessage(t)})

SequentialInv ==
  /\ ComingOK
  /\ \A s \in Sessions \ disturbed : OneAtATime(s) /\ EffectsOK(s)

\* What call t does in the queue leaves the other calls' statements as they are.
LEMMA OthersStayLanded ==
  ASSUME QueueOK, NEW t \in Calls, NEW asks \in BOOLEAN, Moves(t, asks),
         landed' = (landed /\ ~ Holds(t))
  PROVE  /\ \A u \in Calls \ {t} : Landed(u)' <=> Landed(u)
         /\ ~ Landed(t)'
<1>1. \A u \in Calls : landed' /\ Holds(u)' => u # t /\ Holds(u)
  <2>1. landed' \in BOOLEAN /\ (landed' => landed /\ ~ Holds(t))
    BY DEF QueueOK
  <2> QED
    BY <2>1, MovesKeepsQueue
<1>2. ASSUME NEW u \in Calls \ {t}, landed, Holds(u)
      PROVE  landed' /\ Holds(u)'
  BY <1>2, OneHolder DEF Moves, Holds, QueueOK
<1> QED
  BY <1>1, <1>2 DEF Landed

\* The numbers of the turns.
LEMMA CameIsFinite ==
  IsFiniteSet(Came) /\ Cardinality(Came) \in Nat
BY FS_Subset, FS_CardinalityType, TurnCaptureAssumption DEF Came

\* The chain is the same when its turns and their numbers are.
LEMMA SameChain ==
  ASSUME NEW C, \A t \in C : born'[t] = born[t]
  PROVE  Chain(C)' = Chain(C) /\ Newest(C)' = Newest(C)
BY DEF Chain, Newest

\* A turn newer than those chained is chained to the newest of these.
LEMMA ChainGrows ==
  ASSUME NEW C \in SUBSET Calls, NEW t \in Calls \ C, born \in [Calls -> Nat],
         \A u \in C : born[u] < born[t]
  PROVE  Chain(C \cup {t}) = Chain(C) \cup {<<p, t>> : p \in Newest(C)}
<1>1. {u \in C \cup {t} : born[u] < born[t]} = C
  OBVIOUS
<1>2. \A v \in C : {u \in C \cup {t} : born[u] < born[v]} = {u \in C : born[u] < born[v]}
  OBVIOUS
<1> DEFINE Before(D, v) == {<<p, v>> : p \in Newest({u \in D : born[u] < born[v]})}
<1>3. Chain(C \cup {t}) = UNION {Before(C \cup {t}, v) : v \in C \cup {t}}
  BY DEF Chain
<1>4. Chain(C) = UNION {Before(C, v) : v \in C}
  BY DEF Chain
<1>5. \A v \in C : Before(C \cup {t}, v) = Before(C, v)
  BY <1>2
<1>6. Before(C \cup {t}, t) = {<<p, t>> : p \in Newest(C)}
  BY <1>1
<1> HIDE DEF Before
<1> QED
  BY <1>3, <1>4, <1>5, <1>6

\* A step of a call, whatever becomes of it.
LEMMA StepMoves ==
  ASSUME CaptureInv, NEW t \in Calls, Step(t)
  PROVE  /\ \E next \in Places \ {"idle"} :
              /\ pc' = [pc EXCEPT ![t] = next]
              /\ next = "archive" => pc[t] = "archive" \/ t \in Keyed
         /\ \E asks \in BOOLEAN : Moves(t, asks)
         /\ landed' = (landed /\ ~ Holds(t))
         /\ late' \in {late, late \cup {[statement |-> Statement(t),
                                         on |-> Selects(Statement(t))]}}
         /\ disturbed \subseteq disturbed'
         /\ ~ Begin(t) => born' = born /\ pc[t] # "idle"
<1> DEFINE Facts == /\ \E next \in Places \ {"idle"} :
                         /\ pc' = [pc EXCEPT ![t] = next]
                         /\ next = "archive" => pc[t] = "archive" \/ t \in Keyed
                    /\ \E asks \in BOOLEAN : Moves(t, asks)
                    /\ landed' = (landed /\ ~ Holds(t))
                    /\ late' \in {late, late \cup {[statement |-> Statement(t),
                                                    on |-> Selects(Statement(t))]}}
                    /\ disturbed \subseteq disturbed'
                    /\ ~ Begin(t) => born' = born /\ pc[t] # "idle"
<1>1. /\ pc \in [Calls -> Places] /\ QueueOK /\ landed \in BOOLEAN
      /\ t \in inside => pc[t] \in Awaiting
  BY DEF CaptureInv, TypeOK, InsideAwaits, QueueOK, Places
<1>2. Awaiting \cup {"quest", "answered", "raised", "told", "unheard"}
        \subseteq Places \ {"idle"}
  BY DEF Places, Awaiting, Ended
<1>3. ASSUME NEW v, Issues(t, v)
      PROVE  Facts
  <2>1. /\ pc[t] \in Places \ {"idle"} /\ pc' = [pc EXCEPT ![t] = pc[t]]
        /\ late' = late /\ disturbed' = disturbed /\ born' = born
    BY <1>1, <1>2, <1>3 DEF Issues
  <2>2. Moves(t, TRUE) /\ landed' = (landed /\ ~ Holds(t))
    BY <1>1, <1>3 DEF Issues, Holds
  <2> QED
    BY <2>1, <2>2
<1>4. ASSUME NEW next \in Places \ {"idle"}, Passes(t, next) \/ Breaks(t, next),
             next = "archive" => t \in Keyed
      PROVE  Facts
  <2>1. /\ t \in inside /\ Moves(t, FALSE) /\ pc' = [pc EXCEPT ![t] = next]
        /\ landed' = (landed /\ ~ Holds(t))
        /\ late' \in {late, late \cup {[statement |-> Statement(t),
                                        on |-> Selects(Statement(t))]}}
    BY <1>4, SettlesFacts
  <2>2. born' = born /\ disturbed \subseteq disturbed'
    BY <1>4 DEF Passes, Breaks, GoesTo, Fails
  <2>3. pc[t] # "idle"
    BY <1>1, <1>2, <2>1
  <2> QED
    BY <1>4, <2>1, <2>2, <2>3
<1>5. ASSUME t \notin inside, UNCHANGED queue, disturbed \subseteq disturbed',
             NEW next \in {"quest", "inject", "session", "answered", "raised"},
             pc' = [pc EXCEPT ![t] = next], ~ Begin(t) => born' = born /\ pc[t] # "idle"
      PROVE  Facts
  <2>1. Moves(t, FALSE) /\ landed' = (landed /\ ~ Holds(t)) /\ late' = late
    BY <1>1, <1>5, StayingOutMoves
  <2>2. next \in Places \ {"idle"} /\ next # "archive"
    BY <1>2 DEF Awaiting
  <2> QED
    BY <1>5, <2>1, <2>2
<1> HIDE DEF Facts
<1>6. CASE Begin(t)
  <2>1. t \notin inside /\ UNCHANGED queue /\ disturbed \subseteq disturbed'
    BY <1>1, <1>6 DEF Begin, Awaiting
  <2>2. Facts
    BY <1>5, <1>6, <2>1 DEF Begin, FirstOf
  <2> QED
    BY <2>2 DEF Facts
<1>7. CASE QuestFound(t)
  <2>1. /\ t \notin inside /\ UNCHANGED queue /\ disturbed \subseteq disturbed'
        /\ born' = born /\ pc[t] # "idle"
    BY <1>1, <1>7 DEF QuestFound, Awaiting, Fails
  <2>2. Facts
    BY <1>5, <1>7, <2>1 DEF QuestFound
  <2> QED
    BY <2>2 DEF Facts
<1>8. CASE IssueWrite(t) \/ EstimateRead(t)
  <2>1. Facts
    BY <1>3, <1>8 DEF IssueWrite, EstimateRead
  <2> QED
    BY <2>1 DEF Facts
<1>9. CASE \/ SessionUpserted(t) \/ EarlierArchived(t) \/ MessageCreated(t)
           \/ EstimateWritten(t) \/ Linked(t) \/ PushMarked(t)
  <2>1. PICK next \in {AfterSession(t), "message", "estimate", AfterEstimate(t), "push",
                       "answered", "raised"} : Passes(t, next) \/ Breaks(t, next)
    BY <1>9 DEF SessionUpserted, EarlierArchived, MessageCreated, EstimateWritten, Linked,
                PushMarked, Settles
  <2>2. next \in Places \ {"idle"} /\ (next = "archive" => t \in Keyed)
    BY <1>2 DEF AfterSession, AfterEstimate, Awaiting
  <2>3. Facts
    BY <1>4, <2>1, <2>2
  <2> QED
    BY <2>3 DEF Facts
<1>10. CASE PushDecided(t)
  <2>1. CASE Issues(t, MessageCount(SessionOf[t]))
    BY <1>3, <2>1 DEF Facts
  <2>2. CASE pc' = [pc EXCEPT ![t] = "answered"]
             /\ UNCHANGED <<arg, queue, born, disturbed, failures>>
    <3>1. Facts
      BY <1>5, <1>10, <2>2 DEF PushDecided
    <3> QED
      BY <3>1 DEF Facts
  <2> QED
    BY <1>10, <2>1, <2>2 DEF PushDecided
<1> QED
  BY <1>6, <1>7, <1>8, <1>9, <1>10 DEF Step

LEMMA StepWrites ==
  ASSUME NEW t \in Calls, Step(t)
  PROVE  /\ UNCHANGED <<stored, archived, sessions, sentIn>>
         /\ followedBy' = followedBy
              \/ /\ Linked(t) /\ pc[t] = "link"
                 /\ followedBy' = followedBy \cup {<<p, t>> : p \in Previous(t)}
<1>1. CASE Linked(t)
  BY <1>1 DEF Linked
<1>2. CASE ~ Linked(t)
  BY <1>2 DEF Step, Begin, QuestFound, IssueWrite, SessionUpserted, EarlierArchived,
              MessageCreated, EstimateRead, EstimateWritten, PushDecided, PushMarked, graph
<1> QED
  BY <1>1, <1>2

\* The numbers of the turns, and the statements that were given up.
LEMMA ComingKeeps ==
  ASSUME CaptureInv, ComingOK, [Next]_vars
  PROVE  ComingOK'
<1> USE DEF Places, Awaiting, Ended
<1>1. pc \in [Calls -> Places] /\ born \in [Calls -> Nat]
  BY DEF CaptureInv, TypeOK
<1>2. ASSUME NEW t \in Calls, Step(t)
      PROVE  ComingOK'
  <2> DEFINE v == [statement |-> Statement(t), on |-> Selects(Statement(t))]
  <2>1. PICK next \in Places \ {"idle"} :
          pc' = [pc EXCEPT ![t] = next] /\ (next = "archive" => pc[t] = "archive" \/ t \in Keyed)
    BY <1>2, StepMoves
  <2>2. v.statement.kind = pc[t] /\ v.statement.turn = t
        /\ (pc[t] = "message" => v.on = {t})
    BY DEF Statement, Selects
  <2>3. \A w \in late' : w \in late \/ w = v
    BY <1>2, StepMoves
  <2> HIDE DEF v
  <2>4. \A w \in late' : /\ w.statement.kind = "archive" => w.statement.turn \in Keyed
                         /\ w.statement.kind = "message" => w.on \subseteq {w.statement.turn}
    BY <2>2, <2>3 DEF ComingOK
  <2>5. \A u \in Calls : pc'[u] = "archive" => u \in Keyed
    BY <1>1, <2>1 DEF ComingOK
  <2>6. \A u \in Calls \ {t} : pc'[u] = pc[u]
    BY <1>1, <2>1
  <2>7. CASE Begin(t)
    <3>1. pc[t] = "idle" /\ born[t] = 0 /\ t \notin Came
      BY <2>7 DEF Begin, ComingOK, Came
    <3>2. /\ born' = [born EXCEPT ![t] = 1 + Cardinality(Came)]
          /\ born'[t] = 1 + Cardinality(Came) /\ \A u \in Calls \ {t} : born'[u] = born[u]
      <4>1. born' = [born EXCEPT ![t] = 1 + Cardinality(Came)]
        BY <2>7 DEF Begin, Came
      <4> QED
        BY <1>1, <4>1
    <3>3. Came' = Came \cup {t}
      <4>1. born'[t] # 0
        BY <3>2, CameIsFinite
      <4> QED
        BY <3>2, <4>1 DEF Came
    <3>4. Cardinality(Came') = Cardinality(Came) + 1
      BY <3>1, <3>3, CameIsFinite, FS_AddElement
    <3>5. \A u \in Calls : born'[u] <= Cardinality(Came')
      <4>1. Cardinality(Came) \in Nat
        BY CameIsFinite
      <4> QED
        BY <1>1, <3>2, <3>4, <4>1 DEF ComingOK
    <3>6. \A u \in Calls : born'[u] # 0 <=> pc'[u] # "idle"
      BY <1>1, <2>1, <2>6, <3>2, CameIsFinite DEF ComingOK
    <3> QED
      BY <2>4, <2>5, <3>5, <3>6 DEF ComingOK
  <2>8. CASE ~ Begin(t)
    <3>1. born' = born /\ pc[t] # "idle" /\ Came' = Came
      BY <1>2, <2>8, StepMoves DEF Came
    <3>2. \A u \in Calls : born'[u] # 0 <=> pc'[u] # "idle"
      BY <1>1, <2>1, <3>1 DEF ComingOK
    <3> QED
      BY <2>4, <2>5, <3>1, <3>2 DEF ComingOK
  <2> QED
    BY <2>7, <2>8
<1>3. ASSUME UNCHANGED <<pc, born>>, late' \subseteq late
      PROVE  ComingOK'
  BY <1>3 DEF ComingOK, Came
<1>4. CASE \E t \in Calls : Land(t)
  BY <1>3, <1>4 DEF Land, Lands
<1>5. CASE \E w \in late : LandLate(w)
  BY <1>3, <1>5 DEF LandLate, LandsLate
<1>6. CASE Crash
  BY <1>1, <1>6 DEF Crash, QueueLost, ComingOK, Came, InFlight
<1>7. CASE UNCHANGED vars
  BY <1>3, <1>7 DEF vars, queue
<1> QED
  BY <1>2, <1>4, <1>5, <1>6, <1>7 DEF Next

\* A step of a call in which nothing fails.
LEMMA CleanStep ==
  ASSUME CaptureInv, NEW t \in Calls, Step(t), SessionOf[t] \notin disturbed'
  PROVE  /\ late' = late
         /\ \/ Begin(t) /\ InFlight(SessionOf[t]) = {} /\ pc[t] = "idle" /\ pc'[t] = FirstOf(t)
            \/ pc[t] = "quest" /\ pc'[t] = "session"
            \/ pc[t] \in Awaiting /\ pc'[t] = pc[t] /\ ~ Landed(t)
            \/ pc[t] = "session" /\ pc'[t] = AfterSession(t) /\ Landed(t)
            \/ pc[t] = "archive" /\ pc'[t] = "message" /\ Landed(t)
            \/ pc[t] = "message" /\ pc'[t] = "estimate" /\ Landed(t)
            \/ pc[t] \in Counting /\ pc'[t] = AfterEstimate(t) /\ Landed(t)
            \/ /\ pc[t] = "link" /\ pc'[t] = "push" /\ Landed(t)
               /\ followedBy' = followedBy \cup {<<p, t>> : p \in Previous(t)}
            \/ pc[t] = "push" /\ pc'[t] = "answered"
         /\ followedBy' = followedBy \/ (pc[t] = "link" /\ pc'[t] = "push")
<1>1. pc \in [Calls -> Places]
  BY DEF CaptureInv, TypeOK, Places
<1>2. ~ Fails(t)
  BY DEF Fails
<1>3. \A next : ~ Breaks(t, next)
  BY <1>2 DEF Breaks
<1>4. \A next : Settles(t, next) => Passes(t, next)
  BY <1>3 DEF Settles
<1>5. ASSUME NEW next, Passes(t, next)
      PROVE  Landed(t) /\ pc'[t] = next /\ late' = late
  BY <1>1, <1>5 DEF Passes, Returns, GoesTo, Landed
<1>6. ASSUME NEW v, Issues(t, v)
      PROVE  pc[t] \in Awaiting /\ pc'[t] = pc[t] /\ ~ Landed(t) /\ late' = late
  BY <1>6 DEF Issues, Landed, Holds
<1>7. CASE Begin(t)
  BY <1>1, <1>7 DEF Begin, queue, graph
<1>8. CASE QuestFound(t)
  BY <1>1, <1>2, <1>8 DEF QuestFound, queue, graph
<1>9. CASE IssueWrite(t) \/ EstimateRead(t)
  <2>1. followedBy' = followedBy
    BY <1>9 DEF IssueWrite, EstimateRead, graph
  <2>2. PICK v : Issues(t, v)
    BY <1>9 DEF IssueWrite, EstimateRead
  <2> QED
    BY <1>6, <2>1, <2>2
<1>10. CASE SessionUpserted(t)
  BY <1>4, <1>5, <1>10 DEF SessionUpserted, graph
<1>11. CASE EarlierArchived(t)
  BY <1>4, <1>5, <1>11 DEF EarlierArchived, graph
<1>12. CASE MessageCreated(t)
  BY <1>3, <1>5, <1>12 DEF MessageCreated, graph
<1>13. CASE EstimateWritten(t)
  BY <1>4, <1>5, <1>13 DEF EstimateWritten, Counting, graph
<1>14. CASE Linked(t)
  BY <1>3, <1>5, <1>14 DEF Linked
<1>15. CASE PushDecided(t)
  <2>1. followedBy' = followedBy /\ pc[t] = "push"
    BY <1>15 DEF PushDecided, graph
  <2>2. CASE Issues(t, MessageCount(SessionOf[t]))
    BY <1>6, <2>1, <2>2
  <2>3. CASE pc' = [pc EXCEPT ![t] = "answered"] /\ UNCHANGED <<arg, queue, born, disturbed, failures>>
    BY <1>1, <2>1, <2>3 DEF queue
  <2> QED
    BY <1>15, <2>2, <2>3 DEF PushDecided
<1>16. CASE PushMarked(t)
  BY <1>4, <1>5, <1>16 DEF PushMarked, graph
<1> QED
  BY <1>7, <1>8, <1>9, <1>10, <1>11, <1>12, <1>13, <1>14, <1>15, <1>16 DEF Step

\* A step of a call takes nothing from what others have written.
LEMMA OthersKeepWritten ==
  ASSUME CaptureInv, NEW t \in Calls, Step(t), NEW u \in Calls \ {t}
  PROVE  /\ pc'[u] = pc[u]
         /\ HasSession(u)' <=> HasSession(u)
         /\ HasMessage(u)' <=> HasMessage(u)
         /\ HasLink(u)' <=> HasLink(u)
         /\ BetweenVersions(u)' <=> BetweenVersions(u)
<1>1. pc'[u] = pc[u]
  BY StepMoves DEF CaptureInv, TypeOK
<1>2. Landed(u)' <=> Landed(u)
  BY StepMoves, OthersStayLanded DEF CaptureInv, TypeOK
<1> QED
  BY <1>1, <1>2 DEF HasSession, HasMessage, HasLink, BetweenVersions

\* Nor, when nothing fails, from what its own turn has.
LEMMA CleanStepKeepsWritten ==
  ASSUME CaptureInv, ComingOK, NEW t \in Calls, Step(t), SessionOf[t] \notin disturbed'
  PROVE  /\ HasSession(t)' <=> HasSession(t)
         /\ HasMessage(t)' <=> HasMessage(t)
         /\ HasLink(t)' <=> HasLink(t)
         /\ t \in Keyed => (BetweenVersions(t)' <=> BetweenVersions(t))
<1>1. ~ Landed(t)'
  BY StepMoves, OthersStayLanded DEF CaptureInv, TypeOK
<1>2. AfterSession(t) \in {"archive", "message"} /\ (t \in Keyed => AfterSession(t) = "archive")
  BY DEF AfterSession
<1>3. /\ FirstOf(t) \in {"quest", "inject"}
      /\ pc[t] = "estimate" => AfterEstimate(t) = "link"
      /\ pc[t] = "inject" => AfterEstimate(t) \in {"told", "unheard"}
  BY DEF FirstOf, AfterEstimate
<1>4. CASE pc[t] \in Counting
  <2>1. \/ pc'[t] = pc[t] /\ ~ Landed(t)
        \/ pc'[t] = AfterEstimate(t)
    BY <1>4, CleanStep DEF Counting
  <2> QED
    BY <1>1, <1>3, <1>4, <2>1
      DEF HasSession, HasMessage, HasLink, BetweenVersions, PastMessage, Counting
<1>5. CASE pc[t] \notin Counting
  BY <1>1, <1>2, <1>3, <1>5, CleanStep
    DEF HasSession, HasMessage, HasLink, BetweenVersions, PastMessage, Awaiting
<1> QED
  BY <1>4, <1>5

\* The turns of a session that is not disturbed come one at a time.
LEMMA StepKeepsOneAtATime ==
  ASSUME CaptureInv, ComingOK, NEW t \in Calls, Step(t),
         NEW s \in Sessions, s \notin disturbed', OneAtATime(s)
  PROVE  OneAtATime(s)'
<1>1. /\ pc \in [Calls -> Places] /\ born \in [Calls -> Nat]
      /\ \A u \in Calls \ {t} : pc'[u] = pc[u]
  BY OthersKeepWritten DEF CaptureInv, TypeOK, Places
<1>2. \A u \in Calls \ {t} : born'[u] = born[u]
  BY <1>1, StepMoves DEF Begin
<1>3. \A w \in late' : w \in late \/ w.statement.turn = t
  <2> DEFINE v == [statement |-> Statement(t), on |-> Selects(Statement(t))]
  <2>1. v.statement.turn = t
    BY DEF Statement
  <2>2. late' \in {late, late \cup {v}}
    BY StepMoves
  <2> HIDE DEF v
  <2> QED
    BY <2>1, <2>2
<1>4. CASE SessionOf[t] # s
  <2>1. InFlight(s)' = InFlight(s) /\ t \notin InFlight(s) /\ t \notin CallsOf(s)
    BY <1>1, <1>4 DEF InFlight, CallsOf
  <2>2. \A w \in late' : SessionOf[w.statement.turn] # s
    BY <1>3, <1>4 DEF OneAtATime
  <2>3. InFlight(s) \subseteq Calls /\ CallsOf(s) \subseteq Calls
    BY DEF InFlight, CallsOf
  <2> QED
    BY <1>1, <1>2, <2>1, <2>2, <2>3 DEF OneAtATime, CallsOf
<1>5. CASE SessionOf[t] = s
  <2>1. late' = late
    BY <1>5, CleanStep
  <2>2. \A u \in CallsOf(s) : pc'[u] \notin {"raised", "lost"}
    BY <1>1, <1>5, CleanStep
      DEF OneAtATime, CallsOf, AfterSession, Awaiting, FirstOf, Counting, AfterEstimate
  <2>3. CASE Begin(t)
    <3>1. /\ InFlight(s) = {} /\ pc[t] = "idle" /\ pc'[t] \in {"quest", "inject"}
          /\ born'[t] = 1 + Cardinality(Came)
      <4>1. InFlight(s) = {} /\ pc[t] = "idle"
        BY <1>5, <2>3 DEF Begin
      <4>2. pc'[t] \in {"quest", "inject"} /\ born'[t] = 1 + Cardinality(Came)
        BY <1>1, <2>3 DEF Begin, Came, FirstOf
      <4> QED
        BY <4>1, <4>2
    <3>2. \A u \in InFlight(s)' : u = t
      BY <1>1, <3>1 DEF InFlight
    <3>3. \A u \in CallsOf(s) : pc'[u] = "answered" => born'[u] < born'[t]
      BY <1>1, <1>2, <3>1, CameIsFinite DEF ComingOK, CallsOf
    <3> QED
      BY <2>1, <2>2, <3>2, <3>3 DEF OneAtATime, CallsOf
  <2>4. CASE ~ Begin(t)
    <3>1. born' = born
      BY <2>4, StepMoves
    <3>2. t \in InFlight(s) /\ InFlight(s)' \subseteq InFlight(s)
      BY <1>1, <1>5, <2>4, CleanStep DEF InFlight, AfterSession, Awaiting, Counting
    <3>3. \A u \in InFlight(s) : u = t
      BY <3>2 DEF OneAtATime
    <3>4. t \in InFlight(s)' => pc'[t] # "answered"
      BY DEF InFlight, Awaiting
    <3>5. ASSUME NEW v \in InFlight(s)', NEW u \in CallsOf(s), pc'[u] = "answered"
          PROVE  born'[u] < born'[v]
      <4>1. v = t /\ u # t
        BY <3>2, <3>3, <3>4, <3>5
      <4>2. pc[u] = "answered" /\ v \in InFlight(s)
        BY <1>1, <3>2, <3>5, <4>1 DEF CallsOf
      <4> QED
        BY <3>1, <4>2 DEF OneAtATime
    <3> QED
      BY <2>1, <2>2, <3>2, <3>3, <3>5 DEF OneAtATime, CallsOf
  <2> QED
    BY <2>3, <2>4
<1> QED
  BY <1>4, <1>5

\* The chain of a session stays as it is when its turns and their numbers do.
LEMMA ChainStays ==
  ASSUME NEW s \in Sessions, EffectsOK(s), Chained(s)' = Chained(s),
         \A u \in Chained(s) : born'[u] = born[u],
         {e \in followedBy' : SessionOf[e[2]] = s} = {e \in followedBy : SessionOf[e[2]] = s}
  PROVE  {e \in followedBy' : SessionOf[e[2]] = s} = Chain(Chained(s))'
<1>1. PICK C : C = Chained(s)
  OBVIOUS
<1>2. C = Chained(s)' /\ \A u \in C : born'[u] = born[u]
  BY <1>1 DEF Chained
<1>3. Chain(C)' = Chain(C)
  BY <1>2, SameChain
<1>4. Chain(Chained(s))' = Chain(Chained(s))
  BY <1>1, <1>2, <1>3
<1> QED
  BY <1>4 DEF EffectsOK

\* The graph has what the turns of session s have written, when neither changes.
LEMMA EffectsStay ==
  ASSUME NEW s \in Sessions, EffectsOK(s),
         \A u \in CallsOf(s) :
           /\ HasSession(u)' <=> HasSession(u)
           /\ HasMessage(u)' <=> HasMessage(u)
           /\ HasLink(u)' <=> HasLink(u)
           /\ u \in Keyed => (BetweenVersions(u)' <=> BetweenVersions(u))
           /\ HasMessage(u) => born'[u] = born[u],
         sessions \subseteq sessions', stored' \cap CallsOf(s) \subseteq stored,
         InSession(s)' = InSession(s),
         {e \in followedBy' : SessionOf[e[2]] = s} = Chain(Chained(s))',
         Keyed \subseteq CallsOf(s) => LiveVersions' = LiveVersions
  PROVE  EffectsOK(s)'
<1>1. ASSUME Keyed \subseteq CallsOf(s)
      PROVE  LiveVersions' = IF \E t \in Keyed : BetweenVersions(t)' THEN {}
                             ELSE Newest({t \in Keyed : HasMessage(t)})'
  <2>1. PICK V : V = {t \in Keyed : HasMessage(t)}
    OBVIOUS
  <2>2. V = {t \in Keyed : HasMessage(t)'} /\ \A u \in V : born'[u] = born[u]
    BY <1>1, <2>1
  <2>3. Newest(V)' = Newest(V)
    BY <2>2, SameChain
  <2>4. Newest({t \in Keyed : HasMessage(t)})' = Newest({t \in Keyed : HasMessage(t)})
    BY <2>1, <2>2, <2>3
  <2>5. (\E t \in Keyed : BetweenVersions(t)') <=> (\E t \in Keyed : BetweenVersions(t))
    BY <1>1
  <2> QED
    BY <1>1, <2>4, <2>5 DEF EffectsOK
<1>2. \A t \in CallsOf(s) : HasSession(t)' => s \in sessions'
  BY DEF EffectsOK
<1>3. \A t \in CallsOf(s) \cap stored' : HasMessage(t)'
  BY DEF EffectsOK
<1>4. InSession(s)' = {t \in CallsOf(s) : HasLink(t)'}
  BY DEF EffectsOK
<1> QED
  BY <1>1, <1>2, <1>3, <1>4 DEF EffectsOK, CallsOf

LEMMA StepKeepsEffects ==
  ASSUME CaptureInv, ComingOK, NEW t \in Calls, Step(t),
         NEW s \in Sessions, s \notin disturbed', OneAtATime(s), EffectsOK(s)
  PROVE  EffectsOK(s)'
<1>1. /\ pc \in [Calls -> Places] /\ born \in [Calls -> Nat]
      /\ QueueOK /\ CallsOf(s) \subseteq Calls
  BY DEF CaptureInv, TypeOK, Places, CallsOf
<1>2. /\ UNCHANGED <<stored, archived, sessions, sentIn>>
      /\ InSession(s)' = InSession(s) /\ LiveVersions' = LiveVersions
  BY StepWrites DEF InSession, LiveVersions
<1>3. \A u \in Calls \ {t} : pc'[u] = pc[u] /\ born'[u] = born[u]
  BY <1>1, OthersKeepWritten, StepMoves DEF Begin
<1>4. CASE SessionOf[t] # s
  <2>1. t \notin CallsOf(s)
    BY <1>4 DEF CallsOf
  <2>2. Chained(s)' = Chained(s) /\ Chained(s) \subseteq CallsOf(s)
    BY <1>1, <1>3, <2>1 DEF Chained, CallsOf
  <2>3. {e \in followedBy' : SessionOf[e[2]] = s} = {e \in followedBy : SessionOf[e[2]] = s}
    BY <1>4, StepWrites
  <2>4. {e \in followedBy' : SessionOf[e[2]] = s} = Chain(Chained(s))'
    BY <1>1, <1>3, <2>1, <2>2, <2>3, ChainStays
  <2>5. \A u \in CallsOf(s) :
          /\ HasSession(u)' <=> HasSession(u)
          /\ HasMessage(u)' <=> HasMessage(u)
          /\ HasLink(u)' <=> HasLink(u)
          /\ BetweenVersions(u)' <=> BetweenVersions(u)
    BY <1>1, <2>1, OthersKeepWritten
  <2> QED
    BY <1>1, <1>2, <1>3, <2>1, <2>4, <2>5, EffectsStay
<1>5. CASE SessionOf[t] = s
  <2>1. ASSUME NEW u \in CallsOf(s)
        PROVE  /\ HasSession(u)' <=> HasSession(u)
               /\ HasMessage(u)' <=> HasMessage(u)
               /\ HasLink(u)' <=> HasLink(u)
               /\ u \in Keyed => (BetweenVersions(u)' <=> BetweenVersions(u))
    <3>1. CASE u = t
      BY <1>5, <3>1, CleanStepKeepsWritten
    <3>2. CASE u # t
      BY <1>1, <3>2, OthersKeepWritten
    <3> QED
      BY <3>1, <3>2
  <2>2. HasMessage(t) \/ t \in Chained(s) => born'[t] = born[t]
    BY StepMoves DEF Begin, HasMessage, Chained, PastMessage
  <2>3. {e \in followedBy' : SessionOf[e[2]] = s} = Chain(Chained(s))'
    <3>1. CASE ~ (pc[t] = "link" /\ pc'[t] = "push")
      <4>1. followedBy' = followedBy
        BY <1>5, <3>1, CleanStep
      <4>2. pc'[t] \in {"push", "answered"} <=> pc[t] \in {"push", "answered"}
        BY <1>5, <3>1, CleanStep
          DEF AfterSession, Awaiting, FirstOf, Counting, AfterEstimate
      <4>3. Chained(s)' = Chained(s)
        BY <1>1, <1>3, <4>2 DEF Chained, CallsOf
      <4>4. \A u \in Chained(s) : born'[u] = born[u]
        BY <1>1, <1>3, <2>2 DEF Chained
      <4> QED
        BY <4>1, <4>3, <4>4, ChainStays
    <3>2. CASE pc[t] = "link" /\ pc'[t] = "push"
      <4>1. Landed(t) /\ followedBy' = followedBy \cup {<<p, t>> : p \in Previous(t)}
        BY <1>5, <3>2, CleanStep DEF Awaiting, Counting
      <4>2. Chained(s)' = Chained(s) \cup {t} /\ t \in CallsOf(s) \ Chained(s)
        BY <1>1, <1>3, <1>5, <3>2 DEF Chained, CallsOf
      <4>3. InSession(s) \ {t} = Chained(s)
        <5>1. \A u \in Calls \ {t} : HasLink(u) <=> pc[u] \in {"push", "answered"}
          BY <1>1, <4>1, OneHolder DEF HasLink, Landed
        <5> QED
          BY <1>1, <4>2, <5>1 DEF EffectsOK, Chained
      <4>4. \A u \in Chained(s) : born[u] < born[t]
        <5>1. t \in InFlight(s)
          BY <1>5, <3>2 DEF InFlight, Awaiting
        <5>2. ASSUME NEW u \in Chained(s)
              PROVE  pc[u] = "answered" /\ u \in CallsOf(s)
          <6>1. u \in CallsOf(s) /\ pc[u] \in {"push", "answered"} /\ u # t
            BY <4>2 DEF Chained
          <6>2. pc[u] = "push" => u \in InFlight(s)
            BY <6>1 DEF InFlight, CallsOf, Awaiting
          <6> QED
            BY <5>1, <6>1, <6>2 DEF OneAtATime
        <5> QED
          BY <5>1, <5>2 DEF OneAtATime
      <4>5. born' = born
        BY <3>2, StepMoves DEF Begin
      <4>6. Previous(t) = Newest(Chained(s))
        BY <1>5, <4>3 DEF Previous
      <4>7. PICK C : C = Chained(s)
        OBVIOUS
      <4>8. C \in SUBSET Calls /\ t \in Calls \ C /\ \A u \in C : born[u] < born[t]
        BY <1>1, <4>2, <4>4, <4>7 DEF Chained
      <4>9. Chain(C \cup {t}) = Chain(C) \cup {<<p, t>> : p \in Newest(C)}
        BY <1>1, <4>8, ChainGrows
      <4>10. PICK D : D = C \cup {t}
        OBVIOUS
      <4>11. Chain(D)' = Chain(D)
        BY <4>5, SameChain
      <4>12. Chain(Chained(s))' = Chain(C) \cup {<<p, t>> : p \in Newest(C)}
        BY <4>2, <4>7, <4>9, <4>10, <4>11
      <4>13. {e \in followedBy' : SessionOf[e[2]] = s}
               = {e \in followedBy : SessionOf[e[2]] = s} \cup {<<p, t>> : p \in Previous(t)}
        BY <1>5, <4>1
      <4>14. {e \in followedBy : SessionOf[e[2]] = s} = Chain(C)
        BY <4>7 DEF EffectsOK
      <4> QED
        BY <4>6, <4>7, <4>12, <4>13, <4>14
    <3> QED
      BY <3>1, <3>2
  <2> QED
    BY <1>1, <1>2, <1>3, <2>1, <2>2, <2>3, EffectsStay
<1> QED
  BY <1>4, <1>5

\* A statement of another session's turn changes nothing of session s.
LEMMA OtherWrites ==
  ASSUME NEW s \in Sessions, NEW w, NEW on, Writes(w, on),
         w.turn \in Calls, SessionOf[w.turn] # s,
         w.kind = "archive" => w.turn \in Keyed,
         w.kind \in {"message", "link"} => on \subseteq {w.turn}
  PROVE  /\ sessions \subseteq sessions' /\ stored' \cap CallsOf(s) \subseteq stored
         /\ InSession(s)' = InSession(s) /\ followedBy' = followedBy
         /\ Keyed \subseteq CallsOf(s) => LiveVersions' = LiveVersions
<1>1. sessions \subseteq sessions' /\ followedBy' = followedBy
  BY DEF Writes
<1>2. \A u \in stored' : u \in stored \/ u = w.turn
  BY DEF Writes
<1>3. \A u \in sentIn' : u \in sentIn \/ u = w.turn
  BY DEF Writes
<1>4. stored \subseteq stored' /\ sentIn \subseteq sentIn'
  BY DEF Writes
<1>5. InSession(s)' = InSession(s)
  BY <1>3, <1>4 DEF InSession
<1>6. ASSUME Keyed \subseteq CallsOf(s)
      PROVE  LiveVersions' = LiveVersions
  <2>1. w.turn \notin Keyed
    BY <1>6 DEF CallsOf
  <2>2. archived' = archived
    BY <2>1 DEF Writes
  <2> QED
    BY <1>2, <1>4, <2>1, <2>2 DEF LiveVersions
<1> QED
  BY <1>1, <1>2, <1>5, <1>6 DEF CallsOf

\* The statement of a turn commits.
LEMMA LandKeepsEffects ==
  ASSUME CaptureInv, ComingOK, NEW t \in Calls, Land(t),
         NEW s \in Sessions, OneAtATime(s), EffectsOK(s)
  PROVE  EffectsOK(s)'
<1> DEFINE w == Statement(t)
<1>1. /\ Writes(w, Selects(w)) /\ Holds(t) /\ ~ landed /\ landed' = TRUE
      /\ pc' = pc /\ born' = born /\ ahead' = ahead /\ inside' = inside
  BY DEF Land, Lands
<1>2. w.kind = pc[t] /\ w.turn = t
  BY DEF Statement
<1>3. /\ Selects(w) = CASE pc[t] = "archive" -> stored \cap Keyed
                        [] pc[t] = "link"    -> {t} \cap stored
                        [] OTHER             -> {t}
      /\ pc[t] = "archive" => t \in Keyed
  BY <1>2 DEF Selects, ComingOK
<1>4. /\ \A u \in Calls : ~ Landed(u) /\ (Landed(u)' <=> u = t)
      /\ pc[t] \in Awaiting /\ CallsOf(s) \subseteq Calls
  BY <1>1, OneHolder DEF Landed, Holds, CaptureInv, TypeOK, InsideAwaits, CallsOf
<1> HIDE DEF w
<1>5. followedBy' = followedBy /\ sessions \subseteq sessions'
  BY <1>1 DEF Writes
<1>6. {e \in followedBy' : SessionOf[e[2]] = s} = Chain(Chained(s))'
  <2>1. Chained(s)' = Chained(s)
    BY <1>1 DEF Chained, CallsOf
  <2> QED
    BY <1>1, <1>5, <2>1, ChainStays
<1>7. \A u \in Calls \ {t} :
        /\ HasSession(u)' <=> HasSession(u)
        /\ HasMessage(u)' <=> HasMessage(u)
        /\ HasLink(u)' <=> HasLink(u)
        /\ BetweenVersions(u)' <=> BetweenVersions(u)
  BY <1>1, <1>4 DEF HasSession, HasMessage, HasLink, BetweenVersions
<1>8. CASE SessionOf[t] # s
  <2>1. \A u \in CallsOf(s) : u \in Calls \ {t}
    BY <1>4, <1>8 DEF CallsOf
  <2>2. w.kind \in {"message", "link"} => Selects(w) \subseteq {w.turn}
    BY <1>2, <1>3
  <2>3. /\ stored' \cap CallsOf(s) \subseteq stored
        /\ InSession(s)' = InSession(s)
        /\ Keyed \subseteq CallsOf(s) => LiveVersions' = LiveVersions
    BY <1>1, <1>2, <1>3, <1>8, <2>2, OtherWrites
  <2> QED
    BY <1>1, <1>5, <1>6, <1>7, <2>1, <2>3, EffectsStay
<1>9. CASE SessionOf[t] = s
  <2>1. t \in CallsOf(s)
    BY <1>9 DEF CallsOf
  <2>2. /\ HasSession(t)' <=> HasSession(t) \/ pc[t] = "session"
        /\ HasMessage(t)' <=> HasMessage(t) \/ pc[t] = "message"
        /\ HasLink(t)' <=> HasLink(t) \/ pc[t] = "link"
        /\ BetweenVersions(t)' <=> pc[t] = "archive"
        /\ BetweenVersions(t) <=> pc[t] = "message"
    BY <1>1, <1>4 DEF HasSession, HasMessage, HasLink, BetweenVersions, PastMessage
  <2>3. pc[t] = "session" => s \in sessions'
    BY <1>1, <1>2, <1>9 DEF Writes
  <2>4. \A u \in CallsOf(s) : HasSession(u)' => s \in sessions'
    BY <1>4, <1>5, <1>7, <2>2, <2>3 DEF EffectsOK
  <2>5. stored' = IF pc[t] = "message" THEN stored \cup {t} ELSE stored
    BY <1>1, <1>2, <1>3 DEF Writes
  <2>6. \A u \in CallsOf(s) \cap stored' : HasMessage(u)'
    BY <1>4, <1>7, <2>2, <2>5 DEF EffectsOK
  <2>7. InSession(s)' = {u \in CallsOf(s) : HasLink(u)'}
    <3>1. sentIn' = IF pc[t] = "link" THEN sentIn \cup {t} ELSE sentIn
      <4>1. pc[t] = "link" => t \in stored /\ s \in sessions
        BY <2>1 DEF CaptureInv, StoredFirst, PastMessage, EffectsOK, HasSession
      <4> QED
        BY <1>1, <1>2, <1>3, <1>9, <4>1 DEF Writes
    <3>2. InSession(s)' = IF pc[t] = "link" THEN InSession(s) \cup {t} ELSE InSession(s)
      BY <1>9, <3>1 DEF InSession
    <3> QED
      BY <1>4, <1>7, <2>1, <2>2, <3>2 DEF EffectsOK
  <2>8. ASSUME Keyed \subseteq CallsOf(s)
        PROVE  LiveVersions' = IF \E u \in Keyed : BetweenVersions(u)' THEN {}
                               ELSE Newest({u \in Keyed : HasMessage(u)})'
    <3>1. archived' = IF pc[t] = "archive" THEN archived \cup (stored \cap Keyed) ELSE archived
      BY <1>1, <1>2, <1>3 DEF Writes
    <3>2. CASE pc[t] = "archive"
      <4>1. LiveVersions' = {} /\ BetweenVersions(t)' /\ t \in Keyed
        BY <1>3, <2>2, <2>5, <3>1, <3>2 DEF LiveVersions
      <4> QED
        BY <4>1
    <3>3. CASE pc[t] = "message" /\ t \in Keyed
      <4>1. LiveVersions = {}
        BY <2>2, <2>8, <3>3 DEF EffectsOK
      <4>2. t \notin stored /\ t \notin archived
        BY <1>4, <2>1, <3>3 DEF EffectsOK, HasMessage, PastMessage, CaptureInv, TypeOK
      <4>3. LiveVersions' = {t}
        BY <2>5, <3>1, <3>3, <4>1, <4>2 DEF LiveVersions
      <4>4. t \in InFlight(s)
        BY <1>4, <1>9 DEF InFlight
      <4>5. ASSUME NEW u \in Keyed \ {t}, HasMessage(u)' \/ BetweenVersions(u)'
            PROVE  pc[u] = "answered" /\ born[u] < born[t]
        <5>1. u \in CallsOf(s) /\ u \notin InFlight(s)
          BY <2>8, <4>4 DEF OneAtATime
        <5>2. pc[u] \notin Awaiting
          BY <5>1 DEF InFlight, CallsOf
        <5>3. pc[u] = "answered"
          BY <1>1, <4>5, <5>2 DEF HasMessage, BetweenVersions, PastMessage, Awaiting
        <5> QED
          BY <4>4, <5>1, <5>3 DEF OneAtATime
      <4>6. \A u \in Keyed : ~ BetweenVersions(u)'
        BY <1>1, <2>2, <3>3, <4>5 DEF BetweenVersions
      <4>7. Newest({u \in Keyed : HasMessage(u)})' = {t}
        <5>1. PICK V : V = {u \in Keyed : HasMessage(u)'}
          OBVIOUS
        <5>2. t \in V /\ \A u \in V \ {t} : born[u] < born[t]
          BY <2>2, <3>3, <4>5, <5>1
        <5>3. \A u \in V : u \in Calls
          BY <2>8, <5>1 DEF CallsOf
        <5>4. born \in [Calls -> Nat]
          BY DEF CaptureInv, TypeOK
        <5>5. {u \in V : \A v \in V : born[v] <= born[u]} = {t}
          BY <5>2, <5>3, <5>4
        <5>6. Newest({u \in Keyed : HasMessage(u)})' = {u \in V : \A v \in V : born'[v] <= born'[u]}
          BY <5>1 DEF Newest
        <5> QED
          BY <1>1, <5>5, <5>6
      <4> QED
        BY <4>3, <4>6, <4>7
    <3>4. CASE pc[t] # "archive" /\ ~ (pc[t] = "message" /\ t \in Keyed)
      <4>1. LiveVersions' = LiveVersions
        BY <2>5, <3>1, <3>4 DEF LiveVersions
      <4>2. \A u \in Keyed : (HasMessage(u)' <=> HasMessage(u))
                             /\ (BetweenVersions(u)' <=> BetweenVersions(u))
        BY <1>4, <1>7, <2>2, <2>8, <3>4
      <4>3. PICK V : V = {u \in Keyed : HasMessage(u)}
        OBVIOUS
      <4>4. V = {u \in Keyed : HasMessage(u)'}
        BY <4>2, <4>3
      <4>5. Newest(V)' = Newest(V)
        BY <1>1, SameChain
      <4>6. Newest({u \in Keyed : HasMessage(u)})' = Newest({u \in Keyed : HasMessage(u)})
        BY <4>3, <4>4, <4>5
      <4> QED
        BY <2>8, <4>1, <4>2, <4>6 DEF EffectsOK
    <3> QED
      BY <3>2, <3>3, <3>4
  <2> QED
    BY <1>6, <2>4, <2>6, <2>7, <2>8 DEF EffectsOK, CallsOf
<1> QED
  BY <1>8, <1>9

\* A statement that was given up commits: it is of another session.
LEMMA LandLateKeepsEffects ==
  ASSUME CaptureInv, ComingOK, NEW w \in late, LandLate(w),
         NEW s \in Sessions, OneAtATime(s), EffectsOK(s)
  PROVE  EffectsOK(s)'
<1>1. PICK on \in {w.on, Selects(w.statement)} : Writes(w.statement, on)
  BY DEF LandLate
<1>2. pc' = pc /\ born' = born /\ landed' = landed /\ ahead' = ahead /\ inside' = inside
  BY DEF LandLate, LandsLate
<1>3. /\ w.statement.turn \in Calls /\ SessionOf[w.statement.turn] # s
      /\ w.statement.kind = "archive" => w.statement.turn \in Keyed
      /\ w.statement.kind \in {"message", "link"} => on \subseteq {w.statement.turn}
  BY DEF CaptureInv, TypeOK, LateOK, ComingOK, OneAtATime, Selects
<1>4. /\ sessions \subseteq sessions' /\ stored' \cap CallsOf(s) \subseteq stored
      /\ InSession(s)' = InSession(s) /\ followedBy' = followedBy
      /\ Keyed \subseteq CallsOf(s) => LiveVersions' = LiveVersions
  BY <1>1, <1>3, OtherWrites
<1>5. \A u \in CallsOf(s) :
        /\ HasSession(u)' <=> HasSession(u)
        /\ HasMessage(u)' <=> HasMessage(u)
        /\ HasLink(u)' <=> HasLink(u)
        /\ BetweenVersions(u)' <=> BetweenVersions(u)
  BY <1>2 DEF HasSession, HasMessage, HasLink, BetweenVersions, Landed, Holds
<1>6. Chained(s)' = Chained(s)
  BY <1>2 DEF Chained, CallsOf
<1>7. {e \in followedBy' : SessionOf[e[2]] = s} = Chain(Chained(s))'
  BY <1>2, <1>4, <1>6, ChainStays
<1> QED
  BY <1>2, <1>4, <1>5, <1>7, EffectsStay

\* The process ends: no call of the session was in flight.
LEMMA CrashKeepsSequential ==
  ASSUME CaptureInv, Crash, NEW s \in Sessions, s \notin disturbed',
         OneAtATime(s), EffectsOK(s)
  PROVE  OneAtATime(s)' /\ EffectsOK(s)'
<1>1. /\ InFlight(s) = {} /\ late' = {} /\ born' = born /\ landed' = FALSE
      /\ stored' = stored /\ archived' = archived /\ sessions' = sessions
      /\ sentIn' = sentIn /\ followedBy' = followedBy
  BY DEF Crash, QueueLost, graph
<1>2. \A u \in CallsOf(s) : pc'[u] = pc[u] /\ pc[u] \notin Awaiting
  BY <1>1 DEF Crash, InFlight, CallsOf
<1>3. \A u \in CallsOf(s) :
        /\ HasSession(u)' <=> HasSession(u)
        /\ HasMessage(u)' <=> HasMessage(u)
        /\ HasLink(u)' <=> HasLink(u)
        /\ BetweenVersions(u)' <=> BetweenVersions(u)
  BY <1>2 DEF HasSession, HasMessage, HasLink, BetweenVersions, Awaiting
<1>4. Chained(s)' = Chained(s) /\ InFlight(s)' = {}
  BY <1>1, <1>2 DEF Chained, InFlight, CallsOf
<1>5. {e \in followedBy' : SessionOf[e[2]] = s} = Chain(Chained(s))'
  BY <1>1, <1>4, ChainStays
<1>6. InSession(s)' = InSession(s) /\ LiveVersions' = LiveVersions
  BY <1>1 DEF InSession, LiveVersions
<1>7. EffectsOK(s)'
  BY <1>1, <1>3, <1>5, <1>6, EffectsStay
<1>8. OneAtATime(s)'
  BY <1>1, <1>2, <1>4 DEF OneAtATime, CallsOf
<1> QED
  BY <1>7, <1>8

LEMMA NextKeepsSequential ==
  ASSUME CaptureInv, SequentialInv, [Next]_vars
  PROVE  SequentialInv'
<1> SUFFICES ASSUME NEW s \in Sessions \ disturbed'
             PROVE  OneAtATime(s)' /\ EffectsOK(s)'
  BY ComingKeeps DEF SequentialInv
<1>1. ASSUME disturbed \subseteq disturbed'
      PROVE  OneAtATime(s) /\ EffectsOK(s) /\ ComingOK
  BY <1>1 DEF SequentialInv
<1>2. ASSUME NEW t \in Calls, Step(t)
      PROVE  OneAtATime(s)' /\ EffectsOK(s)'
  <2>1. disturbed \subseteq disturbed'
    BY <1>2, StepMoves
  <2> QED
    BY <1>1, <1>2, <2>1, StepKeepsOneAtATime, StepKeepsEffects
<1>3. ASSUME UNCHANGED <<pc, born, disturbed>>, late' \subseteq late
      PROVE  OneAtATime(s)'
  BY <1>1, <1>3 DEF OneAtATime, InFlight
<1>4. ASSUME NEW t \in Calls, Land(t)
      PROVE  OneAtATime(s)' /\ EffectsOK(s)'
  <2>1. UNCHANGED <<pc, born, disturbed>> /\ late' \subseteq late
    BY <1>4 DEF Land, Lands
  <2> QED
    BY <1>1, <1>3, <1>4, <2>1, LandKeepsEffects
<1>5. ASSUME NEW w \in late, LandLate(w)
      PROVE  OneAtATime(s)' /\ EffectsOK(s)'
  <2>1. UNCHANGED <<pc, born, disturbed>> /\ late' \subseteq late
    BY <1>5 DEF LandLate, LandsLate
  <2> QED
    BY <1>1, <1>3, <1>5, <2>1, LandLateKeepsEffects
<1>6. CASE Crash
  <2>1. disturbed \subseteq disturbed'
    BY <1>6 DEF Crash
  <2> QED
    BY <1>1, <1>6, <2>1, CrashKeepsSequential
<1>7. CASE UNCHANGED vars
  <2>1. /\ UNCHANGED <<pc, born, disturbed>> /\ late' \subseteq late
        /\ UNCHANGED <<stored, archived, sessions, sentIn, followedBy, landed, ahead, inside>>
    BY <1>7 DEF vars, queue, graph
  <2>2. \A u \in CallsOf(s) :
          /\ HasSession(u)' <=> HasSession(u)
          /\ HasMessage(u)' <=> HasMessage(u)
          /\ HasLink(u)' <=> HasLink(u)
          /\ BetweenVersions(u)' <=> BetweenVersions(u)
    BY <2>1 DEF HasSession, HasMessage, HasLink, BetweenVersions, Landed, Holds
  <2>3. /\ Chained(s)' = Chained(s) /\ InSession(s)' = InSession(s)
        /\ LiveVersions' = LiveVersions
    BY <2>1 DEF Chained, CallsOf, InSession, LiveVersions
  <2>4. {e \in followedBy' : SessionOf[e[2]] = s} = Chain(Chained(s))'
    BY <1>1, <2>1, <2>3, ChainStays
  <2>5. EffectsOK(s)'
    BY <1>1, <2>1, <2>2, <2>3, <2>4, EffectsStay
  <2> QED
    BY <1>3, <2>1, <2>5
<1> QED
  BY <1>2, <1>4, <1>5, <1>6, <1>7 DEF Next

LEMMA InitSequentialInv == Init => SequentialInv
<1> SUFFICES ASSUME Init PROVE SequentialInv
  OBVIOUS
<1>1. ComingOK
  BY CameIsFinite DEF Init, QueueInit, ComingOK
<1>2. ASSUME NEW s \in Sessions
      PROVE  OneAtATime(s) /\ EffectsOK(s)
  <2>1. \A t \in Calls : /\ ~ HasSession(t) /\ ~ HasMessage(t) /\ ~ HasLink(t)
                         /\ ~ BetweenVersions(t) /\ pc[t] = "idle"
    BY DEF Init, HasSession, HasMessage, HasLink, BetweenVersions, PastMessage
  <2>2. InFlight(s) = {} /\ Chained(s) = {} /\ InSession(s) = {} /\ LiveVersions = {}
    BY <2>1 DEF Init, InFlight, Awaiting, Chained, CallsOf, InSession, LiveVersions
  <2>3. Chain({}) = {} /\ Newest({}) = {}
    BY DEF Chain, Newest
  <2>4. {t \in Keyed : HasMessage(t)} = {}
    BY <2>1, TurnCaptureAssumption
  <2>5. OneAtATime(s)
    BY <2>1, <2>2 DEF Init, QueueInit, OneAtATime, CallsOf
  <2>6. EffectsOK(s)
    BY <2>1, <2>2, <2>3, <2>4, TurnCaptureAssumption DEF Init, EffectsOK, CallsOf
  <2> QED
    BY <2>5, <2>6
<1> QED
  BY <1>1, <1>2 DEF SequentialInv

LEMMA SequentialSafety == Spec => []SequentialInv
<1>1. CaptureInv /\ SequentialInv /\ [Next]_vars => SequentialInv'
  BY NextKeepsSequential
<1> QED
  BY <1>1, InitSequentialInv, CaptureSafety, PTL DEF Spec

\* When the session is at rest, what its turns have written is of those that
\* were answered.
LEMMA RestIsWritten ==
  ASSUME NEW s \in Sessions, OneAtATime(s), AtRest(s)
  PROVE  /\ Answered(s) = Chained(s)
         /\ Answered(s) = {t \in CallsOf(s) : HasLink(t)}
         /\ Answered(s) = {t \in CallsOf(s) : HasMessage(t)}
         /\ \A t \in CallsOf(s) : ~ BetweenVersions(t)
<1>1. \A t \in CallsOf(s) : pc[t] \notin Awaiting
  BY DEF AtRest, InFlight, CallsOf
<1>2. \A t \in CallsOf(s) : /\ HasLink(t) <=> pc[t] = "answered"
                            /\ HasMessage(t) <=> pc[t] = "answered"
                            /\ ~ BetweenVersions(t)
                            /\ pc[t] # "push"
  BY <1>1 DEF HasLink, HasMessage, BetweenVersions, PastMessage, Awaiting
<1> QED
  BY <1>2 DEF Answered, Chained, CallsOf

\* Turns of a session that come one at a time are chained one after the other,
\* and all of them to their session (notify_turn, find_previous_message_in_session,
\* create_followed_by), whatever the turns of other sessions do and however
\* often the daemon restarts between them.
THEOREM SequentialChain == Spec => []SequentialTurnsAreChained
<1>1. SequentialInv => SequentialTurnsAreChained
  <2> SUFFICES ASSUME SequentialInv, NEW s \in Sessions, AtRest(s)
               PROVE  /\ InSession(s) = Answered(s)
                      /\ {e \in followedBy : SessionOf[e[2]] = s} = Chain(Answered(s))
    BY DEF SequentialTurnsAreChained, Chain
  <2>1. OneAtATime(s) /\ EffectsOK(s)
    BY DEF SequentialInv, AtRest
  <2> QED
    BY <2>1, RestIsWritten DEF EffectsOK
<1> QED
  BY <1>1, SequentialSafety, PTL

\* Of versions of one memory that come one at a time in one session only the
\* last is live (the archiving of earlier versions, and the order in which
\* notify_turn awaits it and the creation of the message).
THEOREM LastVersionIsLive == Spec => []SequentialVersionsSupersede
<1>1. SequentialInv => SequentialVersionsSupersede
  <2> SUFFICES ASSUME SequentialInv, NEW s \in Sessions, AtRest(s),
                      \A t \in Keyed : SessionOf[t] = s
               PROVE  LiveVersions = Newest(Answered(s) \cap Keyed)
    BY DEF SequentialVersionsSupersede, LiveVersions
  <2>1. OneAtATime(s) /\ EffectsOK(s)
    BY DEF SequentialInv, AtRest
  <2>2. Keyed \subseteq CallsOf(s)
    BY TurnCaptureAssumption DEF CallsOf
  <2>3. Answered(s) \cap Keyed = {t \in Keyed : HasMessage(t)}
    BY <2>1, <2>2, RestIsWritten
  <2> QED
    BY <2>1, <2>2, <2>3, RestIsWritten DEF EffectsOK
<1> QED
  BY <1>1, SequentialSafety, PTL

-----------------------------------------------------------------------------
(***************************************************************************)
(* The sum of the tokens of a set of turns.  MapThenSumSet is defined by   *)
(* recursion on the set; that it is the sum, in whatever order the turns   *)
(* are taken, is shown by the well-foundedness of strict inclusion.        *)
(***************************************************************************)

\* The recursion of the community modules, spelled out.
First(S) == CHOOSE x \in S : TRUE
LEMMA TokensUnfold ==
  ASSUME NEW S
  PROVE TokensOf(S) = (CHOOSE g : g = [s \in SUBSET S |-> IF s = {} THEN 0 ELSE Tokens[First(s)] + g[s \ {First(s)}]])[S]
BY DEF TokensOf, MapThenSumSet, MapThenFoldSet, First

\* F is a sum of tokens, whichever turn is taken first.
Additive(F, D) ==
  /\ F \in [SUBSET D -> Nat]
  /\ F[{}] = 0
  /\ \A s \in SUBSET D : \A x \in s : F[s] = Tokens[x] + F[s \ {x}]

\* Induction on finite sets, for a set of sets.
LEMMA SubsetsByInduction ==
  ASSUME NEW D, IsFiniteSet(D), NEW P,
         \A s \in SUBSET D : (\A x \in s : s \ {x} \in P) => s \in P
  PROVE  SUBSET D \subseteq P
<1>1. SUFFICES ASSUME (SUBSET D) \ P # {} PROVE FALSE
  OBVIOUS
<1>2. (SUBSET D) \ P \subseteq FiniteSubsetsOf(D)
  BY FS_Subset DEF FiniteSubsetsOf
<1>3. PICK s \in (SUBSET D) \ P :
        \A r \in (SUBSET D) \ P : <<r, s>> \notin StrictSubsetOrdering(D)
  BY <1>1, <1>2, FS_StrictSubsetOrderingWellFounded, WFMin
<1>4. ASSUME NEW x \in s
      PROVE  s \ {x} \in P
  <2>1. s \ {x} \in SUBSET D /\ s \ {x} # s
    BY <1>3
  <2>2. <<s \ {x}, s>> \in StrictSubsetOrdering(D)
    BY <1>3, <2>1 DEF StrictSubsetOrdering
  <2> QED
    BY <1>3, <2>1, <2>2
<1> QED
  BY <1>3, <1>4

LEMMA AdditiveExists ==
  ASSUME NEW D, IsFiniteSet(D), Tokens \in [D -> Nat]
  PROVE  \E F : Additive(F, D)
<1> DEFINE P == {s \in SUBSET D : \E F : Additive(F, s)}
<1>1. {} \in P
  <2>1. Additive([s \in SUBSET {} |-> 0], {})
    BY DEF Additive
  <2> QED
    BY <2>1
<1>2. ASSUME NEW s \in SUBSET D, NEW x \in s, s \ {x} \in P
      PROVE  s \in P
  <2>1. PICK F : Additive(F, s \ {x})
    BY <1>2
  <2> DEFINE G == [u \in SUBSET s |-> IF x \in u THEN Tokens[x] + F[u \ {x}] ELSE F[u]]
  <2>2. \A u \in SUBSET s : /\ u \ {x} \in SUBSET (s \ {x}) 
                            /\ x \notin u => u \in SUBSET (s \ {x})
    OBVIOUS
  <2>3. Tokens[x] \in Nat /\ \A y \in s : Tokens[y] \in Nat
    OBVIOUS
  <2>4. G \in [SUBSET s -> Nat]
    BY <2>1, <2>2, <2>3 DEF Additive
  <2>5. G[{}] = 0
    BY <2>1 DEF Additive
  <2>6. ASSUME NEW u \in SUBSET s, NEW y \in u
        PROVE  G[u] = Tokens[y] + G[u \ {y}]
    <3>1. CASE y = x
      BY <3>1
    <3>2. CASE y # x /\ x \in u
      <4>1. u \ {x} \in SUBSET (s \ {x}) /\ y \in u \ {x}
        BY <2>2, <2>6, <3>2
      <4>2. F[u \ {x}] = Tokens[y] + F[(u \ {x}) \ {y}]
        BY <2>1, <4>1 DEF Additive
      <4>3. (u \ {x}) \ {y} = (u \ {y}) \ {x} /\ x \in u \ {y}
        BY <3>2
      <4>4. F[(u \ {y}) \ {x}] \in Nat
        BY <2>1, <2>2, <4>1 DEF Additive
      <4>5. G[u] = Tokens[x] + F[u \ {x}] /\ G[u \ {y}] = Tokens[x] + F[(u \ {y}) \ {x}]
        BY <3>2, <4>3
      <4> HIDE DEF G
      <4> QED
        BY <2>3, <4>2, <4>3, <4>4, <4>5
    <3>3. CASE x \notin u
      <4>1. F[u] = Tokens[y] + F[u \ {y}]
        BY <2>1, <2>2, <3>3 DEF Additive
      <4>2. G[u] = F[u] /\ G[u \ {y}] = F[u \ {y}]
        BY <3>3
      <4> HIDE DEF G
      <4> QED
        BY <4>1, <4>2
    <3> QED
      BY <3>1, <3>2, <3>3
  <2> HIDE DEF G
  <2>7. Additive(G, s)
    BY <2>4, <2>5, <2>6 DEF Additive
  <2> QED
    BY <2>7
<1> HIDE DEF P
<1>3. D \in P
  <2>1. \A s \in SUBSET D : (\A x \in s : s \ {x} \in P) => s \in P
    BY <1>1, <1>2
  <2> QED
    BY <2>1, SubsetsByInduction
<1> QED
  BY <1>3 DEF P

\* The sum is what every function gives that is additive.
LEMMA SumIsAdditive ==
  ASSUME NEW D, IsFiniteSet(D), Tokens \in [D -> Nat], NEW F, Additive(F, D),
         NEW S \in SUBSET D
  PROVE  TokensOf(S) = F[S]
<1> DEFINE Iter(g) == [s \in SUBSET S |-> IF s = {} THEN 0 ELSE Tokens[First(s)] + g[s \ {First(s)}]]
           G == [s \in SUBSET S |-> F[s]]
           I == CHOOSE g : g = Iter(g)
<1>1. \A s \in SUBSET S : s # {} => First(s) \in s
  BY DEF First
<1>2. G = Iter(G)
  <2>1. ASSUME NEW s \in SUBSET S
        PROVE  G[s] = IF s = {} THEN 0 ELSE Tokens[First(s)] + G[s \ {First(s)}]
    BY <1>1, <2>1 DEF Additive
  <2> QED
    BY <2>1
<1>3. I = Iter(I)
  BY <1>2
<1>4. TokensOf(S) = I[S]
  BY TokensUnfold
<1> HIDE DEF I, G
<1>5. SUBSET S \subseteq {s \in SUBSET S : I[s] = G[s]}
  <2> DEFINE P == {s \in SUBSET S : I[s] = G[s]}
  <2>1. IsFiniteSet(S)
    BY FS_Subset
  <2>2. \A s \in SUBSET S :
          /\ I[s] = IF s = {} THEN 0 ELSE Tokens[First(s)] + I[s \ {First(s)}]
          /\ G[s] = IF s = {} THEN 0 ELSE Tokens[First(s)] + G[s \ {First(s)}]
    BY <1>2, <1>3
  <2>3. ASSUME NEW s \in SUBSET S, \A x \in s : s \ {x} \in P
        PROVE  s \in P
    <3>1. CASE s = {}
      BY <2>2, <3>1
    <3>2. CASE s # {}
      <4>1. I[s \ {First(s)}] = G[s \ {First(s)}]
        BY <1>1, <2>3, <3>2
      <4> QED
        BY <2>2, <3>2, <4>1
    <3> QED
      BY <3>1, <3>2
  <2> HIDE DEF P
  <2>4. SUBSET S \subseteq P
    BY <2>1, <2>3, SubsetsByInduction
  <2> QED
    BY <2>4 DEF P
<1> QED
  BY <1>4, <1>5 DEF G

\* And so the sum is what one expects of it.
LEMMA TokensAdd ==
  /\ TokensOf({}) = 0
  /\ \A S \in SUBSET Calls : TokensOf(S) \in Nat
  /\ \A S \in SUBSET Calls, t \in Calls :
       t \notin S => TokensOf(S \cup {t}) = TokensOf(S) + Tokens[t]
<1>1. PICK F : Additive(F, Calls)
  BY AdditiveExists, TurnCaptureAssumption
<1>2. \A S \in SUBSET Calls : TokensOf(S) = F[S]
  BY <1>1, SumIsAdditive, TurnCaptureAssumption
<1>3. ASSUME NEW S \in SUBSET Calls, NEW t \in Calls, t \notin S
      PROVE  F[S \cup {t}] = F[S] + Tokens[t]
  <2>1. (S \cup {t}) \ {t} = S /\ t \in S \cup {t} /\ S \cup {t} \in SUBSET Calls
    BY <1>3
  <2>2. F[S \cup {t}] = Tokens[t] + F[S] /\ F[S] \in Nat /\ Tokens[t] \in Nat
    BY <1>1, <2>1, TurnCaptureAssumption DEF Additive
  <2> QED
    BY <2>2
<1> QED
  BY <1>1, <1>2, <1>3 DEF Additive

LEMMA TokensGrow ==
  ASSUME NEW R \in SUBSET Calls, NEW S \in SUBSET R
  PROVE  TokensOf(S) <= TokensOf(R)
<1> DEFINE P == {s \in SUBSET R : TokensOf(S) <= TokensOf(S \cup s)}
<1>1. ASSUME NEW s \in SUBSET R, \A x \in s : s \ {x} \in P
      PROVE  s \in P
  <2>1. CASE s \subseteq S
    <3>1. S \cup s = S /\ TokensOf(S) \in Nat
      BY <2>1, TokensAdd
    <3> QED
      BY <3>1
  <2>2. CASE ~ (s \subseteq S)
    <3>1. PICK x \in s : x \notin S
      BY <2>2
    <3>2. /\ S \cup s = (S \cup (s \ {x})) \cup {x} /\ x \in Calls
          /\ x \notin S \cup (s \ {x}) /\ S \cup (s \ {x}) \in SUBSET Calls
      BY <3>1
    <3>3. /\ TokensOf(S \cup s) = TokensOf(S \cup (s \ {x})) + Tokens[x]
          /\ TokensOf(S \cup (s \ {x})) \in Nat /\ TokensOf(S) \in Nat
      BY <3>2, TokensAdd
    <3>4. TokensOf(S) <= TokensOf(S \cup (s \ {x}))
      BY <1>1, <3>1
    <3>5. Tokens[x] \in Nat
      BY <3>2, TurnCaptureAssumption
    <3> QED
      BY <3>3, <3>4, <3>5
  <2> QED
    BY <2>1, <2>2
<1> HIDE DEF P
<1>2. IsFiniteSet(R)
  BY FS_Subset, TurnCaptureAssumption
<1>3. R \in P
  BY <1>1, <1>2, SubsetsByInduction
<1>4. S \cup R = R
  OBVIOUS
<1> QED
  BY <1>3, <1>4 DEF P

-----------------------------------------------------------------------------
(***************************************************************************)
(* The token estimate of a session.  Whatever interleaves or is lost, the  *)
(* estimate, and every sum on its way to it, is at most the tokens of the  *)
(* calls that have read the estimate to write it (EstimatesOK): a call     *)
(* adds itself to what it read, and reads once.  For calls that come one   *)
(* at a time the estimate is the sum of what they have written (SumOK).    *)
(***************************************************************************)

PastEstimate == {"link", "told", "unheard"} \cup PastLink

\* The calls that may be counted: those that have read the estimate.
MayCount(s) ==
  {t \in CallsOf(s) \cap (stored \cup Retrievals) :
     pc[t] \in PastEstimate \/ (pc[t] \in Counting /\ t \in inside)}

EstimatesOK ==
  /\ \A t \in Calls : pc[t] \in {"inject", "told"} => t \in Retrievals
  /\ \A s \in Sessions : estimate[s] <= TokensOf(MayCount(s))
  /\ \A t \in inside : pc[t] \in Counting => arg[t] <= TokensOf(MayCount(SessionOf[t]))
  /\ \A w \in late : w.statement.kind \in Counting =>
       w.statement.value <= TokensOf(MayCount(SessionOf[w.statement.turn]))

HasEstimate(t) ==
  \/ pc[t] \in {"link", "push", "answered", "told"}
  \/ pc[t] = "estimate" /\ Landed(t)
  \/ pc[t] = "inject" /\ Landed(t) /\ SessionOf[t] \in sessions
Summed(s) == {t \in CallsOf(s) : HasEstimate(t)}
SumOK(s) ==
  /\ estimate[s] = TokensOf(Summed(s))
  /\ \A t \in CallsOf(s) \cap inside :
       pc[t] \in Counting /\ ~ Landed(t) => arg[t] = estimate[s] + Tokens[t]

EstimateInv ==
  /\ EstimatesOK
  /\ \A s \in Sessions \ disturbed : SumOK(s)

\* What a step of a call does with the estimate: it reads it, once.
LEMMA StepEstimates ==
  ASSUME CaptureInv, NEW t \in Calls, Step(t)
  PROVE  /\ estimate' = estimate /\ stored' = stored
         /\ \A u \in Calls \ {t} : arg'[u] = arg[u] /\ (u \in inside' <=> u \in inside)
         /\ t \in inside' /\ pc'[t] \in Counting =>
              /\ pc[t] = pc'[t] /\ t \notin inside
              /\ arg'[t] = estimate[SessionOf[t]] + Tokens[t]
         /\ pc[t] \in PastEstimate => pc'[t] \in PastEstimate
         /\ pc[t] \in Counting /\ t \in inside => pc'[t] \in PastEstimate
         /\ pc'[t] \in {"inject", "told"} => pc[t] \in {"inject", "told"} \/ t \in Retrievals
<1> USE DEF Counting
<1> DEFINE Args == \A u \in Calls \ {t} : arg'[u] = arg[u]
<1>1. /\ pc \in [Calls -> Places] /\ arg \in [Calls -> Nat] /\ inside \subseteq Calls
      /\ t \in inside => pc[t] \in Awaiting
  BY DEF CaptureInv, TypeOK, InsideAwaits, QueueOK, Places
<1>2. estimate' = estimate /\ stored' = stored
  BY DEF Step, Begin, QuestFound, IssueWrite, SessionUpserted, EarlierArchived,
         MessageCreated, EstimateRead, EstimateWritten, Linked, PushDecided, PushMarked, graph
<1>3. \A u \in Calls \ {t} : u \in inside' <=> u \in inside
  BY <1>1, StepMoves DEF Moves
<1>4. ASSUME NEW v, Issues(t, v)
      PROVE  /\ pc' = pc /\ t \notin inside /\ Args /\ arg'[t] = v
  BY <1>1, <1>4 DEF Issues
<1>5. ASSUME NEW next, Passes(t, next) \/ Breaks(t, next)
      PROVE  t \in inside /\ t \notin inside' /\ pc'[t] = next /\ arg' = arg
  <2>1. t \in inside /\ Moves(t, FALSE) /\ pc' = [pc EXCEPT ![t] = next]
    BY <1>5, SettlesFacts
  <2> QED
    BY <1>1, <1>5, <2>1 DEF Moves, Passes, Breaks, GoesTo
<1>6. CASE Begin(t) \/ QuestFound(t)
  <2>1. /\ pc[t] \in {"idle", "quest"} /\ arg' = arg
        /\ pc'[t] \in {"quest", "session", "raised"} \/ (pc'[t] = "inject" /\ t \in Retrievals)
    BY <1>1, <1>6 DEF Begin, QuestFound, FirstOf
  <2>2. t \notin inside'
    BY <1>1, <1>6, <2>1 DEF Begin, QuestFound, queue, Awaiting
  <2> QED
    BY <1>2, <1>3, <2>1, <2>2 DEF PastEstimate, PastLink
<1>7. CASE IssueWrite(t)
  <2>1. pc[t] \notin Counting /\ Issues(t, 0)
    BY <1>7 DEF IssueWrite
  <2> QED
    BY <1>2, <1>3, <1>4, <2>1
<1>8. CASE EstimateRead(t)
  <2>1. pc[t] \in Counting /\ Issues(t, estimate[SessionOf[t]] + Tokens[t])
    BY <1>8 DEF EstimateRead
  <2> QED
    BY <1>2, <1>3, <1>4, <2>1
<1>9. CASE \/ SessionUpserted(t) \/ EarlierArchived(t) \/ MessageCreated(t)
           \/ EstimateWritten(t) \/ Linked(t) \/ PushMarked(t)
  <2>1. PICK next : /\ Passes(t, next) \/ Breaks(t, next)
                    /\ pc[t] \in PastEstimate \cup Counting => next \in PastEstimate
                    /\ next \in {"inject", "told"} => pc[t] = "inject"
    <3>1. CASE EstimateWritten(t)
      <4>1. /\ AfterEstimate(t) \in PastEstimate
            /\ AfterEstimate(t) \in {"inject", "told"} => pc[t] = "inject"
        BY <3>1 DEF EstimateWritten, AfterEstimate, PastEstimate
      <4> QED
        BY <3>1, <4>1 DEF EstimateWritten, Settles
    <3>2. CASE SessionUpserted(t)
      BY <3>2 DEF SessionUpserted, AfterSession, Settles, PastEstimate, PastLink
    <3>3. CASE EarlierArchived(t) \/ MessageCreated(t) \/ Linked(t) \/ PushMarked(t)
      BY <3>3 DEF EarlierArchived, MessageCreated, Linked, PushMarked, Settles,
                  PastEstimate, PastLink
    <3> QED
      BY <1>9, <3>1, <3>2, <3>3
  <2> QED
    BY <1>2, <1>3, <1>5, <2>1
<1>10. CASE PushDecided(t)
  <2>1. CASE Issues(t, MessageCount(SessionOf[t]))
    BY <1>2, <1>3, <1>4, <1>10, <2>1 DEF PushDecided
  <2>2. CASE pc' = [pc EXCEPT ![t] = "answered"]
             /\ UNCHANGED <<arg, queue, born, disturbed, failures>>
    BY <1>1, <1>2, <1>3, <1>10, <2>2 DEF PushDecided, PastEstimate, PastLink
  <2> QED
    BY <1>10, <2>1, <2>2 DEF PushDecided
<1> QED
  BY <1>6, <1>7, <1>8, <1>9, <1>10 DEF Step

\* The turns that may be counted only become more.
LEMMA MayCountGrows ==
  ASSUME CaptureInv, [Next]_vars, NEW s \in Sessions
  PROVE  MayCount(s) \subseteq MayCount(s)' /\ MayCount(s)' \in SUBSET Calls
<1>1. pc \in [Calls -> Places]
  BY DEF CaptureInv, TypeOK, Places
<1>2. MayCount(s)' \in SUBSET Calls
  BY DEF MayCount, CallsOf
<1>3. CASE \E t \in Calls : Step(t)
  <2>1. PICK t \in Calls : Step(t)
    BY <1>3
  <2>2. \A u \in Calls \ {t} : pc'[u] = pc[u]
    BY <1>1, <2>1, OthersKeepWritten
  <2> QED
    BY <1>2, <2>1, <2>2, StepEstimates DEF MayCount, CallsOf
<1>4. ASSUME NEW w, NEW on, Writes(w, on)
      PROVE  stored \subseteq stored'
  BY <1>4 DEF Writes
<1>5. CASE \E t \in Calls : Land(t)
  BY <1>2, <1>4, <1>5 DEF Land, Lands, MayCount, CallsOf
<1>6. CASE \E w \in late : LandLate(w)
  BY <1>2, <1>4, <1>6 DEF LandLate, LandsLate, MayCount, CallsOf
<1>7. CASE Crash
  BY <1>1, <1>2, <1>7 DEF Crash, graph, MayCount, CallsOf, InFlight, Awaiting,
                          PastEstimate, PastLink, Counting
<1>8. CASE UNCHANGED vars
  BY <1>2, <1>8 DEF vars, queue, graph, MayCount, CallsOf
<1> QED
  BY <1>3, <1>5, <1>6, <1>7, <1>8 DEF Next

\* A value that is at most the tokens of the turns that may be counted stays so.
LEMMA BoundStays ==
  ASSUME CaptureInv, [Next]_vars, NEW s \in Sessions, NEW v \in Nat,
         v <= TokensOf(MayCount(s))
  PROVE  v <= TokensOf(MayCount(s))'
<1>1. PICK M : M = MayCount(s)
  OBVIOUS
<1>2. PICK N : N = MayCount(s)'
  OBVIOUS
<1>3. M \in SUBSET N /\ N \in SUBSET Calls
  BY <1>1, <1>2, MayCountGrows
<1>4. TokensOf(M) <= TokensOf(N) /\ TokensOf(M) \in Nat /\ TokensOf(N) \in Nat
  BY <1>3, TokensAdd, TokensGrow
<1>5. TokensOf(MayCount(s))' = TokensOf(N)
  BY <1>2
<1> QED
  BY <1>1, <1>4, <1>5

\* A statement that commits changes at most the estimate, and the presence, of
\* its session.
LEMMA EstimateWrites ==
  ASSUME CaptureInv, NEW w, NEW on, Writes(w, on), NEW s \in Sessions
  PROVE  /\ \/ estimate'[s] = estimate[s]
            \/ /\ w.kind \in Counting /\ SessionOf[w.turn] = s /\ estimate'[s] = w.value
         /\ \/ s \in sessions' <=> s \in sessions
            \/ w.kind = "session" /\ SessionOf[w.turn] = s
BY DEF Writes, Counting, CaptureInv, TypeOK

\* No step takes the estimate, or a sum on its way to it, beyond the turns that
\* may be counted.
LEMMA EstimatesKeep ==
  ASSUME CaptureInv, EstimatesOK, [Next]_vars
  PROVE  EstimatesOK'
<1>1. /\ inside \subseteq Calls /\ arg \in [Calls -> Nat] /\ pc \in [Calls -> Places]
      /\ estimate \in [Sessions -> Nat] /\ SessionOf \in [Calls -> Sessions]
      /\ \A w \in late : w.statement.turn \in Calls /\ w.statement.value \in Nat
  BY TurnCaptureAssumption DEF CaptureInv, TypeOK, QueueOK, Places
<1>2. \A s \in Sessions : estimate[s] <= TokensOf(MayCount(s))'
  BY <1>1, BoundStays DEF EstimatesOK
<1>3. \A t \in inside : pc[t] \in Counting =>
        arg[t] <= TokensOf(MayCount(SessionOf[t]))'
  BY <1>1, BoundStays DEF EstimatesOK
<1>4. \A w \in late : w.statement.kind \in Counting =>
        w.statement.value <= TokensOf(MayCount(SessionOf[w.statement.turn]))'
  BY <1>1, BoundStays DEF EstimatesOK
<1>5. ASSUME NEW t \in Calls, Step(t)
      PROVE  EstimatesOK'
  <2> DEFINE v == [statement |-> Statement(t), on |-> Selects(Statement(t))]
  <2>1. \A s \in Sessions : estimate'[s] <= TokensOf(MayCount(s))'
    BY <1>2, <1>5, StepEstimates
  <2>2. ASSUME NEW u \in inside', pc'[u] \in Counting
        PROVE  arg'[u] <= TokensOf(MayCount(SessionOf[u]))'
    <3>1. CASE u # t
      <4>1. u \in Calls /\ pc'[u] = pc[u]
        BY <1>1, <1>5, <2>2, <3>1, StepEstimates, OthersKeepWritten, StepMoves DEF Moves
      <4> QED
        BY <1>3, <1>5, <2>2, <3>1, <4>1, StepEstimates
    <3>2. CASE u = t
      <4>1. PICK s \in Sessions : s = SessionOf[t]
        BY <1>1
      <4>2. /\ pc[t] \in Counting /\ pc'[t] = pc[t] /\ t \notin inside /\ stored' = stored
            /\ arg'[t] = estimate[s] + Tokens[t]
        BY <1>5, <2>2, <3>2, <4>1, StepEstimates
      <4>3. PICK M : M = MayCount(s)
        OBVIOUS
      <4>4. M \in SUBSET Calls /\ t \notin M
        BY <4>2, <4>3 DEF MayCount, CallsOf, PastEstimate, PastLink, Counting
      <4>5. t \in MayCount(s)'
        BY <2>2, <3>2, <4>1, <4>2
          DEF MayCount, CallsOf, Counting, CaptureInv, StoredFirst, PastMessage, EstimatesOK
      <4>6. PICK N : N = MayCount(s)'
        OBVIOUS
      <4>7. M \cup {t} \in SUBSET N /\ N \in SUBSET Calls
        BY <4>3, <4>5, <4>6, MayCountGrows
      <4>8. /\ TokensOf(M \cup {t}) = TokensOf(M) + Tokens[t]
            /\ TokensOf(M) \in Nat /\ Tokens[t] \in Nat /\ TokensOf(N) \in Nat
            /\ TokensOf(M \cup {t}) <= TokensOf(N)
        BY <4>4, <4>7, TokensAdd, TokensGrow, TurnCaptureAssumption
      <4>9. estimate[s] <= TokensOf(M) /\ estimate[s] \in Nat
        BY <1>1, <4>3 DEF EstimatesOK
      <4>10. arg'[t] <= TokensOf(N)
        BY <4>2, <4>8, <4>9
      <4> QED
        BY <3>2, <4>1, <4>6, <4>10
    <3> QED
      BY <3>1, <3>2
  <2>3. /\ v.statement.kind = pc[t] /\ v.statement.turn = t /\ v.statement.value = arg[t]
        /\ \A w \in late' : w \in late \/ (w = v /\ t \in inside)
    <3>1. late' # late => t \in inside
      <4>1. ASSUME t \notin inside
            PROVE  late' = late
        <5>1. \A next : ~ Passes(t, next) /\ ~ Breaks(t, next)
          BY <4>1 DEF Passes, Breaks, Returns, Raises, Holds
        <5>2. ASSUME NEW w, Issues(t, w)
              PROVE  late' = late
          BY <5>2 DEF Issues
        <5> QED
          BY <1>5, <5>1, <5>2
            DEF Step, Begin, QuestFound, IssueWrite, SessionUpserted, EarlierArchived,
                MessageCreated, EstimateRead, EstimateWritten, Linked, PushDecided,
                PushMarked, Settles, queue
      <4> QED
        BY <4>1
    <3>2. late' \in {late, late \cup {v}}
      BY <1>5, StepMoves
    <3> QED
      BY <3>1, <3>2 DEF Statement
  <2> HIDE DEF v
  <2>4. \A w \in late' : w.statement.kind \in Counting =>
          w.statement.value <= TokensOf(MayCount(SessionOf[w.statement.turn]))'
    BY <1>3, <1>4, <2>3
  <2>5. \A u \in Calls : pc'[u] \in {"inject", "told"} => u \in Retrievals
    <3>1. \A u \in Calls \ {t} : pc'[u] = pc[u]
      BY <1>5, OthersKeepWritten
    <3> QED
      BY <1>5, <3>1, StepEstimates DEF EstimatesOK
  <2> QED
    BY <2>1, <2>2, <2>4, <2>5 DEF EstimatesOK
<1>6. ASSUME pc' = pc, arg' = arg, inside' \subseteq inside, late' \subseteq late,
             \A s \in Sessions : estimate'[s] <= TokensOf(MayCount(s))'
      PROVE  EstimatesOK'
  BY <1>3, <1>4, <1>6 DEF EstimatesOK
<1>7. ASSUME NEW t \in Calls, Land(t)
      PROVE  EstimatesOK'
  <2> DEFINE w == Statement(t)
  <2>1. /\ Writes(w, Selects(w)) /\ pc' = pc /\ arg' = arg /\ late' = late
        /\ inside' = inside /\ t \in inside
        /\ w.kind = pc[t] /\ w.turn = t /\ w.value = arg[t]
    BY <1>7 DEF Land, Lands, Holds, Statement
  <2> HIDE DEF w
  <2>2. \A s \in Sessions : estimate'[s] <= TokensOf(MayCount(s))'
    BY <1>2, <1>3, <2>1, EstimateWrites
  <2> QED
    BY <1>6, <2>1, <2>2
<1>8. ASSUME NEW w \in late, LandLate(w)
      PROVE  EstimatesOK'
  <2>1. PICK on : Writes(w.statement, on)
    BY <1>8 DEF LandLate
  <2>2. pc' = pc /\ arg' = arg /\ late' \subseteq late /\ inside' = inside
    BY <1>8 DEF LandLate, LandsLate
  <2>3. \A s \in Sessions : estimate'[s] <= TokensOf(MayCount(s))'
    BY <1>2, <1>4, <2>1, EstimateWrites
  <2> QED
    BY <1>6, <2>2, <2>3
<1>9. CASE Crash
  <2>1. inside' = {} /\ late' = {} /\ estimate' = estimate
    BY <1>9 DEF Crash, QueueLost, graph
  <2>2. \A u \in Calls : pc'[u] \in {"inject", "told"} => u \in Retrievals
    BY <1>9 DEF Crash, EstimatesOK
  <2> QED
    BY <1>2, <2>1, <2>2 DEF EstimatesOK
<1>10. CASE UNCHANGED vars
  <2>1. pc' = pc /\ arg' = arg /\ late' = late /\ inside' = inside /\ estimate' = estimate
    BY <1>10 DEF vars, queue, graph
  <2> QED
    BY <1>2, <1>6, <2>1
<1> QED
  BY <1>5, <1>7, <1>8, <1>9, <1>10 DEF Next

\* The sum of a session stays as it is when its turns and their places do.
LEMMA SumStays ==
  ASSUME NEW s \in Sessions, SumOK(s), estimate'[s] = estimate[s],
         \A u \in CallsOf(s) :
           /\ HasEstimate(u)' <=> HasEstimate(u)
           /\ u \in inside' /\ pc'[u] \in Counting /\ ~ Landed(u)' =>
                \/ u \in inside /\ pc[u] \in Counting /\ ~ Landed(u) /\ arg'[u] = arg[u]
                \/ arg'[u] = estimate[s] + Tokens[u]
  PROVE  SumOK(s)'
<1>1. PICK S : S = Summed(s)
  OBVIOUS
<1>2. Summed(s)' = S
  BY <1>1 DEF Summed, CallsOf
<1>3. estimate'[s] = TokensOf(S)
  BY <1>1 DEF SumOK
<1>4. TokensOf(Summed(s))' = TokensOf(S)
  BY <1>2
<1>5. \A u \in CallsOf(s) \cap inside' :
        pc'[u] \in Counting /\ ~ Landed(u)' => arg'[u] = estimate'[s] + Tokens[u]
  BY DEF SumOK
<1> QED
  BY <1>3, <1>4, <1>5 DEF SumOK, CallsOf

LEMMA StepKeepsSum ==
  ASSUME CaptureInv, ComingOK, NEW t \in Calls, Step(t),
         NEW s \in Sessions, s \notin disturbed', SumOK(s)
  PROVE  SumOK(s)'
<1>1. estimate' = estimate /\ sessions' = sessions /\ CallsOf(s) \subseteq Calls
  BY StepEstimates, StepWrites DEF CallsOf
<1>2. ASSUME NEW u \in CallsOf(s) \ {t}
      PROVE  /\ HasEstimate(u)' <=> HasEstimate(u)
             /\ u \in inside' /\ pc'[u] \in Counting /\ ~ Landed(u)' =>
                  u \in inside /\ pc[u] \in Counting /\ ~ Landed(u) /\ arg'[u] = arg[u]
  <2>1. pc'[u] = pc[u] /\ arg'[u] = arg[u] /\ (u \in inside' <=> u \in inside)
    BY <1>1, OthersKeepWritten, StepEstimates
  <2>2. Landed(u)' <=> Landed(u)
    BY <1>1, StepMoves, OthersStayLanded DEF CaptureInv, TypeOK
  <2> QED
    BY <1>1, <2>1, <2>2 DEF HasEstimate
<1>3. CASE SessionOf[t] # s
  <2>1. t \notin CallsOf(s)
    BY <1>3 DEF CallsOf
  <2> QED
    BY <1>1, <1>2, <2>1, SumStays
<1>4. CASE SessionOf[t] = s
  <2>1. ~ Landed(t)'
    BY StepMoves, OthersStayLanded DEF CaptureInv, TypeOK
  <2>2. HasEstimate(t)' <=> HasEstimate(t)
    BY <1>1, <1>4, <2>1, CleanStep
      DEF HasEstimate, AfterSession, Awaiting, FirstOf, Counting, AfterEstimate
  <2>3. t \in inside' /\ pc'[t] \in Counting => arg'[t] = estimate[s] + Tokens[t]
    BY <1>4, StepEstimates
  <2> QED
    BY <1>1, <1>2, <2>2, <2>3, SumStays
<1> QED
  BY <1>3, <1>4

LEMMA LandKeepsSum ==
  ASSUME CaptureInv, NEW t \in Calls, Land(t),
         NEW s \in Sessions, OneAtATime(s), EffectsOK(s), SumOK(s)
  PROVE  SumOK(s)'
<1> DEFINE w == Statement(t)
<1>1. /\ Writes(w, Selects(w)) /\ Holds(t) /\ ~ landed /\ landed' = TRUE /\ t \in inside
      /\ pc' = pc /\ arg' = arg /\ ahead' = ahead /\ inside' = inside
      /\ w.kind = pc[t] /\ w.turn = t /\ w.value = arg[t]
  BY DEF Land, Lands, Holds, Statement
<1>2. /\ \A u \in Calls : ~ Landed(u) /\ (Landed(u)' <=> u = t)
      /\ pc[t] \in Awaiting /\ CallsOf(s) \subseteq Calls
  BY <1>1, OneHolder DEF Landed, Holds, CaptureInv, TypeOK, InsideAwaits, CallsOf
<1> HIDE DEF w
<1>3. \A u \in Calls \ {t} : HasEstimate(u)' <=> HasEstimate(u)
  BY <1>1, <1>2 DEF HasEstimate
<1> DEFINE Unheard == pc[t] = "inject" /\ s \notin sessions
<1>4. CASE SessionOf[t] # s \/ pc[t] \notin Counting \/ Unheard
  <2>1. estimate'[s] = estimate[s]
    <3>1. CASE SessionOf[t] # s \/ pc[t] \notin Counting
      BY <1>1, <3>1, EstimateWrites
    <3>2. CASE SessionOf[t] = s /\ Unheard
      BY <1>1, <3>2 DEF Writes
    <3> QED
      BY <1>4, <3>1, <3>2
  <2>2. \A u \in CallsOf(s) : HasEstimate(u)' <=> HasEstimate(u)
    <3>1. SessionOf[t] = s => (HasEstimate(t)' <=> HasEstimate(t))
      <4>1. SessionOf[t] = s /\ Unheard => s \notin sessions'
        BY <1>1 DEF Writes
      <4> QED
        BY <1>1, <1>2, <1>4, <4>1 DEF HasEstimate, Counting
    <3>2. SessionOf[t] # s => t \notin CallsOf(s)
      BY DEF CallsOf
    <3> QED
      BY <1>2, <1>3, <1>4, <3>1, <3>2
  <2>3. \A u \in CallsOf(s) : u \in inside' /\ pc'[u] \in Counting =>
          u \in inside /\ pc[u] \in Counting /\ ~ Landed(u) /\ arg'[u] = arg[u]
    BY <1>1, <1>2
  <2> QED
    BY <2>1, <2>2, <2>3, SumStays
<1>5. CASE SessionOf[t] = s /\ pc[t] \in Counting /\ ~ Unheard
  <2>0. sessions' = sessions
    BY <1>1, <1>5 DEF Writes, Counting
  <2>1. t \in CallsOf(s) /\ ~ HasEstimate(t) /\ HasEstimate(t)'
    BY <1>1, <1>2, <1>5, <2>0 DEF CallsOf, HasEstimate, Counting
  <2>2. PICK S : S = Summed(s)
    OBVIOUS
  <2>3. S \in SUBSET Calls /\ t \notin S
    BY <1>2, <2>1, <2>2 DEF Summed
  <2>4. Summed(s)' = S \cup {t}
    BY <1>2, <1>3, <2>1, <2>2 DEF Summed, CallsOf
  <2>5. TokensOf(S \cup {t}) = TokensOf(S) + Tokens[t]
    BY <2>3, TokensAdd
  <2>6. estimate'[s] = arg[t]
    <3>1. s \in sessions
      BY <1>5, <2>1 DEF EffectsOK, HasSession, PastMessage, Counting
    <3> QED
      BY <1>1, <1>5, <3>1 DEF Writes, Counting, CaptureInv, TypeOK
  <2>7. arg[t] = estimate[s] + Tokens[t]
    BY <1>1, <1>2, <1>5, <2>1 DEF SumOK
  <2>8. estimate'[s] = TokensOf(S \cup {t})
    BY <2>2, <2>5, <2>6, <2>7 DEF SumOK
  <2>9. TokensOf(Summed(s))' = TokensOf(S \cup {t})
    BY <2>4
  <2>10. \A u \in CallsOf(s) : u # t => pc'[u] \notin Counting
    <3>1. t \in InFlight(s)
      BY <1>2, <1>5 DEF InFlight
    <3>2. \A u \in CallsOf(s) : pc[u] \in Counting => u \in InFlight(s)
      BY DEF InFlight, CallsOf, Awaiting, Counting
    <3> QED
      BY <1>1, <3>1, <3>2 DEF OneAtATime
  <2>11. \A u \in CallsOf(s) \cap inside' :
           pc'[u] \in Counting /\ ~ Landed(u)' => arg'[u] = estimate'[s] + Tokens[u]
    BY <1>2, <2>10
  <2> QED
    BY <2>8, <2>9, <2>11 DEF SumOK, CallsOf
<1> QED
  BY <1>4, <1>5

LEMMA NextKeepsEstimates ==
  ASSUME CaptureInv, SequentialInv, EstimateInv, [Next]_vars
  PROVE  EstimateInv'
<1>1. EstimatesOK'
  BY EstimatesKeep DEF EstimateInv
<1> SUFFICES ASSUME NEW s \in Sessions \ disturbed'
             PROVE  SumOK(s)'
  BY <1>1 DEF EstimateInv
<1>2. ASSUME disturbed \subseteq disturbed'
      PROVE  SumOK(s) /\ OneAtATime(s) /\ EffectsOK(s) /\ ComingOK
  BY <1>2 DEF SequentialInv, EstimateInv
<1>3. ASSUME NEW t \in Calls, Step(t)
      PROVE  SumOK(s)'
  <2>1. disturbed \subseteq disturbed'
    BY <1>3, StepMoves
  <2> QED
    BY <1>2, <1>3, <2>1, StepKeepsSum
<1>4. ASSUME NEW t \in Calls, Land(t)
      PROVE  SumOK(s)'
  <2>1. disturbed' = disturbed
    BY <1>4 DEF Land
  <2> QED
    BY <1>2, <1>4, <2>1, LandKeepsSum
<1>5. ASSUME pc' = pc, arg' = arg, inside' = inside, ahead' = ahead, landed' = landed,
             disturbed' = disturbed, estimate'[s] = estimate[s], s \in sessions' <=> s \in sessions
      PROVE  SumOK(s)'
  <2>1. \A u \in CallsOf(s) : (HasEstimate(u)' <=> HasEstimate(u)) /\ (Landed(u)' <=> Landed(u))
    BY <1>5 DEF HasEstimate, Landed, Holds, CallsOf
  <2> QED
    BY <1>2, <1>5, <2>1, SumStays
<1>6. ASSUME NEW w \in late, LandLate(w)
      PROVE  SumOK(s)'
  <2>1. /\ pc' = pc /\ arg' = arg /\ disturbed' = disturbed
        /\ inside' = inside /\ ahead' = ahead /\ landed' = landed
    BY <1>6 DEF LandLate, LandsLate
  <2>2. PICK on : Writes(w.statement, on)
    BY <1>6 DEF LandLate
  <2>3. SessionOf[w.statement.turn] # s
    BY <1>2, <2>1 DEF OneAtATime
  <2> QED
    BY <1>5, <2>1, <2>2, <2>3, EstimateWrites
<1>7. CASE Crash
  <2>1. /\ disturbed \subseteq disturbed' /\ InFlight(s) = {}
        /\ inside' = {} /\ estimate' = estimate
    BY <1>7 DEF Crash, QueueLost, graph
  <2>2. \A u \in CallsOf(s) : pc'[u] = pc[u] /\ pc[u] \notin Counting
    BY <1>7, <2>1 DEF Crash, InFlight, CallsOf, Awaiting, Counting
  <2>3. \A u \in CallsOf(s) : HasEstimate(u)' <=> HasEstimate(u)
    BY <2>2 DEF HasEstimate, Counting
  <2> QED
    BY <1>2, <2>1, <2>2, <2>3, SumStays
<1>8. CASE UNCHANGED vars
  BY <1>5, <1>8 DEF vars, queue, graph
<1> QED
  BY <1>3, <1>4, <1>6, <1>7, <1>8 DEF Next

LEMMA InitEstimateInv == Init => EstimateInv
<1> SUFFICES ASSUME Init PROVE EstimateInv
  OBVIOUS
<1>1. EstimatesOK
  <2>1. \A s \in Sessions : MayCount(s) \in SUBSET Calls /\ estimate[s] = 0
    BY DEF Init, MayCount, CallsOf
  <2>2. \A s \in Sessions : TokensOf(MayCount(s)) \in Nat
    BY <2>1, TokensAdd
  <2>3. \A s \in Sessions : estimate[s] <= TokensOf(MayCount(s))
    BY <2>1, <2>2
  <2> QED
    BY <2>3 DEF Init, QueueInit, EstimatesOK
<1>2. ASSUME NEW s \in Sessions
      PROVE  SumOK(s)
  <2>1. Summed(s) = {} /\ inside = {} /\ estimate[s] = 0
    BY DEF Init, QueueInit, Summed, CallsOf, HasEstimate
  <2> QED
    BY <2>1, TokensAdd DEF SumOK
<1> QED
  BY <1>1, <1>2 DEF EstimateInv

\* The token estimate of a session (update_token_estimate, for notify_turn and
\* for current_truth, reads it, and writes the sum under the write lock in a
\* later step) never counts a call twice or a turn that is not stored, whatever
\* interleaves, fails or is given up; and of calls that come one at a time it is
\* the sum.
THEOREM EstimateIsHonest == Spec => []EstimateCountsCalls
<1>1. CaptureInv /\ SequentialInv /\ EstimateInv => EstimateCountsCalls
  <2> SUFFICES ASSUME CaptureInv, SequentialInv, EstimateInv, NEW s \in Sessions
               PROVE  /\ estimate[s] <= TokensOf({t \in stored : SessionOf[t] = s}
                                                    \cup Begun(s))
                      /\ AtRest(s) => estimate[s] = TokensOf(Answered(s) \cup Told(s))
    BY DEF EstimateCountsCalls
  <2>1. PICK S : S = {t \in stored : SessionOf[t] = s} \cup Begun(s)
    OBVIOUS
  <2>2. S \in SUBSET Calls /\ MayCount(s) \in SUBSET S
    BY <2>1, TurnCaptureAssumption
      DEF MayCount, CallsOf, Begun, Counting, PastEstimate, PastLink, CaptureInv, TypeOK
  <2>3. /\ TokensOf(MayCount(s)) <= TokensOf(S)
        /\ TokensOf(MayCount(s)) \in Nat /\ TokensOf(S) \in Nat
    BY <2>2, TokensAdd, TokensGrow
  <2>4. estimate[s] \in Nat /\ estimate[s] <= TokensOf(MayCount(s))
    BY DEF EstimateInv, EstimatesOK, CaptureInv, TypeOK
  <2>5. estimate[s] <= TokensOf(S)
    BY <2>3, <2>4
  <2>6. ASSUME AtRest(s)
        PROVE  estimate[s] = TokensOf(Answered(s) \cup Told(s))
    <3>1. OneAtATime(s) /\ SumOK(s)
      BY <2>6 DEF SequentialInv, EstimateInv, AtRest
    <3>2. Summed(s) = Answered(s) \cup Told(s)
      <4>1. \A t \in CallsOf(s) : pc[t] \notin Awaiting
        BY <2>6 DEF AtRest, InFlight, CallsOf
      <4>2. \A t \in CallsOf(s) : pc[t] = "told" => t \in Retrievals
        BY DEF EstimateInv, EstimatesOK, CallsOf
      <4> QED
        BY <4>1, <4>2, TurnCaptureAssumption
          DEF Summed, HasEstimate, Answered, Told, CallsOf, Awaiting
    <3> QED
      BY <3>1, <3>2 DEF SumOK
  <2> QED
    BY <2>1, <2>5, <2>6
<1>2. CaptureInv /\ SequentialInv /\ EstimateInv /\ [Next]_vars => EstimateInv'
  BY NextKeepsEstimates
<1> QED
  BY <1>1, <1>2, InitEstimateInv, CaptureSafety, SequentialSafety, PTL DEF Spec

=============================================================================
