--------------------------- MODULE WriteGateProofs ---------------------------
(***************************************************************************)
(* For any set of calls and any pool: the write gate keeps its invariant,  *)
(* lets no two live native writes overlap, acknowledges only what is       *)
(* wholly stored, and implements WriteService, what a caller is told,      *)
(* and WriteQueue, what the modules of the callers take for granted.       *)
(***************************************************************************)
EXTENDS WriteGate, TLAPS

\* The invariant but for the order of the waiters.
GateInv == TypeOK /\ GateDiscipline /\ OverlapsOnlyAbandoned /\ AckedIsStored

\* The invariant holds of the state the daemon starts in.
LEMMA InitGate == Init => WriteGateInv
<1> SUFFICES ASSUME Init PROVE WriteGateInv
  OBVIOUS
<1>1. GateInv
  BY WriteGateAssumption
  DEF Init, GateInv, TypeOK, GateDiscipline, OverlapsOnlyAbandoned,
      AckedIsStored, Calls, Answered, Busy
<1>2. WaitersInOrder
  BY DEF Init, WaitersInOrder, Waiting, Calls
<1> QED
  BY <1>1, <1>2 DEF GateInv, WriteGateInv

\* A coroutine's own steps keep the invariant: it is called, gets the lock,
\* returns or gives up.
LEMMA CallerStep ==
  ASSUME GateInv, NEW w \in Writers,
         CallTakesLock(w) \/ CallWaits(w) \/ TakeLock(w)
           \/ Return(w) \/ Timeout(w)
  PROVE  GateInv'
<1> USE WriteGateAssumption
    DEF GateInv, TypeOK, GateDiscipline, OverlapsOnlyAbandoned,
        AckedIsStored, Calls, Answered, Busy
<1>1. CASE CallTakesLock(w)
  BY <1>1 DEF CallTakesLock, Contended, Waiting, Submit, NoLongerWaits
<1>2. CASE CallWaits(w)
  BY <1>2 DEF CallWaits, Waiting
<1>3. CASE TakeLock(w)
  BY <1>3 DEF TakeLock, Submit, NoLongerWaits
<1>4. CASE Return(w)
  BY <1>4 DEF Return, AnswersCommitted
<1>5. CASE Timeout(w)
  BY <1>5 DEF Timeout, NoLongerWaits
<1> QED
  BY <1>1, <1>2, <1>3, <1>4, <1>5

\* The pool's steps, the handlers', the reads' and a crash keep it.
LEMMA OtherStep ==
  ASSUME GateInv,
         \/ \E w \in Writers : StartWrite(w) \/ EndWrite(w)
         \/ \E h \in Handlers : HandlerCall(h) \/ HandlerUpdate(h) \/ HandlerReturn(h)
         \/ \E r \in Readers : Read(r) \/ StartRead(r) \/ EndRead(r)
         \/ Crash
  PROVE  GateInv'
<1> USE WriteGateAssumption
    DEF GateInv, TypeOK, GateDiscipline, OverlapsOnlyAbandoned,
        AckedIsStored, Calls, Answered, Busy
<1>1. ASSUME NEW w \in Writers, StartWrite(w)
      PROVE  GateInv'
  BY <1>1 DEF StartWrite
<1>2. ASSUME NEW w \in Writers, EndWrite(w)
      PROVE  GateInv'
  BY <1>2 DEF EndWrite
<1>3. ASSUME NEW h \in Handlers, HandlerCall(h) \/ HandlerUpdate(h) \/ HandlerReturn(h)
      PROVE  GateInv'
  <2>1. CASE HandlerCall(h)
    BY <2>1 DEF HandlerCall
  <2>2. CASE HandlerUpdate(h)
    BY <2>2 DEF HandlerUpdate
  <2>3. CASE HandlerReturn(h)
    BY <2>3 DEF HandlerReturn, AnswersCommitted
  <2> QED
    BY <1>3, <2>1, <2>2, <2>3
<1>4. ASSUME NEW r \in Readers, Read(r) \/ StartRead(r) \/ EndRead(r)
      PROVE  GateInv'
  BY <1>4 DEF Read, StartRead, EndRead
<1>5. CASE Crash
  BY <1>5 DEF Crash
<1> QED
  BY <1>1, <1>2, <1>3, <1>4, <1>5

\* A writer that stops waiting leaves the others in their order.
LEMMA LeavingKeepsOrder ==
  ASSUME WaitersInOrder, NEW w \in Writers, NoLongerWaits(w),
         pc'[w] # "waiting", \A v \in Writers \ {w} : pc'[v] = pc[v]
  PROVE  WaitersInOrder'
<1>1. Waiting' = Waiting \ {w}
  BY DEF Waiting
<1>2. /\ before'[w] = {}
      /\ \A v \in Writers \ {w} : before'[v] = before[v] \ {w}
  BY DEF NoLongerWaits
<1>3. Waiting \subseteq Writers
  BY DEF Waiting
<1> QED
  BY <1>1, <1>2, <1>3 DEF WaitersInOrder

\* Every step keeps the waiters in the order in which they came.
LEMMA OrderStep ==
  ASSUME GateInv, WaitersInOrder, [Next]_vars
  PROVE  WaitersInOrder'
<1>1. pc \in [Calls -> {"idle", "waiting", "awaiting", "updating"} \cup Answered] /\ Writers \subseteq Calls
  BY DEF GateInv, TypeOK, Calls
<1>2. ASSUME before' = before, \A v \in Writers : pc'[v] = "waiting" <=> pc[v] = "waiting"
      PROVE  WaitersInOrder'
  <2>1. Waiting' = Waiting
    BY <1>2 DEF Waiting
  <2> QED
    BY <1>2, <2>1 DEF WaitersInOrder
<1>3. ASSUME NEW w \in Writers, CallTakesLock(w) \/ TakeLock(w) \/ Timeout(w)
      PROVE  WaitersInOrder'
  <2>1. /\ NoLongerWaits(w) /\ pc'[w] # "waiting"
        /\ \A v \in Writers \ {w} : pc'[v] = pc[v]
    BY <1>1, <1>3 DEF CallTakesLock, TakeLock, Timeout, Submit
  <2> QED
    BY <2>1, LeavingKeepsOrder
<1>4. ASSUME NEW w \in Writers, CallWaits(w)
      PROVE  WaitersInOrder'
  <2>1. w \notin Waiting /\ Waiting' = Waiting \cup {w} /\ Waiting \subseteq Writers
    BY <1>1, <1>4 DEF CallWaits, Waiting
  <2>2. /\ before'[w] = Waiting
        /\ \A v \in Writers \ {w} : before'[v] = before[v]
    BY <1>4 DEF CallWaits, GateInv, TypeOK
  <2> QED
    BY <2>1, <2>2 DEF WaitersInOrder
<1>5. ASSUME NEW w \in Writers, StartWrite(w) \/ EndWrite(w) \/ Return(w)
      PROVE  WaitersInOrder'
  <2>1. before' = before /\ \A v \in Writers : pc'[v] = "waiting" <=> pc[v] = "waiting"
    BY <1>1, <1>5 DEF StartWrite, EndWrite, Return, AnswersCommitted
  <2> QED
    BY <1>2, <2>1
<1>6. ASSUME NEW h \in Handlers, HandlerCall(h) \/ HandlerUpdate(h) \/ HandlerReturn(h)
      PROVE  WaitersInOrder'
  <2>1. before' = before /\ \A v \in Writers : pc'[v] = pc[v]
    BY <1>1, <1>6, WriteGateAssumption
      DEF HandlerCall, HandlerUpdate, HandlerReturn, AnswersCommitted
  <2> QED
    BY <1>2, <2>1
<1>7. ASSUME NEW r \in Readers, Read(r) \/ StartRead(r) \/ EndRead(r)
      PROVE  WaitersInOrder'
  BY <1>2, <1>7 DEF Read, StartRead, EndRead
<1>8. CASE Crash
  <2>1. Waiting' = {} /\ \A w \in Writers : before'[w] = {}
    BY <1>1, <1>8 DEF Crash, Waiting, Answered
  <2> QED
    BY <2>1 DEF WaitersInOrder
<1>9. CASE UNCHANGED vars
  BY <1>2, <1>9 DEF vars
<1> QED
  BY <1>3, <1>4, <1>5, <1>6, <1>7, <1>8, <1>9 DEF Next

\* The whole invariant, of every reachable state.
THEOREM GateSafety == Spec => []WriteGateInv
<1>1. WriteGateInv /\ [Next]_vars => WriteGateInv'
  <2> SUFFICES ASSUME GateInv, WaitersInOrder, [Next]_vars
               PROVE  GateInv' /\ WaitersInOrder'
    BY DEF GateInv, WriteGateInv
  <2>1. CASE UNCHANGED vars
    BY <2>1, OrderStep DEF vars, GateInv, TypeOK, GateDiscipline, Busy,
                           OverlapsOnlyAbandoned, AckedIsStored
  <2>2. CASE Next
    BY <2>2, CallerStep, OtherStep, OrderStep DEF Next
  <2> QED
    BY <2>1, <2>2
<1> QED
  BY InitGate, <1>1, PTL DEF Spec

\* The write lock admits one live native write at a time: two overlap only
\* when the timeout abandoned one of them (execute_write).
THEOREM LiveWritesExclude == Spec => []OverlapsOnlyAbandoned
<1>1. WriteGateInv => OverlapsOnlyAbandoned
  BY DEF WriteGateInv
<1> QED
  BY <1>1, GateSafety, PTL

\* A call answered "ok" has its whole write in the store, and the index names
\* no node whose write did not commit.
THEOREM AcknowledgedIsDurable == Spec => []AckedIsStored
<1>1. WriteGateInv => AckedIsStored
  BY DEF WriteGateInv
<1> QED
  BY <1>1, GateSafety, PTL

-----------------------------------------------------------------------------
(***************************************************************************)
(* The refinement, step by step.                                           *)
(***************************************************************************)

\* A step that changes the coroutine and the job of one call c is a step of
\* WriteService for c, provided c's own fate and answer move as it allows.
LEMMA OneCallMoves ==
  ASSUME NEW c \in Calls,
         \A d \in Calls : d # c =>
           FateOf(d)' = FateOf(d) /\ AnswerOf(d)' = AnswerOf(d),
         FateOf(c)' \in Service!FateAfter(c, FateOf(c)),
         AnswerOf(c) # "none" /\ FateOf(c) = "partial" => FateOf(c)' = "partial",
         \/ AnswerOf(c)' = AnswerOf(c)
         \/ /\ AnswerOf(c) = "none"
            /\ FateOf(c)' # "none"
            /\ \/ AnswerOf(c)' = "error"
               \/ AnswerOf(c)' = "ok" /\ FateOf(c)' = "applied"
  PROVE  Service!Next
<1> DEFINE fate   == [d \in Calls |-> FateOf(d)]
           answer == [d \in Calls |-> AnswerOf(d)]
<1>1. fate' = [fate EXCEPT ![c] = FateOf(c)']
  OBVIOUS
<1>2. answer' = [answer EXCEPT ![c] = AnswerOf(c)']
  OBVIOUS
<1>3. fate[c] = FateOf(c) /\ answer[c] = AnswerOf(c)
  OBVIOUS
<1>4. AnswerOf(c)' = AnswerOf(c) => answer' = answer
  BY <1>2
<1>5. Service!Move(c)
  BY <1>1, <1>2, <1>3, <1>4 DEF Service!Move
<1> QED
  BY <1>5 DEF Service!Next

\* Every step of the gate is a step of WriteService or leaves it unchanged.
LEMMA GateStepRefines ==
  ASSUME WriteGateInv, [Next]_vars
  PROVE  [Service!Next]_(Service!svars)
<1> USE WriteGateAssumption
<1>1. ASSUME NEW w \in Writers,
             \/ CallTakesLock(w) \/ CallWaits(w) \/ TakeLock(w)
             \/ StartWrite(w) \/ EndWrite(w) \/ Return(w) \/ Timeout(w)
      PROVE  Service!Next
  <2>1. \A d \in Calls : d # w => pc'[d] = pc[d] /\ thread'[d] = thread[d]
    BY <1>1 DEF CallTakesLock, CallWaits, TakeLock, StartWrite, EndWrite, Return,
                AnswersCommitted, Timeout, Submit, WriteGateInv, TypeOK, Calls
  <2>2. \A d \in Calls : d # w =>
          FateOf(d)' = FateOf(d) /\ AnswerOf(d)' = AnswerOf(d)
    BY <2>1 DEF FateOf, AnswerOf
  <2>3. /\ FateOf(w)' \in Service!FateAfter(w, FateOf(w))
        /\ FateOf(w) # "partial"
        /\ \/ AnswerOf(w)' = AnswerOf(w)
           \/ /\ AnswerOf(w) = "none"
              /\ FateOf(w)' # "none"
              /\ \/ AnswerOf(w)' = "error"
                 \/ AnswerOf(w)' = "ok" /\ FateOf(w)' = "applied"
    BY <1>1 DEF CallTakesLock, CallWaits, TakeLock, StartWrite, EndWrite, Return,
                AnswersCommitted, Timeout, Submit, WriteGateInv, TypeOK,
                GateDiscipline, Busy, Calls, Answered, FateOf, AnswerOf, Service!FateAfter,
                AckedIsStored
  <2>4. w \in Calls
    BY DEF Calls
  <2> QED
    BY <2>2, <2>3, <2>4, OneCallMoves
<1>2. ASSUME NEW h \in Handlers, HandlerCall(h) \/ HandlerUpdate(h) \/ HandlerReturn(h)
      PROVE  Service!Next
  <2>1. \A d \in Calls : d # h => pc'[d] = pc[d] /\ thread'[d] = thread[d]
    BY <1>2 DEF HandlerCall, HandlerUpdate, HandlerReturn, AnswersCommitted,
                WriteGateInv, TypeOK, Calls
  <2>2. \A d \in Calls : d # h =>
          FateOf(d)' = FateOf(d) /\ AnswerOf(d)' = AnswerOf(d)
    BY <2>1 DEF FateOf, AnswerOf
  <2>3. h \in Calls /\ AnswerOf(h) = "none"
    BY <1>2 DEF HandlerCall, HandlerUpdate, HandlerReturn, AnswerOf, Answered, Calls
  <2>4. CASE HandlerCall(h)
    <3>1. /\ pc[h] = "idle" /\ pc'[h] = "updating"
          /\ thread[h] = "none" /\ thread'[h] = "none"
      BY <2>3, <2>4 DEF HandlerCall, WriteGateInv, TypeOK, GateDiscipline
    <3>2. /\ FateOf(h) = "none" /\ FateOf(h)' = "open"
          /\ AnswerOf(h)' = AnswerOf(h)
      BY <3>1 DEF FateOf, AnswerOf, Answered
    <3> QED
      BY <2>2, <2>3, <3>2, OneCallMoves DEF Service!FateAfter
  <2>5. CASE HandlerUpdate(h)
    <3>1. /\ pc[h] = "updating" /\ pc'[h] = "updating"
          /\ \/ thread[h] \in {"none", "part"} /\ thread'[h] = "committed"
             \/ thread[h] \in {"none", "part"} /\ thread'[h] = "part" /\ h \in Many
      BY <2>3, <2>5 DEF HandlerUpdate, WriteGateInv, TypeOK
    <3>2. /\ FateOf(h) \in {"open", "partial"}
          /\ AnswerOf(h)' = AnswerOf(h)
          /\ \/ FateOf(h)' = "applied"
             \/ FateOf(h)' = "partial" /\ h \in Many
      BY <3>1 DEF FateOf, AnswerOf, Answered
    <3>3. FateOf(h)' \in Service!FateAfter(h, FateOf(h))
      BY <3>2 DEF Service!FateAfter
    <3> QED
      BY <2>2, <2>3, <3>2, <3>3, OneCallMoves
  <2>6. CASE HandlerReturn(h)
    <3>1. /\ pc[h] = "updating" /\ pc'[h] \in {"ok", "error"}
          /\ thread[h] \in {"none", "part", "committed"}
          /\ thread'[h] = IF thread[h] = "none" THEN "failed" ELSE thread[h]
          /\ pc'[h] = "ok" => thread[h] = "committed"
      BY <2>3, <2>6 DEF HandlerReturn, AnswersCommitted, WriteGateInv, TypeOK,
                        GateDiscipline
    <3>2. /\ \/ FateOf(h) = "open" /\ FateOf(h)' = "dropped"
             \/ FateOf(h) = "partial" /\ FateOf(h)' = "partial"
             \/ FateOf(h) = "applied" /\ FateOf(h)' = "applied"
          /\ \/ AnswerOf(h)' = "error"
             \/ AnswerOf(h)' = "ok" /\ FateOf(h)' = "applied"
      BY <3>1 DEF FateOf, AnswerOf, Answered
    <3>3. FateOf(h)' \in Service!FateAfter(h, FateOf(h)) /\ FateOf(h)' # "none"
      BY <3>2 DEF Service!FateAfter
    <3> QED
      BY <2>2, <2>3, <3>2, <3>3, OneCallMoves
  <2> QED
    BY <1>2, <2>4, <2>5, <2>6
<1>3. CASE (\E r \in Readers : Read(r) \/ StartRead(r) \/ EndRead(r))
             \/ UNCHANGED vars
  <2>1. pc' = pc /\ thread' = thread
    BY <1>3 DEF Read, StartRead, EndRead, vars
  <2> QED
    BY <2>1 DEF Service!svars, FateOf, AnswerOf
<1>4. CASE Crash
  <2> DEFINE fate   == [d \in Calls |-> FateOf(d)]
             answer == [d \in Calls |-> AnswerOf(d)]
  <2>1. \A c \in Calls :
          /\ FateOf(c)' \in {"none", "partial", "applied", "dropped"}
          /\ FateOf(c)' \in Service!FateAfter(c, FateOf(c))
          /\ FateOf(c) \in {"none", "partial"} => FateOf(c)' = FateOf(c)
          /\ AnswerOf(c)' = IF FateOf(c) # "none" /\ AnswerOf(c) = "none"
                              THEN "lost" ELSE AnswerOf(c)
    BY <1>4 DEF Crash, WriteGateInv, TypeOK, GateDiscipline, Busy, Calls, Answered,
                FateOf, AnswerOf, Service!FateAfter
  <2>2. fate' \in [Calls -> {"none", "partial", "applied", "dropped"}]
    BY <2>1
  <2>3. answer' = [c \in Calls |->
                    IF fate[c] # "none" /\ answer[c] = "none" THEN "lost"
                                                              ELSE answer[c]]
    BY <2>1
  <2>4. \A c \in Calls : fate'[c] \in Service!FateAfter(c, fate[c])
                         /\ (fate[c] \in {"none", "partial"} => fate'[c] = fate[c])
    BY <2>1
  <2>5. Service!Crash
    BY <2>2, <2>3, <2>4 DEF Service!Crash
  <2> QED
    BY <2>5 DEF Service!Next
<1> QED
  BY <1>1, <1>2, <1>3, <1>4 DEF Next

\* The write gate implements the service it promises: a landed write stays, a
\* dropped one never lands, only a query of several updates is left half done,
\* and nobody is told "ok" of anything but a write that is wholly stored.
THEOREM GateImplementsService == Spec => ImplementsWriteService
<1>1. Init => Service!Init
  BY DEF Init, Service!Init, FateOf, AnswerOf, Answered
<1>2. WriteGateInv /\ [Next]_vars => [Service!Next]_(Service!svars)
  BY GateStepRefines
<1> QED
  BY <1>1, <1>2, GateSafety, PTL DEF Spec, ImplementsWriteService, Service!Spec

-----------------------------------------------------------------------------
(***************************************************************************)
(* The refinement of WriteQueue.                                           *)
(***************************************************************************)

\* At most one coroutine awaits its thread, and it holds the lock.
LEMMA OneAwaits ==
  ASSUME WriteGateInv
  PROVE  /\ \A v, w \in Writers : pc[v] = "awaiting" /\ pc[w] = "awaiting" => v = w
         /\ \A w \in Writers : pc[w] = "awaiting" => Queue!Holds(w)
         /\ \A w \in Writers : Queue!Holds(w) /\ pc[w] # "awaiting" =>
              \A v \in Writers : pc[v] # "awaiting"
<1>1. \A v, w \in Writers : pc[v] = "awaiting" /\ pc[w] = "awaiting" => v = w
  BY DEF WriteGateInv, GateDiscipline
<1>2. \A w \in Writers : pc[w] = "awaiting" => Queue!Holds(w)
  BY DEF Queue!Holds, Inside, Ahead
<1>3. ASSUME NEW w \in Writers, Queue!Holds(w), pc[w] # "awaiting",
             NEW v \in Writers, pc[v] = "awaiting"
      PROVE  FALSE
  BY <1>3 DEF Queue!Holds, Inside, Ahead
<1> QED
  BY <1>1, <1>2, <1>3

\* A coroutine that leaves execute_write leaves WriteQueue.
LEMMA LeavingMoves ==
  ASSUME WriteGateInv, NEW w \in Writers, w \in Inside, pc'[w] \notin {"waiting", "awaiting"},
         \A v \in Writers \ {w} : pc'[v] = pc[v] /\ before'[v] = before[v] \ {w}
  PROVE  Queue!Moves(w, FALSE)
<1>1. Inside' = Inside \ {w}
  BY DEF Inside
<1>2. Ahead(w)' = {}
  BY DEF Ahead
<1>3. ASSUME NEW v \in Writers \ {w}
      PROVE  Ahead(v)' = Ahead(v) \ {w}
  <2>1. {u \in Writers : pc'[u] = "awaiting"} = {u \in Writers : pc[u] = "awaiting"} \ {w}
    OBVIOUS
  <2> QED
    BY <2>1 DEF Ahead
<1> HIDE DEF Ahead, Inside
<1> QED
  BY <1>1, <1>2, <1>3 DEF Queue!Moves

\* The gate's steps that WriteQueue does not see.
LEMMA UnseenStep ==
  ASSUME Inside' = Inside, \A w \in Writers : Ahead(w)' = Ahead(w),
         Landed' <=> Landed, Late' = Late
  PROVE  UNCHANGED Queue!queue
<1>1. [w \in Writers |-> Ahead(w)]' = [w \in Writers |-> Ahead(w)]
  OBVIOUS
<1>2. Landed' = Landed
  BY DEF Landed
<1> QED
  BY <1>1, <1>2 DEF Queue!queue

\* run() is called: the call asks for the lock.
LEMMA CallAsks ==
  ASSUME WriteGateInv, NEW w \in Writers, CallTakesLock(w) \/ CallWaits(w)
  PROVE  Queue!Asks(w)
<1>1. /\ pc \in [Calls -> {"idle", "waiting", "awaiting", "updating"} \cup Answered] /\ w \in Calls
      /\ thread \in [Calls -> {"none", "queued", "running", "part", "committed", "failed"}]
      /\ Writers \subseteq Calls /\ before \in [Writers -> SUBSET Writers]
  BY DEF WriteGateInv, TypeOK, Calls
<1>2. /\ pc[w] = "idle" /\ pc'[w] \in {"waiting", "awaiting"}
      /\ \A v \in Writers \ {w} : pc'[v] = pc[v] /\ thread'[v] = thread[v]
      /\ thread'[w] \in {"none", "queued"} /\ thread[w] = "none"
  BY <1>1 DEF CallTakesLock, CallWaits, Submit, WriteGateInv, GateDiscipline
<1>3. \A v \in Writers \ {w} : before'[v] = before[v]
  <2>1. \A v \in Writers : w \notin before[v]
    BY <1>2 DEF WriteGateInv, WaitersInOrder, Waiting
  <2>2. CASE CallTakesLock(w)
    BY <1>1, <2>1, <2>2 DEF CallTakesLock, Submit, NoLongerWaits
  <2>3. CASE CallWaits(w)
    BY <1>1, <2>3 DEF CallWaits
  <2> QED
    BY <2>2, <2>3
<1>4. w \notin Inside /\ Inside' = Inside \cup {w}
  BY <1>2 DEF Inside
<1>5. Ahead(w)' = Inside
  <2>1. CASE CallTakesLock(w)
    <3>1. pc'[w] = "awaiting" /\ Inside = {}
      BY <1>1, <2>1, WriteGateAssumption
        DEF CallTakesLock, Submit, Contended, Waiting, Inside, WriteGateInv, GateDiscipline
    <3> QED
      BY <3>1 DEF Ahead
  <2>2. CASE CallWaits(w)
    <3>1. pc'[w] = "waiting" /\ before'[w] = Waiting
      BY <1>1, <2>2 DEF CallWaits
    <3>2. {v \in Writers : pc'[v] = "awaiting"} = {v \in Writers : pc[v] = "awaiting"}
      BY <1>2, <3>1
    <3> QED
      BY <3>1, <3>2 DEF Ahead, Inside, Waiting
  <2> QED
    BY <2>1, <2>2
<1>6. ASSUME NEW v \in Writers \ {w}
      PROVE  Ahead(v)' = Ahead(v) /\ w \notin Ahead(v)
  <2>1. w \notin Ahead(v)
    BY <1>2 DEF Ahead, WriteGateInv, WaitersInOrder, Waiting
  <2>2. CASE pc[v] = "waiting"
    <3>1. pc'[w] = "waiting"
      BY <1>1, <2>2 DEF CallTakesLock, CallWaits, Contended, Waiting
    <3>2. {u \in Writers : pc'[u] = "awaiting"} = {u \in Writers : pc[u] = "awaiting"}
      BY <1>2, <3>1
    <3> QED
      BY <1>2, <1>3, <2>1, <2>2, <3>2 DEF Ahead
  <2>3. CASE pc[v] # "waiting"
    BY <1>2, <2>1, <2>3 DEF Ahead
  <2> QED
    BY <2>2, <2>3
<1>7. Landed' = Landed /\ Late' = Late
  BY <1>2 DEF Landed, Late
<1> HIDE DEF Ahead, Inside, Landed, Late
<1>8. Queue!Moves(w, TRUE)
  BY <1>4, <1>5, <1>6 DEF Queue!Moves
<1> QED
  BY <1>4, <1>7, <1>8 DEF Queue!Asks

\* A waiter gets the lock: those behind it stay behind it.
LEMMA TakingTheLockIsUnseen ==
  ASSUME WriteGateInv, NEW w \in Writers, TakeLock(w)
  PROVE  UNCHANGED Queue!queue
<1>1. /\ pc \in [Calls -> {"idle", "waiting", "awaiting", "updating"} \cup Answered] /\ w \in Calls
      /\ thread \in [Calls -> {"none", "queued", "running", "part", "committed", "failed"}]
      /\ Writers \subseteq Calls /\ before \in [Writers -> SUBSET Writers]
  BY DEF WriteGateInv, TypeOK, Calls
<1>2. /\ pc[w] = "waiting" /\ pc'[w] = "awaiting" /\ thread'[w] = "queued" /\ before[w] = {}
      /\ \A v \in Writers \ {w} : /\ pc'[v] = pc[v] /\ thread'[v] = thread[v]
                                  /\ before'[v] = before[v] \ {w}
  BY <1>1 DEF TakeLock, Submit, NoLongerWaits
<1>3. \A v \in Writers : pc[v] # "awaiting"
  BY WriteGateAssumption DEF TakeLock, WriteGateInv, GateDiscipline
<1>4. Inside' = Inside
  BY <1>2 DEF Inside
<1>5. Ahead(w)' = Ahead(w)
  BY <1>2, <1>3 DEF Ahead
<1>6. ASSUME NEW v \in Writers \ {w}
      PROVE  Ahead(v)' = Ahead(v)
  <2>1. CASE pc[v] = "waiting"
    <3>1. w \in before[v]
      BY <1>2, <2>1 DEF WriteGateInv, WaitersInOrder, Waiting
    <3>2. {u \in Writers : pc'[u] = "awaiting"} = {w} /\ {u \in Writers : pc[u] = "awaiting"} = {}
      BY <1>2, <1>3
    <3> QED
      BY <1>2, <2>1, <3>1, <3>2 DEF Ahead
  <2>2. CASE pc[v] # "waiting"
    BY <1>2, <2>2 DEF Ahead
  <2> QED
    BY <2>1, <2>2
<1>7. ~ Landed /\ ~ Landed'
  BY <1>2, <1>3 DEF Landed
<1>8. Late' = Late
  BY <1>2 DEF Late
<1> QED
  BY <1>4, <1>5, <1>6, <1>7, <1>8, UnseenStep

\* The pool's steps: a write starts; it commits for the call that awaits it, or
\* after the timeout gave it up; or it fails.
LEMMA PoolStepsQueue ==
  ASSUME WriteGateInv, NEW w \in Writers, StartWrite(w) \/ EndWrite(w)
  PROVE  [Queue!QueueNext]_(Queue!queue)
<1>1. /\ pc' = pc /\ before' = before /\ w \in Calls /\ Writers \subseteq Calls
      /\ thread \in [Calls -> {"none", "queued", "running", "part", "committed", "failed"}]
      /\ \A v \in Writers \ {w} : thread'[v] = thread[v]
      /\ \/ thread[w] = "queued" /\ thread'[w] = "running"
         \/ thread[w] = "running" /\ thread'[w] \in {"committed", "failed"}
  BY DEF WriteGateInv, TypeOK, Calls, StartWrite, EndWrite
<1>2. /\ Inside' = Inside /\ \A v \in Writers : Ahead(v)' = Ahead(v)
      /\ [v \in Writers |-> Ahead(v)]' = [v \in Writers |-> Ahead(v)]
  BY <1>1 DEF Inside, Ahead
<1>3. CASE thread[w] = "queued"
  <2>1. pc[w] = "awaiting"
    BY <1>1, <1>3 DEF WriteGateInv, GateDiscipline
  <2>2. (Landed' <=> Landed) /\ Late' = Late
    BY <1>1, <1>3, <2>1 DEF Landed, Late
  <2> QED
    BY <1>2, <2>2, UnseenStep
<1>4. CASE thread[w] = "running" /\ thread'[w] = "failed"
  <2>1. (Landed' <=> Landed) /\ Late' = Late
    BY <1>1, <1>4 DEF Landed, Late
  <2> QED
    BY <1>2, <2>1, UnseenStep
<1>5. CASE thread[w] = "running" /\ thread'[w] = "committed" /\ pc[w] = "awaiting"
  <2>1. Queue!Holds(w) /\ \A v \in Writers : pc[v] = "awaiting" => v = w
    BY <1>5, OneAwaits
  <2>2. ~ Landed /\ Landed' /\ Late' = Late
    BY <1>1, <1>5, <2>1 DEF Landed, Late
  <2>3. Landed' = TRUE
    BY <2>2 DEF Landed
  <2> HIDE DEF Inside, Ahead, Landed, Late
  <2>4. Queue!Lands(w)
    BY <1>2, <2>1, <2>2, <2>3 DEF Queue!Lands
  <2> QED
    BY <2>4 DEF Queue!QueueNext
<1>6. CASE thread[w] = "running" /\ thread'[w] = "committed" /\ pc[w] # "awaiting"
  <2>1. pc[w] = "error" /\ w \in Late /\ Late' = Late \ {w}
    BY <1>1, <1>6 DEF WriteGateInv, GateDiscipline, Busy, Late
  <2>2. Landed' <=> Landed
    BY <1>1, <1>6 DEF Landed
  <2>3. Landed' = Landed
    BY <2>2 DEF Landed
  <2> HIDE DEF Inside, Ahead, Landed, Late
  <2>4. Queue!LandsLate(w)
    BY <1>2, <2>1, <2>3 DEF Queue!LandsLate
  <2> QED
    BY <2>1, <2>4 DEF Queue!QueueNext
<1> QED
  BY <1>1, <1>3, <1>4, <1>5, <1>6

\* The call is answered: its awaited write returned, or raised.
LEMMA AnswerStepsQueue ==
  ASSUME WriteGateInv, NEW w \in Writers, Return(w) \/ Timeout(w)
  PROVE  Queue!QueueNext
<1>1. /\ pc \in [Calls -> {"idle", "waiting", "awaiting", "updating"} \cup Answered] /\ w \in Calls
      /\ thread \in [Calls -> {"none", "queued", "running", "part", "committed", "failed"}]
      /\ Writers \subseteq Calls /\ before \in [Writers -> SUBSET Writers]
  BY DEF WriteGateInv, TypeOK, Calls
<1>2. /\ pc[w] \in {"waiting", "awaiting"} /\ pc'[w] \in {"ok", "error"}
      /\ \A v \in Writers \ {w} : pc'[v] = pc[v] /\ thread'[v] = thread[v]
  BY <1>1 DEF Return, AnswersCommitted, Timeout
<1>3. \A v \in Writers \ {w} : before'[v] = before[v] \ {w}
  <2>1. CASE Return(w)
    <3>1. pc[w] = "awaiting" /\ before' = before
      BY <2>1 DEF Return
    <3>2. \A v \in Writers : w \notin before[v]
      BY <3>1 DEF WriteGateInv, WaitersInOrder, Waiting
    <3> QED
      BY <3>1, <3>2
  <2>2. CASE Timeout(w)
    BY <2>2 DEF Timeout, NoLongerWaits
  <2> QED
    BY <2>1, <2>2
<1>4. w \in Inside /\ Queue!Moves(w, FALSE)
  <2>1. w \in Inside
    BY <1>2 DEF Inside
  <2> QED
    BY <1>2, <1>3, <2>1, LeavingMoves
<1>5. Landed' <=> (Landed /\ ~ Queue!Holds(w))
  <2>1. CASE pc[w] = "awaiting"
    <3>1. Queue!Holds(w) /\ ~ Landed'
      BY <1>2, <2>1, OneAwaits DEF Landed
    <3> QED
      BY <3>1
  <2>2. CASE pc[w] = "waiting"
    <3>1. Landed' <=> Landed
      BY <1>2, <2>2 DEF Landed
    <3>2. Landed => ~ Queue!Holds(w)
      BY <2>2, OneAwaits DEF Landed
    <3> QED
      BY <3>1, <3>2
  <2> QED
    BY <1>2, <2>1, <2>2
<1>6. CASE Return(w) /\ pc'[w] = "ok"
  <2>1. pc[w] = "awaiting" /\ thread[w] = "committed" /\ thread'[w] = "committed"
    BY <1>1, <1>6 DEF Return, AnswersCommitted
  <2>2. Queue!Holds(w) /\ Landed /\ ~ Landed' /\ Late' = Late
    BY <1>2, <1>5, <2>1, OneAwaits DEF Landed, Late
  <2>3. Landed' = FALSE
    BY <2>2 DEF Landed
  <2> HIDE DEF Inside, Ahead, Landed, Late
  <2>4. Queue!Returns(w)
    BY <2>2, <2>3 DEF Queue!Returns
  <2> QED
    BY <1>4, <2>4 DEF Queue!QueueNext
<1>7. CASE pc'[w] = "error"
  <2>1. \/ Late' = Late
        \/ Late' = Late \cup {w} /\ Queue!Holds(w) /\ ~ Landed
    <3>1. CASE thread'[w] \in {"running", "failed"}
      <4>1. pc[w] = "awaiting" /\ thread[w] \in {"running", "failed"}
        BY <1>1, <1>2, <1>7, <3>1 DEF Return, AnswersCommitted, Timeout, WriteGateInv, GateDiscipline
      <4>2. Queue!Holds(w) /\ ~ Landed
        BY <4>1, OneAwaits DEF Landed
      <4>3. Late' = Late \cup {w}
        BY <1>2, <1>7, <3>1 DEF Late
      <4> QED
        BY <4>2, <4>3
    <3>2. CASE thread'[w] \notin {"running", "failed"}
      <4>1. Late' = Late
        BY <1>2, <1>7, <3>2 DEF Late
      <4> QED
        BY <4>1
    <3> QED
      BY <3>1, <3>2
  <2>2. Landed' = (Landed /\ ~ Queue!Holds(w))
    BY <1>5 DEF Landed
  <2> HIDE DEF Inside, Ahead, Landed, Late
  <2>3. Queue!Raises(w, w)
    BY <1>4, <2>1, <2>2 DEF Queue!Raises
  <2> QED
    BY <1>4, <2>3 DEF Queue!QueueNext
<1>8. Timeout(w) => pc'[w] = "error"
  BY <1>1 DEF Timeout
<1> QED
  BY <1>2, <1>6, <1>7, <1>8

LEMMA CrashLosesQueue ==
  ASSUME WriteGateInv, Crash
  PROVE  Queue!QueueLost
<1>1. \A w \in Writers : /\ pc'[w] \notin {"waiting", "awaiting"}
                        /\ thread'[w] \notin {"running", "failed"}
  BY DEF Crash, Calls, Answered
<1>2. Inside' = {} /\ (\A w \in Writers : Ahead(w)' = {}) /\ ~ Landed' /\ Late' = {}
  BY <1>1 DEF Inside, Ahead, Landed, Late
<1>3. Landed' = FALSE
  BY <1>2 DEF Landed
<1> HIDE DEF Inside, Ahead, Landed, Late
<1> QED
  BY <1>2, <1>3 DEF Queue!QueueLost

\* Every step of the gate is a step of WriteQueue or leaves it unchanged.
LEMMA GateStepQueues ==
  ASSUME WriteGateInv, [Next]_vars
  PROVE  [Queue!QueueNext]_(Queue!queue)
<1>1. ASSUME NEW w \in Writers, CallTakesLock(w) \/ CallWaits(w)
      PROVE  Queue!QueueNext
  BY <1>1, CallAsks DEF Queue!QueueNext
<1>2. ASSUME \A w \in Writers : pc'[w] = pc[w] /\ thread'[w] = thread[w], before' = before
      PROVE  UNCHANGED Queue!queue
  <2>1. /\ Inside' = Inside /\ Late' = Late /\ (Landed' <=> Landed)
        /\ \A w \in Writers : Ahead(w)' = Ahead(w)
    BY <1>2 DEF Inside, Ahead, Landed, Late
  <2> QED
    BY <2>1, UnseenStep
<1>3. ASSUME NEW h \in Handlers, HandlerCall(h) \/ HandlerUpdate(h) \/ HandlerReturn(h)
      PROVE  UNCHANGED Queue!queue
  BY <1>2, <1>3, WriteGateAssumption
    DEF HandlerCall, HandlerUpdate, HandlerReturn, AnswersCommitted, WriteGateInv,
        TypeOK, Calls
<1>4. ASSUME NEW r \in Readers, Read(r) \/ StartRead(r) \/ EndRead(r)
      PROVE  UNCHANGED Queue!queue
  BY <1>2, <1>4 DEF Read, StartRead, EndRead
<1>5. CASE Crash
  BY <1>5, CrashLosesQueue DEF Queue!QueueNext
<1>6. CASE UNCHANGED vars
  BY <1>2, <1>6 DEF vars
<1> QED
  BY <1>1, <1>3, <1>4, <1>5, <1>6, TakingTheLockIsUnseen, PoolStepsQueue, AnswerStepsQueue
    DEF Next

\* What the modules of the tools that write take for granted of the write gate
\* is so (GraphGateway.run, OxigraphClient.execute_write).
THEOREM GateImplementsQueue == Spec => ImplementsWriteQueue
<1>1. Init => Queue!QueueInit
  BY DEF Init, Queue!QueueInit, Inside, Ahead, Landed, Late, Calls
<1>2. WriteGateInv /\ [Next]_vars => [Queue!QueueNext]_(Queue!queue)
  BY GateStepQueues
<1> QED
  BY <1>1, <1>2, GateSafety, PTL DEF Spec, ImplementsWriteQueue, Queue!QueueSpec
=============================================================================
