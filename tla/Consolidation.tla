----------------------------- MODULE Consolidation -----------------------------
(***************************************************************************)
(* The two background workers of BrainDaemon (campy/brain_daemon.py) that  *)
(* consolidate stored turns: _loop_worker runs the Gated Consolidation     *)
(* Loop on the items of an unbounded queue; _observation_worker extracts   *)
(* Observations from the user turns the Loop is done with, which reach it  *)
(* through a bounded queue that drops what does not fit.  Both are         *)
(* coroutines of one event loop, so they interleave at their awaits.       *)
(*                                                                         *)
(* A caller that wants to probe a settled graph polls context_status until *)
(* consolidation_pending is 0; the queues' _unfinished_tasks counters are  *)
(* what it sees.                                                           *)
(*                                                                         *)
(* No specification uses the definitions that state a plausible slip in    *)
(* the code of the definition right after them (LoopRaisesOpen before      *)
(* LoopRaises).                                                            *)
(***************************************************************************)
EXTENDS Naturals, Sequences

CONSTANTS
  Items,           \* what is ever put in the Loop's queue
  Kind,            \* "user" and "assistant" turns, "extract"s of documents
  ObsMax,          \* [observations] queue_max
  ObservationsOn,  \* [observations] enabled
  SideBranch,      \* [loop] tracker_side_branch
  NoItem           \* None in inLoop and inObs

ASSUME ConsolidationAssumption ==
  /\ Kind \in [Items -> {"user", "assistant", "extract"}]
  /\ ObsMax \in Nat \ {0}
  /\ ObservationsOn \in BOOLEAN
  /\ SideBranch \in BOOLEAN
  /\ NoItem \notin Items

VARIABLES
  loopQueue,  \* _loop_queue
  loopOpen,   \* _loop_queue._unfinished_tasks
  inLoop,     \* the item _loop_worker has taken
  saving,     \* ... run_loop is over, and the loop summary is being written
  obsQueue,   \* _observation_queue
  obsOpen,    \* _observation_queue._unfinished_tasks
  inObs,      \* the item _observation_worker has taken
  puts,       \* the items put so far
  loopEnd,    \* how run_loop ended for each item
  obsEnd,     \* how the extraction of each item's Observations ended
  lost        \* the items in memory when the process ended

loopVars   == <<loopQueue, loopOpen, inLoop, saving, puts, loopEnd>>
obsVars    == <<obsQueue, obsOpen, inObs, obsEnd>>
workerVars == <<loopVars, obsVars, lost>>

WorkersInit ==
  /\ loopQueue = <<>> /\ loopOpen = 0 /\ inLoop = NoItem /\ saving = FALSE
  /\ obsQueue = <<>> /\ obsOpen = 0 /\ inObs = NoItem
  /\ puts = {} /\ lost = {}
  /\ loopEnd = [i \in Items |-> "none"]
  /\ obsEnd = [i \in Items |-> "none"]

\* consolidation_pending, as context_status reports it.
PendingOfLoop == loopOpen
Pending == loopOpen + obsOpen

-----------------------------------------------------------------------------
\* A producer puts an item: notify_turn a turn, ingest_document an extract.
Put(i) ==
  /\ i \notin puts
  /\ puts' = puts \cup {i}
  /\ loopQueue' = Append(loopQueue, i)
  /\ loopOpen' = loopOpen + 1
  /\ UNCHANGED <<inLoop, saving, loopEnd, obsVars, lost>>

LoopTake ==
  /\ inLoop = NoItem /\ loopQueue # <<>>
  /\ inLoop' = Head(loopQueue)
  /\ loopQueue' = Tail(loopQueue)
  /\ UNCHANGED <<loopOpen, saving, puts, loopEnd, obsVars, lost>>

\* _enqueue_observation: user turns only, and never a wait.
EnqueueObservationWaiting(i) ==
  IF ObservationsOn /\ Kind[i] = "user"
  THEN /\ Len(obsQueue) < ObsMax
       /\ obsQueue' = Append(obsQueue, i)
       /\ obsOpen' = obsOpen + 1
       /\ UNCHANGED <<inObs, obsEnd>>
  ELSE UNCHANGED obsVars
EnqueueObservation(i) ==
  IF ObservationsOn /\ Kind[i] = "user"
  THEN \/ /\ Len(obsQueue) < ObsMax
          /\ obsQueue' = Append(obsQueue, i)
          /\ obsOpen' = obsOpen + 1
          /\ UNCHANGED <<inObs, obsEnd>>
       \/ /\ Len(obsQueue) >= ObsMax
          /\ obsEnd' = [obsEnd EXCEPT ![i] = "dropped"]
          /\ UNCHANGED <<obsQueue, obsOpen, inObs>>
  ELSE UNCHANGED obsVars

TaskDone ==
  /\ inLoop' = NoItem
  /\ loopOpen' = loopOpen - 1

\* run_loop returns.  A turn's summary is then written to its session, an
\* awaited write; an extract belongs to no session.
LoopReturns ==
  /\ inLoop # NoItem /\ ~ saving
  /\ loopEnd' = [loopEnd EXCEPT ![inLoop] = "done"]
  /\ EnqueueObservation(inLoop)
  /\ \/ /\ Kind[inLoop] # "extract"
        /\ saving' = TRUE
        /\ UNCHANGED <<inLoop, loopOpen>>
     \/ /\ Kind[inLoop] = "extract"
        /\ TaskDone
        /\ UNCHANGED saving
  /\ UNCHANGED <<loopQueue, puts, lost>>

\* run_loop raises: the item is reported and dropped, except that with
\* tracker_side_branch its Observations are extracted all the same.
LoopRaisesOpen ==
  /\ inLoop # NoItem /\ ~ saving
  /\ loopEnd' = [loopEnd EXCEPT ![inLoop] = "failed"]
  /\ IF SideBranch THEN EnqueueObservation(inLoop) ELSE UNCHANGED obsVars
  /\ inLoop' = NoItem
  /\ UNCHANGED <<loopOpen, loopQueue, saving, puts, lost>>
LoopRaises ==
  /\ inLoop # NoItem /\ ~ saving
  /\ loopEnd' = [loopEnd EXCEPT ![inLoop] = "failed"]
  /\ IF SideBranch THEN EnqueueObservation(inLoop) ELSE UNCHANGED obsVars
  /\ TaskDone
  /\ UNCHANGED <<loopQueue, saving, puts, lost>>

\* The summary is written, or the failure to write it is swallowed.
SummarySaved ==
  /\ saving
  /\ saving' = FALSE
  /\ TaskDone
  /\ UNCHANGED <<loopQueue, puts, loopEnd, obsVars, lost>>

ObsTake ==
  /\ inObs = NoItem /\ obsQueue # <<>>
  /\ inObs' = Head(obsQueue)
  /\ obsQueue' = Tail(obsQueue)
  /\ UNCHANGED <<obsOpen, obsEnd, loopVars, lost>>

\* process_turn returns, or raises and is reported.
ObsEnds(how) ==
  /\ inObs # NoItem
  /\ obsEnd' = [obsEnd EXCEPT ![inObs] = how]
  /\ inObs' = NoItem
  /\ obsOpen' = obsOpen - 1
  /\ UNCHANGED <<obsQueue, loopVars, lost>>

\* Observations are owed for a user turn that the Loop got through, and with
\* tracker_side_branch also for one it failed on.
Owed(i) ==
  /\ ObservationsOn
  /\ Kind[i] = "user"
  /\ loopEnd[i] = "done" \/ (SideBranch /\ loopEnd[i] = "failed")

Settled(i) == loopEnd[i] # "none" /\ (Owed(i) => obsEnd[i] # "none")

\* The process ends and starts again: the queues were only in memory.
WorkersEnd ==
  /\ loopQueue' = <<>> /\ loopOpen' = 0 /\ inLoop' = NoItem /\ saving' = FALSE
  /\ obsQueue' = <<>> /\ obsOpen' = 0 /\ inObs' = NoItem
  /\ lost' = lost \cup {i \in puts : ~ Settled(i)}
  /\ UNCHANGED <<puts, loopEnd, obsEnd>>

LoopStep == LoopTake \/ LoopReturns \/ LoopRaises \/ SummarySaved
ObserverStep == ObsTake \/ ObsEnds("done") \/ ObsEnds("failed")

WorkersNext ==
  \/ \E i \in Items : Put(i)
  \/ LoopStep
  \/ ObserverStep
  \/ WorkersEnd

WorkersSpec == WorkersInit /\ [][WorkersNext]_workerVars

\* The Loop's worker goes on: the language model's client and the writes have
\* timeouts.  Of the Observation worker nothing is assumed.
FairWorkers == WorkersSpec /\ WF_workerVars(LoopStep)
-----------------------------------------------------------------------------
WorkersTyped ==
  /\ loopQueue \in Seq(Items) /\ obsQueue \in Seq(Items)
  /\ Len(obsQueue) <= ObsMax
  /\ loopOpen \in Nat /\ obsOpen \in Nat
  /\ inLoop \in Items \cup {NoItem} /\ inObs \in Items \cup {NoItem}
  /\ saving \in BOOLEAN
  /\ puts \subseteq Items /\ lost \subseteq Items
  /\ loopEnd \in [Items -> {"none", "done", "failed"}]
  /\ obsEnd \in [Items -> {"none", "done", "failed", "dropped"}]

One(item) == IF item = NoItem THEN 0 ELSE 1

\* "queued + in-flight": what the counters count.
CountsAreExact ==
  /\ loopOpen = Len(loopQueue) + One(inLoop)
  /\ obsOpen = Len(obsQueue) + One(inObs)
  /\ saving => inLoop # NoItem

InQueue(q, i) == \E n \in 1 .. Len(q) : q[n] = i

\* An item that is not settled is where a worker will find it.
NoneStrayed ==
  /\ \A i \in Items : i = inLoop \/ InQueue(loopQueue, i) => i \in puts
  /\ \A i \in Items \ puts : loopEnd[i] = "none"
  /\ saving => loopEnd[inLoop] # "none"
  /\ \A i \in puts \ lost :
       /\ loopEnd[i] = "none" => i = inLoop \/ InQueue(loopQueue, i)
       /\ Owed(i) /\ obsEnd[i] = "none" => i = inObs \/ InQueue(obsQueue, i)

\* The inductive invariant: however the two workers interleave, whatever
\* fails, the counters count what is queued or in flight, and an item that
\* is not settled is one of those.
ConsolidationInv == WorkersTyped /\ CountsAreExact /\ NoneStrayed

\* A caller that reads consolidation_pending = 0 may probe: every turn put
\* before, and not lost in a crash, went through the Loop, and through the
\* Observation worker if it was owed that.  The sum never dips to zero while
\* a turn goes from one queue to the other.
PollIsHonest ==
  Pending = 0 => \A i \in puts \ lost : Settled(i)

\* A caller that polls is not left waiting, as long as the Observation worker
\* goes on too: no failure leaves a counter up (B434's symptom).
SettleWaitEnds ==
  WF_workerVars(ObserverStep) => (Pending > 0 ~> Pending = 0)

\* An Observation worker that has stopped for good (a language model that
\* does not answer) never holds up the Loop: a full queue drops the turn.
LoopNeverWaitsForObservations ==
  \A i \in Items : (i \in puts) ~> (loopEnd[i] # "none" \/ i \in lost)
=============================================================================
