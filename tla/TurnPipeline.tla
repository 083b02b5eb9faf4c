----------------------------- MODULE TurnPipeline -----------------------------
(***************************************************************************)
(* The way of a turn through the daemon: notify_turn (module TurnCapture)  *)
(* stores it and puts it in the Loop's queue, the workers of module        *)
(* Consolidation take it from there.  The two meet in one place: the step  *)
(* of notify_turn that chains the message also puts it in the queue.  One  *)
(* process holds both, so it ends for both.                                *)
(*                                                                         *)
(* No specification uses the definitions that state a plausible slip in    *)
(* the code of the definition right after them (HandOverWaiting before     *)
(* HandOver).                                                              *)
(***************************************************************************)
EXTENDS TurnCapture, Consolidation

\* What the workers are given is turns.
ASSUME TurnPipelineAssumption == Items = Calls

pipelineVars == <<vars, workerVars>>

PipelineInit == Init /\ WorkersInit

\* A step of notify_turn that puts nothing in the Loop's queue.
CaptureStep(t) ==
  /\ Step(t)
  /\ enqueued' = enqueued
  /\ UNCHANGED workerVars

\* The step that does.
HandOverUnlessPushing(t) ==
  /\ Linked(t)
  /\ enqueued' = Append(enqueued, t)
  /\ IF pc'[t] = "answered" THEN Put(t) ELSE UNCHANGED workerVars
HandOverWaiting(t) ==
  /\ Linked(t)
  /\ enqueued' = Append(enqueued, t)
  /\ loopQueue = <<>>
  /\ Put(t)
HandOver(t) ==
  /\ Linked(t)
  /\ enqueued' = Append(enqueued, t)
  /\ Put(t)

Commits == (\E t \in Calls : Land(t)) /\ UNCHANGED workerVars

CommitsLate == (\E w \in late : LandLate(w)) /\ UNCHANGED workerVars

Consolidates == (LoopStep \/ ObserverStep) /\ UNCHANGED vars

ProcessEnds == Crash /\ WorkersEnd

PipelineNext ==
  \/ \E t \in Calls : CaptureStep(t) \/ HandOver(t)
  \/ Commits
  \/ CommitsLate
  \/ Consolidates
  \/ ProcessEnds

PipelineSpec == PipelineInit /\ [][PipelineNext]_pipelineVars

\* A call that has begun goes on, and a statement that was given to a thread
\* commits or is given up by the timeout.  Of the workers nothing is assumed.
FairPipeline ==
  /\ PipelineSpec
  /\ \A t \in Calls :
       WF_pipelineVars((pc[t] # "idle" /\ CaptureStep(t)) \/ HandOver(t))
  /\ WF_pipelineVars(Commits)

-----------------------------------------------------------------------------
\* A client whose turns are all answered and that then reads
\* consolidation_pending = 0 finds each of them settled: a turn is in the
\* queue before its call answers.
AnsweredAreSettled ==
  Pending = 0 =>
    \A t \in Calls : pc[t] = "answered" => Settled(t) \/ t \in lost

\* The Loop takes turns up in the order FOLLOWED_BY gives them, also when
\* they overlap or fail: a message that others can be chained to has been put
\* in the queue, or its call has failed, before another finds it.
LoopFollowsTheChain ==
  \A e \in followedBy :
    e[2] = inLoop \/ loopEnd[e[2]] # "none" => ~ \E n \in 1 .. Len(loopQueue) : loopQueue[n] = e[1]

\* A Loop that does not get on, a language model that does not answer, never
\* holds up a call of notify_turn.
CaptureNeverWaitsForTheLoop ==
  \A t \in Calls : (pc[t] # "idle") ~> (pc[t] \in Ended)
=============================================================================
