------------------------------ MODULE TurnCapture ------------------------------
(***************************************************************************)
(* notify_turn (campy/brain/thalamus/tools/capture.py), the handler that   *)
(* stores a conversation turn, for a turn with a session and a git         *)
(* repository.  It is a coroutine: turns of one session that arrive on     *)
(* several connections interleave at every awaited write.                  *)
(*                                                                         *)
(* Of current_truth (thalamus/tools/retrieval.py) there is what it does to *)
(* the same session in the same way: it adds the tokens of what it found   *)
(* to the estimate.                                                        *)
(*                                                                         *)
(* An awaited write goes through the write gate (module WriteQueue); reads *)
(* through run_sync, and the FOLLOWED_BY edge, are done on the event loop  *)
(* in the step in which a write returns.  The writes kept are the ones     *)
(* other turns can see; the rest (sources, turn dates, the warm frontier,  *)
(* passive plans) only let time pass between two of those.                 *)
(*                                                                         *)
(* No specification uses the definitions that state a plausible slip in    *)
(* the code of the definition right after them (PreviousOldest before      *)
(* Previous).                                                              *)
(***************************************************************************)
EXTENDS Naturals, FiniteSets, FiniteSetsExt, Sequences, WriteQueue

\* Calls are the calls of notify_turn, each of which stores one message, and
\* those of current_truth.
CONSTANTS
  Retrievals, \* the calls of current_truth that find something
  Sessions,
  SessionOf,  \* the session of each call
  Keyed,      \* the turns that carry the one source_memory_key there is
  Tokens,     \* estimate_tokens of a turn's text, of what a retrieval finds
  Window,     \* [proactive_push] min_turns_between_pushes
  MaxFailures,  \* bound: raised exceptions and crashes in a behaviour
  None

ASSUME TurnCaptureAssumption ==
  /\ IsFiniteSet(Calls)
  /\ SessionOf \in [Calls -> Sessions]
  /\ Retrievals \subseteq Calls
  /\ Keyed \subseteq Calls \ Retrievals
  /\ Tokens \in [Calls -> Nat]
  /\ Window \in Nat \ {0}
  /\ MaxFailures \in Nat
  /\ None \notin Nat

VARIABLES
  pc,          \* the write a call goes to or awaits, or how it ended
  arg,         \* the value its awaited write was given
  born,        \* created_at, as the call's place in the order of arrival
  stored,      \* Message nodes
  archived,    \* Message nodes with archived = true
  sessions,    \* Session nodes
  sentIn,      \* messages with a SENT_IN edge to their session
  followedBy,  \* FOLLOWED_BY edges
  estimate,    \* Session.token_estimate
  lastPush,    \* Session.last_proactive_push_msg_count
  enqueued,    \* the turns put in the Loop's queue, in that order
  disturbed,   \* sessions that saw two calls at once, or a failed write
  failures     \* exceptions and crashes so far

graph == <<stored, archived, sessions, sentIn, followedBy, estimate, lastPush>>
vars == <<pc, arg, queue, born, graph, enqueued, disturbed, failures>>

\* "inject" is the estimate's write of a retrieval.  A retrieval ends "told" if
\* the session was there to be told, "unheard" if not.
Awaiting == {"session", "archive", "message", "estimate", "link", "push", "inject"}
Ended == {"answered", "raised", "lost", "told", "unheard"}

InFlight(s) ==
  {t \in Calls : SessionOf[t] = s /\ pc[t] \in Awaiting \cup {"quest"}}
InSession(s) == {t \in sentIn : SessionOf[t] = s}

\* count_session_messages: the live messages of a session.
MessageCount(s) == Cardinality(InSession(s) \ archived)

Init ==
  /\ pc = [t \in Calls |-> "idle"]
  /\ arg = [t \in Calls |-> 0]
  /\ QueueInit
  /\ born = [t \in Calls |-> 0]
  /\ stored = {} /\ archived = {} /\ sessions = {} /\ sentIn = {}
  /\ followedBy = {}
  /\ estimate = [s \in Sessions |-> 0]
  /\ lastPush = [s \in Sessions |-> None]
  /\ enqueued = <<>>
  /\ disturbed = {} /\ failures = 0

-----------------------------------------------------------------------------
\* The statement call t awaits.
Statement(t) == [kind |-> pc[t], turn |-> t, value |-> arg[t]]

\* What it selects in the store.
Selects(w) ==
  CASE w.kind = "archive" -> stored \cap Keyed
    [] w.kind = "link"    -> {w.turn} \cap stored
    [] OTHER              -> {w.turn}

\* What it changes when it commits, having selected `on`.
Writes(w, on) ==
  LET s == SessionOf[w.turn]
  IN
  /\ sessions' = IF w.kind = "session" THEN sessions \cup {s} ELSE sessions
  /\ archived' = IF w.kind = "archive" THEN archived \cup on ELSE archived
  /\ stored'   = IF w.kind = "message" THEN stored \cup on ELSE stored
  /\ sentIn'   = IF w.kind = "link" /\ s \in sessions
                   THEN sentIn \cup on ELSE sentIn
  /\ estimate' = IF w.kind \in {"estimate", "inject"} /\ s \in sessions
                   THEN [estimate EXCEPT ![s] = w.value] ELSE estimate
  /\ lastPush' = IF w.kind = "push" /\ s \in sessions
                   THEN [lastPush EXCEPT ![s] = w.value] ELSE lastPush
  /\ UNCHANGED followedBy

\* A statement commits in its thread.
Land(t) ==
  /\ Lands(t)
  /\ Writes(Statement(t), Selects(Statement(t)))
  /\ UNCHANGED <<pc, arg, born, enqueued, disturbed, failures>>

\* A statement that was given up selects before that or when it commits.
LandLate(w) ==
  /\ LandsLate(w)
  /\ \E on \in {w.on, Selects(w.statement)} : Writes(w.statement, on)
  /\ UNCHANGED <<pc, arg, born, enqueued, disturbed, failures>>

-----------------------------------------------------------------------------
\* Call t comes to its next write, and asks for the lock with the value v it
\* has computed.  What it awaited on the way there is not modelled, so any time
\* may have passed since its last write.
Issues(t, v) ==
  /\ pc[t] \in Awaiting
  /\ t \notin inside
  /\ Moves(t, TRUE)
  /\ arg' = [arg EXCEPT ![t] = v]
  /\ UNCHANGED <<pc, landed, late, born, disturbed, failures>>

\* Call t leaves the gate and goes on towards `next`.
GoesTo(t, next) ==
  /\ pc' = [pc EXCEPT ![t] = next]
  /\ Moves(t, FALSE)
  /\ UNCHANGED <<arg, born>>

\* Its awaited write has returned.
Passes(t, next) ==
  /\ Returns(t)
  /\ GoesTo(t, next)
  /\ UNCHANGED <<disturbed, failures>>

\* An exception is counted, so that a behaviour has few of them.
Fails(t) ==
  /\ disturbed' = disturbed \cup {SessionOf[t]}
  /\ failures < MaxFailures
  /\ failures' = failures + 1

\* Its awaited write has raised.
Breaks(t, next) ==
  /\ Raises(t, [statement |-> Statement(t), on |-> Selects(Statement(t))])
  /\ GoesTo(t, next)
  /\ Fails(t)

\* Either: the code swallows the exception and goes on all the same.
Settles(t, next) == Passes(t, next) \/ Breaks(t, next)

-----------------------------------------------------------------------------
\* A call arrives.  A turn takes its created_at, and looks for its quest; a
\* retrieval searches, and goes on to the tokens of what it has found.
FirstOf(t) == IF t \in Retrievals THEN "inject" ELSE "quest"

Begin(t) ==
  /\ pc[t] = "idle"
  /\ pc' = [pc EXCEPT ![t] = FirstOf(t)]
  /\ born' = [born EXCEPT ![t] = 1 + Cardinality({u \in Calls : born[u] # 0})]
  /\ disturbed' = IF InFlight(SessionOf[t]) = {} THEN disturbed
                                               ELSE disturbed \cup {SessionOf[t]}
  /\ UNCHANGED <<arg, queue, graph, enqueued, failures>>

\* get_or_create_main_quest returns, and the session is upserted; or raises.
QuestFound(t) ==
  /\ pc[t] = "quest"
  /\ \/ /\ pc' = [pc EXCEPT ![t] = "session"]
        /\ UNCHANGED <<disturbed, failures>>
     \/ /\ pc' = [pc EXCEPT ![t] = "raised"]
        /\ Fails(t)
  /\ UNCHANGED <<arg, queue, born, graph, enqueued>>

\* A write whose statement needs no value read before.
IssueWrite(t) ==
  /\ pc[t] \in {"session", "archive", "message", "link"}
  /\ Issues(t, 0)
  /\ UNCHANGED <<graph, enqueued>>

\* The session is upserted, or get_or_create_session swallowed the failure.
AfterSessionAppending(t) == "message"
AfterSession(t) == IF t \in Keyed THEN "archive" ELSE "message"

SessionUpserted(t) ==
  /\ pc[t] = "session"
  /\ Settles(t, AfterSession(t))
  /\ UNCHANGED <<graph, enqueued>>

\* The earlier versions of the memory are archived; now create the new one.
EarlierArchived(t) ==
  /\ pc[t] = "archive"
  /\ Settles(t, "message")
  /\ UNCHANGED <<graph, enqueued>>

\* The message is stored, or the call raises.
MessageCreatedOrNot(t) ==
  /\ pc[t] = "message"
  /\ Settles(t, "estimate")
  /\ UNCHANGED <<graph, enqueued>>
MessageCreated(t) ==
  /\ pc[t] = "message"
  /\ Passes(t, "estimate") \/ Breaks(t, "raised")
  /\ UNCHANGED <<graph, enqueued>>

\* update_token_estimate reads the estimate, and writes the sum.
EstimateReadTwice(t) ==
  /\ pc[t] \in {"estimate", "inject"}
  /\ Issues(t, estimate[SessionOf[t]] + 2 * Tokens[t])
  /\ UNCHANGED <<graph, enqueued>>
EstimateRead(t) ==
  /\ pc[t] \in {"estimate", "inject"}
  /\ Issues(t, estimate[SessionOf[t]] + Tokens[t])
  /\ UNCHANGED <<graph, enqueued>>

\* The sum is written, or the failure to write it is swallowed.  A turn goes on
\* to its link; a retrieval answers.
AfterEstimate(t) ==
  IF pc[t] = "estimate" THEN "link"
  ELSE IF SessionOf[t] \in sessions THEN "told" ELSE "unheard"

EstimateWritten(t) ==
  /\ pc[t] \in {"estimate", "inject"}
  /\ Settles(t, AfterEstimate(t))
  /\ UNCHANGED <<graph, enqueued>>

\* find_previous_message_in_session: the newest other message.
Newest(S) == {u \in S : \A v \in S : born[v] <= born[u]}
PreviousOldest(t) ==
  LET S == InSession(SessionOf[t]) \ {t}
  IN  {u \in S : \A v \in S : born[u] <= born[v]}
PreviousUnlinked(t) == Newest({u \in stored \ {t} : SessionOf[u] = SessionOf[t]})
Previous(t) == Newest(InSession(SessionOf[t]) \ {t})

\* The link returns: in the same step chain the message to the previous one,
\* where a failure is swallowed, and put the turn in the Loop's queue.
LinkedThenSearches(t) ==
  \/ /\ pc[t] = "link"
     /\ Settles(t, "push")
     /\ enqueued' = Append(enqueued, t)
     /\ UNCHANGED graph
  \/ /\ pc[t] = "push" /\ t \notin inside
     /\ followedBy' = followedBy \cup {<<p, t>> : p \in Previous(t)}
     /\ UNCHANGED <<pc, arg, queue, born, stored, archived, sessions, sentIn,
                    estimate, lastPush, enqueued, disturbed, failures>>
Linked(t) ==
  /\ pc[t] = "link"
  /\ \/ /\ Passes(t, "push")
        /\ followedBy' = followedBy \cup {<<p, t>> : p \in Previous(t)}
        /\ enqueued' = Append(enqueued, t)
     \/ /\ Holds(t) /\ landed
        /\ Breaks(t, "push")
        /\ enqueued' = Append(enqueued, t)
        /\ UNCHANGED followedBy
     \/ /\ Breaks(t, "raised")
        /\ UNCHANGED <<followedBy, enqueued>>
  /\ UNCHANGED <<stored, archived, sessions, sentIn, estimate, lastPush>>

\* min_turns_between_pushes against the last count written to the session.
PushAllowed(s) ==
  lastPush[s] # None => MessageCount(s) >= lastPush[s] + Window

\* Push context if the limit allows it and something matches, and mark it; or
\* answer.
PushDecided(t) ==
  LET s == SessionOf[t]
  IN
  /\ pc[t] = "push"
  /\ t \notin inside
  /\ \/ /\ PushAllowed(s)
        /\ Issues(t, MessageCount(s))
     \/ /\ pc' = [pc EXCEPT ![t] = "answered"]
        /\ UNCHANGED <<arg, queue, born, disturbed, failures>>
  /\ UNCHANGED <<graph, enqueued>>

\* The mark of the push is written or not; answer.
PushMarked(t) ==
  /\ pc[t] = "push"
  /\ Settles(t, "answered")
  /\ UNCHANGED <<graph, enqueued>>

Step(t) ==
  \/ Begin(t) \/ QuestFound(t) \/ IssueWrite(t)
  \/ SessionUpserted(t) \/ EarlierArchived(t) \/ MessageCreated(t)
  \/ EstimateRead(t) \/ EstimateWritten(t) \/ Linked(t)
  \/ PushDecided(t) \/ PushMarked(t)

\* The process ends: calls in flight get no answer, and statements that were
\* running have committed or have not.
Crash ==
  /\ failures < MaxFailures /\ failures' = failures + 1
  /\ pc' = [t \in Calls |->
              IF t \in InFlight(SessionOf[t]) THEN "lost" ELSE pc[t]]
  /\ QueueLost
  /\ disturbed' = disturbed \cup {s \in Sessions : InFlight(s) # {}}
  /\ UNCHANGED <<arg, born, graph, enqueued>>

Next ==
  \/ \E t \in Calls : Step(t) \/ Land(t)
  \/ \E w \in late : LandLate(w)
  \/ Crash

Spec == Init /\ [][Next]_vars

-----------------------------------------------------------------------------
TypeOK ==
  /\ pc \in [Calls -> Awaiting \cup Ended \cup {"idle", "quest"}]
  /\ arg \in [Calls -> Nat]
  /\ QueueOK
  /\ \A w \in late : w.statement.turn \in Calls /\ w.statement.value \in Nat
  /\ born \in [Calls -> Nat]
  /\ stored \subseteq Calls /\ archived \subseteq stored /\ sentIn \subseteq stored
  /\ sessions \subseteq Sessions /\ disturbed \subseteq Sessions
  /\ failures \in 0 .. MaxFailures
  /\ followedBy \subseteq sentIn \X Calls
  /\ estimate \in [Sessions -> Nat]
  /\ lastPush \in [Sessions -> Nat \cup {None}]
  /\ enqueued \in Seq(Calls)

Enqueued == {enqueued[i] : i \in 1 .. Len(enqueued)}
TokensOf(S) == MapThenSumSet(LAMBDA t : Tokens[t], S)

\* The Loop is never handed a message that is not in the store, whatever
\* failed or timed out before: the writes whose failure is swallowed are not
\* the one that creates the message.
EnqueuedIsStored == Enqueued \subseteq stored

\* FOLLOWED_BY never closes a cycle, however the turns of a session
\* interleave: a link commits under the lock, and its turn looks for the
\* previous message and chains itself before the next link can commit.
ChainHasNoCycle ==
  \A S \in (SUBSET Calls) \ {{}} :
    \E t \in S : \A u \in S : <<t, u>> \notin followedBy

\* A session is at rest after calls that came one at a time and did not fail.
AtRest(s) == s \notin disturbed /\ InFlight(s) = {}
Answered(s) == {t \in Calls : SessionOf[t] = s /\ pc[t] = "answered"}

\* Turns that come one at a time are chained one after the other, each to
\* the turn before it and to nothing else, across restarts of the daemon.
SequentialTurnsAreChained ==
  \A s \in Sessions : AtRest(s) =>
    /\ InSession(s) = Answered(s)
    /\ {e \in followedBy : SessionOf[e[2]] = s} =
         UNION {{<<p, t>> : p \in Newest({u \in Answered(s) : born[u] < born[t]})}
                 : t \in Answered(s)}

\* The token estimate may lose calls that overlap, for it is read before an
\* awaited write of the sum, but it never counts a message or a retrieval
\* twice; and of calls that come one at a time it is the sum: all the turns,
\* and the retrievals that found the session there.
Told(s) == {t \in Retrievals : SessionOf[t] = s /\ pc[t] = "told"}
Begun(s) == {t \in Retrievals : SessionOf[t] = s /\ pc[t] # "idle"}

EstimateCountsCalls ==
  \A s \in Sessions :
    /\ estimate[s] <= TokensOf({t \in stored : SessionOf[t] = s} \cup Begun(s))
    /\ AtRest(s) => estimate[s] = TokensOf(Answered(s) \cup Told(s))

\* "Editing the same memory file must supersede, not append": of the turns of
\* an orderly session that carry the key, the last one's message is the only
\* one that is live.
SequentialVersionsSupersede ==
  \A s \in Sessions :
    AtRest(s) /\ (\A t \in Keyed : SessionOf[t] = s) =>
      (stored \cap Keyed) \ archived = Newest(Answered(s) \cap Keyed)

\* "Create FOLLOWED_BY edge from the previous message in the same session".
\* It does not hold of turns that overlap: the query takes the newest other
\* message, which may be newer than the turn that asks.
FollowedByGoesForward ==
  \A e \in followedBy : born[e[1]] < born[e[2]]
=============================================================================
