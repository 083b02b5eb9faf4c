----------------------------- MODULE PlanCreation -----------------------------
(***************************************************************************)
(* The daemon's executions of a turn: notify_turn stores the message and,  *)
(* if the text holds a plan and the vector index no plan with much the     *)
(* same goal, hands it to _create_plan_graph (thalamus/tools/lessons.py),  *)
(* which looks for a live plan with the same dedupe key and, if there is   *)
(* none, writes the Plan, its PlanSteps and their edges one after the      *)
(* other.  A write that raises is answered by a compensating delete.  Each *)
(* execution has ids of its own; what two executions of one turn share is  *)
(* the goal and the dedupe key.                                            *)
(*                                                                         *)
(* Writes go through the write gate (module WriteQueue).  The writes of    *)
(* notify_turn that store the message are one write here (TurnCapture has  *)
(* them all), and a step's ACTS_ON edges and the plan's TARGETS edge are   *)
(* left out: nothing below tells them apart.                               *)
(*                                                                         *)
(* No specification uses the definitions that state a plausible slip in    *)
(* the code of the definition right after them (StepsDroppedOnly before    *)
(* StepsDropped).                                                          *)
(***************************************************************************)
EXTENDS Naturals, FiniteSets, WriteQueue

CONSTANTS
  Turns,        \* turns, by dedupe key
  Steps,        \* how many steps a turn's plan has
  MaxFailures,  \* bound: raised exceptions and crashes in a behaviour
  None

ASSUME PlanCreationAssumption ==
  /\ Steps \in Nat \ {0, 1, 2}   \* notify_turn wants three
  /\ MaxFailures \in Nat
  /\ None \notin Turns \cup Calls

VARIABLES
  planned,   \* the turns whose text holds a plan
  pc,        \* the query an execution awaits, or how it ended
  turn,      \* the turn it executes
  step,      \* the step it is at
  plan,      \* the plan_id it will answer: its own, or the one it found
  messages,  \* executions whose Message is stored
  plans,     \* executions whose Plan is stored
  steps,     \* PlanSteps, as execution and number
  links,     \* those with a STEP_OF edge
  joined,    \* plans with a PLANNED_IN edge
  chained,   \* plans with their NEXT_STEP edges
  listed,    \* for an execution that found a plan, the steps it answers
  made,      \* executions that answered with a plan of their own
  undone,    \* those whose compensating delete returned
  strayed,   \* those that gave up a statement that may still run
  disturbed, \* executions of one turn have overlapped, or there was a failure
  failures   \* exceptions and crashes so far

graph == <<messages, plans, steps, links, joined, chained>>
local == <<turn, step, plan, listed>>
history == <<made, undone, strayed>>
daemonVars == <<planned, pc, local, graph, queue, history, disturbed, failures>>

Awaiting == {"message", "plan", "step", "link", "join", "chain", "dropSteps", "dropPlan"}
Reading == {"lookup", "list"}
Ended == {"answered", "error", "lost"}

Running == {c \in Calls : pc[c] \in Awaiting \cup Reading}

Init ==
  /\ planned \in SUBSET Turns
  /\ pc = [c \in Calls |-> "idle"]
  /\ turn = [c \in Calls |-> None]
  /\ step = [c \in Calls |-> 0]
  /\ plan = [c \in Calls |-> None]
  /\ listed = [c \in Calls |-> 0]
  /\ messages = {} /\ plans = {} /\ steps = {} /\ links = {} /\ joined = {} /\ chained = {}
  /\ QueueInit
  /\ made = {} /\ undone = {} /\ strayed = {}
  /\ disturbed = FALSE /\ failures = 0

-----------------------------------------------------------------------------
StepsOf(c) == {c} \X (1 .. Steps)

Statement(c) == [kind |-> pc[c], call |-> c, step |-> step[c]]

\* What statement w would change in the store: what it inserts, for which an
\* edge needs both its ends, or what it deletes.
Selects(w) ==
  LET c == w.call  s == <<w.call, w.step>>
  IN  CASE w.kind = "message"   -> {c}
        [] w.kind = "plan"      -> {c}
        [] w.kind = "step"      -> {s}
        [] w.kind = "link"      -> IF c \in plans THEN {s} \cap steps ELSE {}
        [] w.kind = "join"      -> {c} \cap plans
        [] w.kind = "chain"     -> IF StepsOf(c) \subseteq steps THEN {c} ELSE {}
        [] w.kind = "dropSteps" -> StepsOf(c) \cap steps
        [] w.kind = "dropPlan"  -> {c} \cap plans

\* What it changes when it commits, having selected `on`.  Deleting a node
\* deletes the edges it has.
Writes(w, on) ==
  LET New(kind, old) == IF w.kind = kind THEN old \cup on ELSE old
      gone == IF w.kind = "dropSteps" THEN on ELSE {}
      ended == IF w.kind = "dropPlan" THEN on ELSE {}
  IN  /\ messages' = New("message", messages)
      /\ plans' = New("plan", plans) \ ended
      /\ steps' = New("step", steps) \ gone
      /\ links' = {s \in New("link", links) \ gone : s[1] \notin ended}
      /\ joined' = New("join", joined) \ ended
      /\ chained' = {c \in New("chain", chained) : StepsOf(c) \cap gone = {}}

Land(c) ==
  /\ Lands(c)
  /\ Writes(Statement(c), Selects(Statement(c)))
  /\ UNCHANGED <<planned, pc, local, history, disturbed, failures>>

\* A statement that was given up selects before that or when it commits.
LandLate(w) ==
  /\ LandsLate(w)
  /\ \E on \in {w.on, Selects(w.statement)} : Writes(w.statement, on)
  /\ UNCHANGED <<planned, pc, local, history, disturbed, failures>>

\* Exceptions are counted, so that a behaviour has few of them.
Fails(n) ==
  /\ failures + n <= MaxFailures
  /\ failures' = failures + n
  /\ disturbed' = (disturbed \/ n > 0)

GoesTo(c, next) ==
  /\ pc' = [pc EXCEPT ![c] = next]
  /\ UNCHANGED planned
  /\ Moves(c, next \in Awaiting)

\* Execution c's awaited write returns, and it goes on to its next query.
Passes(c, at, next) ==
  /\ pc[c] = at
  /\ Returns(c)
  /\ GoesTo(c, next)
  /\ UNCHANGED <<graph, disturbed, failures>>

\* It raises.
Breaks(c) ==
  /\ Raises(c, [statement |-> Statement(c), on |-> Selects(Statement(c))])
  /\ strayed' = IF late' # late THEN strayed \cup {c} ELSE strayed
  /\ Fails(1)
  /\ UNCHANGED <<graph, made>>

-----------------------------------------------------------------------------
\* The daemon takes a request for turn t.
Begin(c, t) ==
  /\ pc[c] = "idle"
  /\ turn' = [turn EXCEPT ![c] = t]
  /\ GoesTo(c, "message")
  /\ disturbed' = (disturbed \/ late # {} \/ \E d \in Running : turn[d] = t)
  /\ UNCHANGED <<landed, late, step, plan, listed, graph, history, failures>>

\* The vector index has the goal of turn t's plan: a create of it has returned.
\* Nothing takes it out again, nor does the compensating delete.
Indexed(t) == \E d \in Calls : turn[d] = t /\ step[d] > 0

\* A turn whose plan is found in the index is answered without one.  The search
\* may raise, or there may be no index, which counts as not found.
MessageStored(c) ==
  /\ \/ /\ turn[c] \in planned
        /\ Passes(c, "message", "lookup")
     \/ /\ turn[c] \notin planned \/ Indexed(turn[c])
        /\ Passes(c, "message", "answered")
  /\ UNCHANGED <<local, history>>

\* notify_turn does not catch this one: the request is answered by an error.
MessageFails(c) ==
  /\ pc[c] = "message"
  /\ Breaks(c)
  /\ GoesTo(c, "error")
  /\ UNCHANGED <<local, undone>>

\* Live plans of the turn.
Live(t) == {d \in plans : turn[d] = t}

\* find_live_by_dedupe_key finds a plan, and its steps are read next.
PlanFound(c) ==
  /\ pc[c] = "lookup"
  /\ \E d \in Live(turn[c]) : plan' = [plan EXCEPT ![c] = d]
  /\ GoesTo(c, "list")
  /\ UNCHANGED <<landed, late, turn, step, listed, graph, history, disturbed, failures>>

\* It finds none, or raises, which counts as none: a plan is written.
PlanNotFoundEver(c) ==
  /\ pc[c] = "lookup"
  /\ Fails(0)
  /\ GoesTo(c, "plan")
  /\ UNCHANGED <<landed, late, local, graph, history>>
PlanNotFound(c) ==
  /\ pc[c] = "lookup"
  /\ \/ Live(turn[c]) = {} /\ Fails(0)
     \/ Live(turn[c]) # {} /\ Fails(1)
  /\ GoesTo(c, "plan")
  /\ UNCHANGED <<landed, late, local, graph, history>>

\* The steps of the plan that was found are answered, or none if reading them
\* raises.
StepsListed(c) ==
  /\ pc[c] = "list"
  /\ \/ listed' = [listed EXCEPT ![c] = Cardinality({s \in links \cap steps : s[1] = plan[c]})] /\ Fails(0)
     \/ UNCHANGED listed /\ Fails(1)
  /\ GoesTo(c, "answered")
  /\ UNCHANGED <<landed, late, turn, step, plan, graph, history>>

\* The Plan is stored, and found from now on; then its steps, in turn.
PlanStored(c) ==
  /\ Passes(c, "plan", "step")
  /\ step' = [step EXCEPT ![c] = 1]
  /\ UNCHANGED <<turn, plan, listed, history>>

StepStored(c) ==
  /\ Passes(c, "step", "link")
  /\ UNCHANGED <<local, history>>

StepLinked(c) ==
  /\ IF step[c] < Steps
       THEN Passes(c, "link", "step") /\ step' = [step EXCEPT ![c] = @ + 1]
       ELSE Passes(c, "link", "join") /\ UNCHANGED step
  /\ UNCHANGED <<turn, plan, listed, history>>

PlanJoined(c) ==
  /\ Passes(c, "join", "chain")
  /\ UNCHANGED <<local, history>>

PlanChained(c) ==
  /\ Passes(c, "chain", "answered")
  /\ plan' = [plan EXCEPT ![c] = c]
  /\ made' = made \cup {c}
  /\ UNCHANGED <<turn, step, listed, undone, strayed>>

\* One of these writes raises: what was written is deleted again, steps first.
PlanFails(c) ==
  /\ pc[c] \in {"plan", "step", "link", "join", "chain"}
  /\ Breaks(c)
  /\ GoesTo(c, "dropSteps")
  /\ UNCHANGED <<local, undone>>

StepsDroppedOnly(c) ==
  /\ Passes(c, "dropSteps", "answered")
  /\ undone' = undone \cup {c}
  /\ UNCHANGED <<local, made, strayed>>
StepsDropped(c) ==
  /\ Passes(c, "dropSteps", "dropPlan")
  /\ UNCHANGED <<local, history>>

\* The exception goes on to notify_turn, which swallows it and answers.
PlanDropped(c) ==
  /\ Passes(c, "dropPlan", "answered")
  /\ undone' = undone \cup {c}
  /\ UNCHANGED <<local, made, strayed>>

\* Deleting raises: the rest of it is skipped.
DroppingFails(c) ==
  /\ pc[c] \in {"dropSteps", "dropPlan"}
  /\ Breaks(c)
  /\ GoesTo(c, "answered")
  /\ UNCHANGED <<local, undone>>

\* The process ends: executions and abandoned threads are gone.
Stopped ==
  /\ pc' = [c \in Calls |-> IF c \in Running THEN "lost" ELSE pc[c]]
  /\ QueueLost
  /\ Fails(1)
  /\ UNCHANGED <<planned, local, graph, history>>

Executes(c) ==
  \/ MessageStored(c) \/ MessageFails(c)
  \/ PlanFound(c) \/ PlanNotFound(c) \/ StepsListed(c)
  \/ PlanStored(c) \/ StepStored(c) \/ StepLinked(c) \/ PlanJoined(c) \/ PlanChained(c)
  \/ PlanFails(c) \/ StepsDropped(c) \/ PlanDropped(c) \/ DroppingFails(c)

Commits ==
  \/ \E c \in Calls : Land(c)
  \/ \E w \in late : LandLate(w)

-----------------------------------------------------------------------------
(***************************************************************************)
(* Properties.                                                             *)
(***************************************************************************)

PlanTypeOK ==
  /\ planned \subseteq Turns
  /\ pc \in [Calls -> {"idle"} \cup Awaiting \cup Reading \cup Ended]
  /\ turn \in [Calls -> Turns \cup {None}]
  /\ step \in [Calls -> 0 .. Steps]
  /\ plan \in [Calls -> Calls \cup {None}]
  /\ listed \in [Calls -> 0 .. Steps]
  /\ QueueOK
  /\ inside = {c \in Calls : pc[c] \in Awaiting}
  /\ UNION {messages, plans, joined, chained, made, undone, strayed} \subseteq Calls
  /\ steps \cup links \subseteq Calls \X (1 .. Steps)
  /\ disturbed \in BOOLEAN
  /\ failures \in 0 .. MaxFailures

\* All of the plan of execution c, and nothing of it.
Whole(c) == c \in plans \cap joined \cap chained /\ StepsOf(c) \subseteq links
Nothing(c) == c \notin plans \cup joined \cup chained /\ StepsOf(c) \cap (steps \cup links) = {}

\* A plan is written whole or not at all, as far as the code can see to it: an
\* execution that answers with a plan of its own has written all of it, and one
\* that failed and whose compensating delete returned has left nothing, unless
\* it gave up a statement that commits after the delete.
PlanIsAllOrNothing ==
  \A c \in Calls :
    /\ c \in made => Whole(c)
    /\ c \in undone \ strayed => Nothing(c)

\* A turn has one plan, however often it is executed, and an execution that
\* finds it by its key answers with all of it, if executions do not overlap and
\* none fails.
RetriesShareAPlan ==
  ~ disturbed =>
    \A c \in Calls : pc[c] = "answered" /\ turn[c] \in planned =>
      \E d \in Calls :
        /\ Live(turn[c]) = {d} /\ Whole(d)
        /\ plan[c] \in {d, None}
        /\ plan[c] = d /\ d # c => listed[c] = Steps

=============================================================================
