---------------------------- MODULE DeliveryProofs ----------------------------
(***************************************************************************)
(* What a client is told of its turn is true, for any number of adapters,  *)
(* turns and executions. The invariant follows a turn on its way: an       *)
(* execution that got past its first write has stored the message          *)
(* (DaemonInv), and a queued turn is in the file until it was given up, is *)
(* with an adapter that has taken it out, or is stored (DeliveryInv).      *)
(*                                                                         *)
(* And what becomes of a turn's plan: the executions none of whose         *)
(* statements is at large know from where they are what of their plan is   *)
(* in the graph (PlanInv), and as long as executions of a turn neither     *)
(* overlap nor fail, one of them at most creates a plan, before any other  *)
(* looks for it (QuietInv).                                                *)
(***************************************************************************)
EXTENDS TurnDelivery, WriteQueueProofs, FiniteSetTheorems

\* The places of an execution whose Message is stored.
PastMessage == {"lookup", "list", "plan", "step", "link", "join", "chain",
                "dropSteps", "dropPlan", "answered"}

PlacesOK ==
  /\ pc \in [Calls -> {"idle"} \cup Awaiting \cup Reading \cup Ended]
  /\ turn \in [Calls -> Turns \cup {None}]
  /\ inside = {c \in Calls : pc[c] \in Awaiting}
  /\ QueueOK

MessageIsFirst ==
  \A c \in Calls :
    /\ pc[c] \in PastMessage => c \in messages
    /\ landed /\ Holds(c) /\ pc[c] = "message" => c \in messages
    /\ pc[c] = "idle" => c \notin messages

LateIsBegun ==
  \A w \in late : w.statement.kind = "message" =>
    /\ w.statement.call \in Calls
    /\ pc[w.statement.call] # "idle"
    /\ w.on = {w.statement.call}

DaemonInv == PlacesOK /\ messages \subseteq Calls /\ MessageIsFirst /\ LateIsBegun

AdaptersOK ==
  /\ phase \in [Adapters -> {"idle", "socket", "http", "unlink"}]
  /\ asked \in [Adapters -> Turns \cup {Other, None}]
  /\ exec \in [Adapters -> Calls \cup {None}]
  /\ batch \in [Adapters -> SUBSET Turns]
  /\ entry \in [Adapters -> Turns \cup {None}]
  /\ file \subseteq Turns /\ dropped \subseteq Turns
  /\ told \in [Turns -> {"nothing", "asked", "answered", "queued"}]

AdapterIsConsistent ==
  \A a \in Adapters :
    /\ phase[a] = "idle" => exec[a] = None /\ entry[a] = None
    /\ phase[a] = "unlink" => exec[a] = None /\ entry[a] = None
    /\ entry[a] = None /\ phase[a] # "unlink" => batch[a] = {}
    /\ exec[a] # None => pc[exec[a]] # "idle" /\ turn[exec[a]] = Carries(a)

\* Replaying follows a success: the turn that started it is stored.
ReplaysAfterSuccess ==
  \A a \in Adapters :
    asked[a] \in Turns /\ (entry[a] # None \/ phase[a] = "unlink") => Stored(asked[a])

AnsweredIsStored == \A t \in Turns : told[t] = "answered" => Stored(t)

QueuedIsKept ==
  \A t \in Turns : told[t] = "queued" =>
    \/ t \in file \cup dropped
    \/ \E a \in Adapters : phase[a] # "unlink" /\ t \in batch[a] \cup {entry[a]}
    \/ Stored(t)

DeliveryInv ==
  /\ DaemonInv
  /\ AdaptersOK
  /\ AdapterIsConsistent
  /\ ReplaysAfterSuccess
  /\ AnsweredIsStored
  /\ QueuedIsKept

-----------------------------------------------------------------------------
(***************************************************************************)
(* The daemon.                                                             *)
(***************************************************************************)

LEMMA SelectsMessage ==
  ASSUME NEW w, w.kind = "message"
  PROVE  Selects(w) = {w.call}
BY DEF Selects

LEMMA WritesKeepMessages ==
  ASSUME NEW w, NEW on, Writes(w, on)
  PROVE  /\ messages \subseteq messages'
         /\ w.kind # "message" => messages' = messages
         /\ w.kind = "message" => messages' = messages \cup on
BY DEF Writes

\* Execution c goes on: what it has to have done by then is that its Message
\* is stored, and what it leaves behind is late statements of its own.
LEMMA GoingOnKeepsInv ==
  ASSUME DaemonInv, NEW c \in Calls, NEW next \in Awaiting \cup Reading \cup Ended,
         GoesTo(c, next), landed' \in BOOLEAN, landed' => landed /\ ~ Holds(c),
         turn' \in [Calls -> Turns \cup {None}], messages' = messages,
         next \in PastMessage => c \in messages,
         \A w \in late' : w \in late \/ (w.statement.kind = "message" =>
                            w.statement.call = c /\ w.on = {c})
  PROVE  DaemonInv'
<1>1. /\ pc' = [pc EXCEPT ![c] = next]
      /\ Moves(c, next \in Awaiting)
  BY DEF GoesTo
<1>2. /\ QueueOK'
      /\ \A d \in Calls : landed' /\ Holds(d)' => d # c /\ Holds(d)
  <2>1. PICK asks \in BOOLEAN : Moves(c, asks)
    <3>1. CASE next \in Awaiting
      <4>1. Moves(c, TRUE)
        BY <1>1, <3>1 DEF Moves
      <4> QED
        BY <4>1
    <3>2. CASE next \notin Awaiting
      <4>1. Moves(c, FALSE)
        BY <1>1, <3>2 DEF Moves
      <4> QED
        BY <4>1
    <3> QED
      BY <3>1, <3>2
  <2>2. QueueOK
    BY DEF DaemonInv, PlacesOK
  <2> QED
    BY <2>1, <2>2, MovesKeepsQueue
<1>3. pc \in [Calls -> {"idle"} \cup Awaiting \cup Reading \cup Ended] /\ next # "idle"
  BY DEF DaemonInv, PlacesOK, Awaiting, Reading, Ended
<1>4. PlacesOK'
  <2>1. inside' = {d \in Calls : pc'[d] \in Awaiting}
    <3>1. inside = {d \in Calls : pc[d] \in Awaiting}
      BY DEF DaemonInv, PlacesOK
    <3> QED
      BY <1>1, <1>3, <3>1 DEF Moves
  <2> QED
    BY <1>1, <1>2, <1>3, <2>1 DEF PlacesOK
<1>5. MessageIsFirst'
  BY <1>1, <1>2, <1>3 DEF DaemonInv, MessageIsFirst
<1>6. LateIsBegun'
  BY <1>1, <1>3 DEF DaemonInv, LateIsBegun
<1> QED
  BY <1>4, <1>5, <1>6 DEF DaemonInv

LEMMA PassingKeepsInv ==
  ASSUME DaemonInv, NEW c \in Calls, NEW at, NEW next \in Awaiting \cup Reading \cup Ended,
         Passes(c, at, next), at \in PastMessage \cup {"message"},
         turn' \in [Calls -> Turns \cup {None}]
  PROVE  DaemonInv' /\ messages' = messages
<1>1. c \in messages
  BY DEF DaemonInv, MessageIsFirst, Passes, Returns
<1> QED
  BY <1>1, GoingOnKeepsInv DEF Passes, Returns, graph

LEMMA BreakingKeepsInv ==
  ASSUME DaemonInv, NEW c \in Calls, NEW next \in {"error", "answered", "dropSteps"},
         Breaks(c), GoesTo(c, next), turn' = turn,
         next # "error" => pc[c] \in PastMessage
  PROVE  DaemonInv' /\ messages' = messages
<1> DEFINE w == [statement |-> Statement(c), on |-> Selects(Statement(c))]
<1>1. /\ landed' = (landed /\ ~ Holds(c))
      /\ late' = late \/ late' = late \cup {w}
      /\ messages' = messages
  BY DEF Breaks, Raises, graph
<1>2. w.statement.kind = "message" => w.statement.call = c /\ w.on = {c}
  BY SelectsMessage DEF Statement
<1>3. landed \in BOOLEAN /\ turn \in [Calls -> Turns \cup {None}]
  BY DEF DaemonInv, PlacesOK, QueueOK
<1>4. next \in Awaiting \cup Reading \cup Ended
  BY DEF Awaiting, Reading, Ended
<1>5. next \in PastMessage => c \in messages
  BY DEF PastMessage, DaemonInv, MessageIsFirst
<1> HIDE DEF w
<1>6. \A v \in late' : v \in late \/ (v.statement.kind = "message" =>
                         v.statement.call = c /\ v.on = {c})
  BY <1>1, <1>2
<1>7. landed' \in BOOLEAN /\ (landed' => landed /\ ~ Holds(c))
  BY <1>1, <1>3
<1> QED
  BY <1>1, <1>3, <1>4, <1>5, <1>6, <1>7, GoingOnKeepsInv

\* What a step of the daemon leaves to the adapters: messages stay stored, an
\* execution that was begun stays so and keeps its turn.
DaemonKept ==
  /\ messages \subseteq messages'
  /\ \A c \in Calls : pc[c] # "idle" => pc'[c] # "idle" /\ turn'[c] = turn[c]

LEMMA BeginKeepsInv ==
  ASSUME DaemonInv, NEW c \in Calls, NEW t \in Turns, Begin(c, t)
  PROVE  DaemonInv' /\ DaemonKept /\ turn'[c] = t /\ pc'[c] # "idle"
<1>1. /\ pc[c] = "idle"
      /\ turn' = [turn EXCEPT ![c] = t]
      /\ GoesTo(c, "message")
      /\ landed' = landed /\ late' = late /\ messages' = messages
  BY DEF Begin, graph
<1>2. /\ turn \in [Calls -> Turns \cup {None}]
      /\ pc \in [Calls -> {"idle"} \cup Awaiting \cup Reading \cup Ended]
      /\ landed \in BOOLEAN /\ c \notin inside
  BY <1>1 DEF DaemonInv, PlacesOK, QueueOK, Awaiting
<1>3. ~ Holds(c)
  BY <1>2 DEF Holds
<1>4. "message" \in Awaiting \cup Reading \cup Ended /\ "message" \notin PastMessage
  BY DEF Awaiting, PastMessage
<1>5. DaemonInv'
  BY <1>1, <1>2, <1>3, <1>4, GoingOnKeepsInv
<1> QED
  BY <1>1, <1>2, <1>5 DEF GoesTo, DaemonKept

\* The steps of an execution: each goes on after its write returned or raised,
\* or after a read.
LEMMA ExecutesKeepsInv ==
  ASSUME DaemonInv, NEW c \in Calls, Executes(c)
  PROVE  DaemonInv' /\ DaemonKept
<1>1. /\ turn \in [Calls -> Turns \cup {None}]
      /\ pc \in [Calls -> {"idle"} \cup Awaiting \cup Reading \cup Ended]
      /\ landed \in BOOLEAN
  BY DEF DaemonInv, PlacesOK, QueueOK
<1>2. ASSUME MessageStored(c)
      PROVE  DaemonInv' /\ messages' = messages /\ turn' = turn
  <2>1. turn' = turn
    BY <1>2 DEF MessageStored, local
  <2>2. PICK next \in {"lookup", "answered"} : Passes(c, "message", next)
    <3>1. Passes(c, "message", "lookup") \/ Passes(c, "message", "answered")
      BY <1>2 DEF MessageStored
    <3> QED
      BY <3>1
  <2>3. next \in Awaiting \cup Reading \cup Ended
    BY DEF Reading, Ended
  <2> QED
    BY <1>1, <2>1, <2>2, <2>3, PassingKeepsInv
<1>3. ASSUME \/ PlanStored(c) \/ StepStored(c) \/ StepLinked(c) \/ PlanJoined(c)
             \/ PlanChained(c) \/ StepsDropped(c) \/ PlanDropped(c)
      PROVE  DaemonInv' /\ messages' = messages /\ turn' = turn
  <2>1. turn' = turn
    BY <1>3 DEF PlanStored, StepStored, StepLinked, PlanJoined, PlanChained,
                StepsDropped, PlanDropped, local
  <2>2. \E at \in PastMessage, next \in Awaiting \cup Reading \cup Ended :
          Passes(c, at, next)
    BY <1>3 DEF PlanStored, StepStored, StepLinked, PlanJoined, PlanChained,
                StepsDropped, PlanDropped, PastMessage, Awaiting, Reading, Ended
  <2> QED
    BY <1>1, <2>1, <2>2, PassingKeepsInv
<1>4. ASSUME MessageFails(c)
      PROVE  DaemonInv' /\ messages' = messages /\ turn' = turn
  BY <1>4, BreakingKeepsInv DEF MessageFails, local
<1>5. ASSUME PlanFails(c) \/ DroppingFails(c)
      PROVE  DaemonInv' /\ messages' = messages /\ turn' = turn
  <2>1. pc[c] \in PastMessage /\ turn' = turn /\ Breaks(c)
    BY <1>5 DEF PlanFails, DroppingFails, PastMessage, local
  <2>2. GoesTo(c, "dropSteps") \/ GoesTo(c, "answered")
    BY <1>5 DEF PlanFails, DroppingFails
  <2> QED
    BY <2>1, <2>2, BreakingKeepsInv
<1>6. ASSUME PlanFound(c) \/ PlanNotFound(c) \/ StepsListed(c)
      PROVE  DaemonInv' /\ messages' = messages /\ turn' = turn
  <2>1. /\ pc[c] \in Reading
        /\ turn' = turn /\ landed' = landed /\ late' = late /\ messages' = messages
    BY <1>6 DEF PlanFound, PlanNotFound, StepsListed, local, graph, Reading
  <2>2. PICK next \in {"list", "plan", "answered"} : GoesTo(c, next)
    BY <1>6 DEF PlanFound, PlanNotFound, StepsListed
  <2>3. c \in messages /\ ~ Holds(c)
    BY <2>1 DEF DaemonInv, PlacesOK, MessageIsFirst, Holds, Reading, Awaiting, PastMessage
  <2>4. next \in Awaiting \cup Reading \cup Ended
    BY DEF Awaiting, Reading, Ended
  <2> QED
    BY <1>1, <2>1, <2>2, <2>3, <2>4, GoingOnKeepsInv
<1>7. DaemonInv' /\ messages' = messages /\ turn' = turn
  BY <1>2, <1>3, <1>4, <1>5, <1>6 DEF Executes
<1>8. \E next \in Awaiting \cup Reading \cup Ended : pc' = [pc EXCEPT ![c] = next]
  <2>1. \E next \in Awaiting \cup Reading \cup Ended : GoesTo(c, next)
    BY DEF Executes, MessageStored, MessageFails, PlanFound, PlanNotFound, StepsListed,
           PlanStored, StepStored, StepLinked, PlanJoined, PlanChained, PlanFails,
           StepsDropped, PlanDropped, DroppingFails, Passes, Awaiting, Reading, Ended
  <2> QED
    BY <2>1 DEF GoesTo
<1> QED
  BY <1>1, <1>7, <1>8 DEF DaemonKept, Awaiting, Reading, Ended

\* Statements commit, under the lock or after they were given up.
LEMMA CommitsKeepsInv ==
  ASSUME DaemonInv, Commits
  PROVE  DaemonInv' /\ DaemonKept
<1>1. pc' = pc /\ turn' = turn
  BY DEF Commits, Land, LandLate, local
<1>2. ASSUME NEW c \in Calls, Land(c)
      PROVE  DaemonInv' /\ messages \subseteq messages'
  <2>1. /\ Lands(c) /\ Writes(Statement(c), Selects(Statement(c)))
        /\ inside' = inside /\ late' = late
    BY <1>2 DEF Land, Lands
  <2>2. QueueOK' /\ \A d \in Calls : Holds(d)' => d = c
    BY <2>1, LandsKeepsQueue DEF DaemonInv, PlacesOK
  <2>3. /\ messages \subseteq messages' /\ messages' \subseteq messages \cup {c}
        /\ pc[c] = "message" => c \in messages'
    BY <2>1, WritesKeepMessages, SelectsMessage DEF Statement
  <2>4. c \in inside /\ pc[c] # "idle"
    BY <2>1 DEF Lands, Holds, DaemonInv, PlacesOK, Awaiting
  <2>5. PlacesOK' /\ LateIsBegun'
    BY <1>1, <2>1, <2>2 DEF DaemonInv, PlacesOK, LateIsBegun
  <2>6. MessageIsFirst'
    BY <1>1, <2>2, <2>3, <2>4 DEF DaemonInv, MessageIsFirst
  <2> QED
    BY <2>3, <2>5, <2>6 DEF DaemonInv
<1>3. ASSUME NEW w \in late, LandLate(w)
      PROVE  DaemonInv' /\ messages \subseteq messages'
  <2>1. /\ LandsLate(w)
        /\ \E on \in {w.on, Selects(w.statement)} : Writes(w.statement, on)
    BY <1>3 DEF LandLate
  <2>2. /\ late' \subseteq late /\ landed' = landed /\ inside' = inside /\ ahead' = ahead
    BY <2>1 DEF LandsLate
  <2>3. /\ messages \subseteq messages'
        /\ \A c \in messages' \ messages : c \in Calls /\ pc[c] # "idle"
    BY <2>1, WritesKeepMessages, SelectsMessage DEF DaemonInv, LateIsBegun
  <2>4. PlacesOK' /\ LateIsBegun'
    BY <1>1, <2>2 DEF DaemonInv, PlacesOK, LateIsBegun, QueueOK, Holds
  <2>5. MessageIsFirst'
    BY <1>1, <2>2, <2>3 DEF DaemonInv, MessageIsFirst, Holds
  <2> QED
    BY <2>3, <2>4, <2>5 DEF DaemonInv
<1> QED
  BY <1>1, <1>2, <1>3 DEF Commits, DaemonKept

\* The process ends.
LEMMA StoppedKeepsInv ==
  ASSUME DaemonInv, Stopped
  PROVE  DaemonInv' /\ DaemonKept
<1>1. /\ pc' = [c \in Calls |-> IF c \in Running THEN "lost" ELSE pc[c]]
      /\ QueueLost
      /\ turn' = turn /\ messages' = messages
  BY DEF Stopped, local, graph
<1>2. QueueOK' /\ inside' = {} /\ late' = {} /\ landed' = FALSE
  BY <1>1, LostQueueIsOK DEF QueueLost
<1>3. /\ pc \in [Calls -> {"idle"} \cup Awaiting \cup Reading \cup Ended]
      /\ turn \in [Calls -> Turns \cup {None}]
  BY DEF DaemonInv, PlacesOK
<1>4. pc' \in [Calls -> {"idle"} \cup Awaiting \cup Reading \cup Ended]
  BY <1>1, <1>3 DEF Ended
<1>5. \A c \in Calls : pc'[c] \notin Awaiting
  BY <1>1, <1>3 DEF Running, Awaiting, Ended
<1>6. PlacesOK'
  BY <1>1, <1>2, <1>3, <1>4, <1>5 DEF PlacesOK
<1>7. \A c \in Calls : pc'[c] \in PastMessage \cup {"idle"} => pc'[c] = pc[c]
  BY <1>1, <1>3 DEF PastMessage
<1>8. MessageIsFirst' /\ LateIsBegun'
  BY <1>1, <1>2, <1>7 DEF DaemonInv, MessageIsFirst, LateIsBegun
<1> QED
  BY <1>1, <1>6, <1>8 DEF DaemonInv, DaemonKept, Running, Awaiting, Reading

-----------------------------------------------------------------------------
(***************************************************************************)
(* The adapters.                                                           *)
(***************************************************************************)

\* A turn that is stored stays so.
LEMMA StoredForGood ==
  ASSUME DaemonInv, DaemonKept, NEW t, Stored(t)
  PROVE  Stored(t)'
BY DEF DaemonInv, MessageIsFirst, DaemonKept, Stored

\* Steps of the daemon only: what the adapters know stays true.
LEMMA DaemonStepKeepsInv ==
  ASSUME DeliveryInv, DaemonInv', DaemonKept, UNCHANGED <<adapter, file, told, dropped>>
  PROVE  DeliveryInv'
<1>1. \A t : Stored(t) => Stored(t)'
  BY StoredForGood DEF DeliveryInv
<1>2. /\ phase' = phase /\ asked' = asked /\ exec' = exec /\ batch' = batch
      /\ entry' = entry /\ file' = file /\ told' = told /\ dropped' = dropped
  BY DEF adapter
<1>3. AdaptersOK'
  BY <1>2 DEF DeliveryInv, AdaptersOK
<1>4. AdapterIsConsistent'
  BY <1>2 DEF DeliveryInv, AdaptersOK, AdapterIsConsistent, DaemonKept, Carries
<1>5. ReplaysAfterSuccess' /\ AnsweredIsStored'
  BY <1>1, <1>2 DEF DeliveryInv, ReplaysAfterSuccess, AnsweredIsStored
<1>6. QueuedIsKept'
  BY <1>1, <1>2 DEF DeliveryInv, QueuedIsKept
<1> QED
  BY <1>3, <1>4, <1>5, <1>6 DEF DeliveryInv

\* Steps of an adapter only: nothing of the daemon changes.
LEMMA DaemonStutters ==
  ASSUME DaemonInv, UNCHANGED daemonVars
  PROVE  /\ DaemonInv'
         /\ pc' = pc /\ turn' = turn
         /\ \A t : Stored(t)' = Stored(t)
<1>1. /\ pc' = pc /\ turn' = turn /\ messages' = messages
      /\ inside' = inside /\ ahead' = ahead /\ landed' = landed /\ late' = late
  BY DEF daemonVars, local, graph, queue
<1>2. PlacesOK'
  BY <1>1 DEF DaemonInv, PlacesOK, QueueOK, Holds
<1>3. MessageIsFirst' /\ LateIsBegun'
  BY <1>1 DEF DaemonInv, MessageIsFirst, LateIsBegun, Holds
<1> QED
  BY <1>1, <1>2, <1>3 DEF DaemonInv, Stored

\* The next line is replayed, or the request that started the replay is
\* answered: every line the adapter had, or takes from the file, is among the
\* rest, given up, or stored.
LEMMA ReplaysKeepsInv ==
  ASSUME DeliveryInv, UNCHANGED daemonVars, NEW a \in Adapters, NEW rest \in SUBSET Turns,
         Replays(a, rest), Hangs(a),
         asked[a] \in Turns => Stored(asked[a]),
         file' \subseteq Turns, dropped' \subseteq Turns,
         \A t \in file \cup dropped : t \in file' \cup dropped' \cup rest,
         phase[a] # "unlink" =>
           \A t \in (batch[a] \cup {entry[a]}) \cap Turns :
             t \in dropped' \cup rest \/ Stored(t)
  PROVE  DeliveryInv'
<1>1. /\ DaemonInv' /\ pc' = pc /\ turn' = turn
      /\ \A t : Stored(t)' = Stored(t)
  BY DaemonStutters DEF DeliveryInv
<1>2. AdaptersOK
  BY DEF DeliveryInv
<1>3. /\ exec' = [exec EXCEPT ![a] = None]
      /\ \E p \in {"idle", "socket"} : phase' = [phase EXCEPT ![a] = p]
  BY DEF Hangs, Replays, Answers, Enters
<1>4. CASE rest = {}
  <2>1. /\ phase' = [phase EXCEPT ![a] = "idle"]
        /\ asked' = [asked EXCEPT ![a] = None]
        /\ told' = IF asked[a] \in Turns THEN [told EXCEPT ![asked[a]] = "answered"] ELSE told
        /\ entry' = [entry EXCEPT ![a] = None]
        /\ batch' = [batch EXCEPT ![a] = {}]
    BY <1>4 DEF Replays, Answers, Enters
  <2>2. AdaptersOK'
    BY <1>2, <1>3, <2>1 DEF AdaptersOK
  <2>3. AdapterIsConsistent'
    BY <1>1, <1>2, <1>3, <2>1 DEF DeliveryInv, AdaptersOK, AdapterIsConsistent, Carries
  <2>4. ReplaysAfterSuccess'
    BY <1>1, <1>2, <2>1 DEF DeliveryInv, AdaptersOK, ReplaysAfterSuccess
  <2>5. AnsweredIsStored'
    BY <1>1, <1>2, <2>1 DEF DeliveryInv, AdaptersOK, AnsweredIsStored
  <2>6. QueuedIsKept'
    <3> SUFFICES ASSUME NEW t \in Turns, told'[t] = "queued"
                 PROVE  \/ t \in file' \cup dropped'
                        \/ \E b \in Adapters : phase'[b] # "unlink" /\ t \in batch'[b] \cup {entry'[b]}
                        \/ Stored(t)'
      BY DEF QueuedIsKept
    <3>1. told[t] = "queued"
      BY <1>2, <2>1 DEF AdaptersOK
    <3>2. CASE t \in file \cup dropped
      BY <1>4, <3>2
    <3>3. CASE Stored(t)
      BY <1>1, <3>3
    <3>4. ASSUME NEW b \in Adapters, phase[b] # "unlink", t \in batch[b] \cup {entry[b]}
          PROVE  \/ t \in file' \cup dropped'
                 \/ \E d \in Adapters : phase'[d] # "unlink" /\ t \in batch'[d] \cup {entry'[d]}
                 \/ Stored(t)'
      <4>1. CASE b = a
        BY <1>1, <1>4, <3>4, <4>1
      <4>2. CASE b # a
        BY <1>2, <2>1, <3>4, <4>2 DEF AdaptersOK
      <4> QED
        BY <4>1, <4>2
    <3> QED
      BY <3>1, <3>2, <3>3, <3>4 DEF DeliveryInv, QueuedIsKept
  <2> QED
    BY <1>1, <2>2, <2>3, <2>4, <2>5, <2>6 DEF DeliveryInv
<1>5. CASE rest # {}
  <2>1. PICK u \in rest : /\ entry' = [entry EXCEPT ![a] = u]
                          /\ batch' = [batch EXCEPT ![a] = rest \ {u}]
    BY <1>5 DEF Replays
  <2>2. /\ phase' = [phase EXCEPT ![a] = "socket"]
        /\ asked' = asked /\ told' = told
    BY <1>5 DEF Replays, Enters
  <2>3. AdaptersOK'
    BY <1>2, <1>3, <2>1, <2>2 DEF AdaptersOK
  <2>4. u # None
    BY PlanCreationAssumption
  <2>5. AdapterIsConsistent'
    BY <1>1, <1>2, <1>3, <2>1, <2>2, <2>4 DEF DeliveryInv, AdaptersOK, AdapterIsConsistent, Carries
  <2>6. ReplaysAfterSuccess' /\ AnsweredIsStored'
    BY <1>1, <1>2, <2>1, <2>2 DEF DeliveryInv, AdaptersOK, ReplaysAfterSuccess, AnsweredIsStored
  <2>7. QueuedIsKept'
    <3> SUFFICES ASSUME NEW t \in Turns, told[t] = "queued"
                 PROVE  \/ t \in file' \cup dropped'
                        \/ \E b \in Adapters : phase'[b] # "unlink" /\ t \in batch'[b] \cup {entry'[b]}
                        \/ Stored(t)'
      BY <2>2 DEF QueuedIsKept
    <3>1. \A v \in rest : phase'[a] # "unlink" /\ v \in batch'[a] \cup {entry'[a]}
      BY <1>2, <2>1, <2>2 DEF AdaptersOK
    <3>2. CASE t \in file \cup dropped
      BY <3>1, <3>2
    <3>3. CASE Stored(t)
      BY <1>1, <3>3
    <3>4. ASSUME NEW b \in Adapters, phase[b] # "unlink", t \in batch[b] \cup {entry[b]}
          PROVE  \/ t \in file' \cup dropped'
                 \/ \E d \in Adapters : phase'[d] # "unlink" /\ t \in batch'[d] \cup {entry'[d]}
                 \/ Stored(t)'
      <4>1. CASE b = a
        BY <1>1, <3>1, <3>4, <4>1
      <4>2. CASE b # a
        BY <1>2, <2>1, <2>2, <3>4, <4>2 DEF AdaptersOK
      <4> QED
        BY <4>1, <4>2
    <3> QED
      BY <3>2, <3>3, <3>4 DEF DeliveryInv, QueuedIsKept
  <2> QED
    BY <1>1, <2>3, <2>5, <2>6, <2>7 DEF DeliveryInv
<1> QED
  BY <1>4, <1>5

\* A request that is no replay's is answered.
LEMMA AnswersKeepsInv ==
  ASSUME DeliveryInv, UNCHANGED daemonVars, NEW a \in Adapters,
         NEW answer \in {"answered", "queued"}, Answers(a, answer), Hangs(a),
         UNCHANGED <<batch, entry, dropped>>,
         phase[a] # "unlink", entry[a] = None,
         file \subseteq file', file' \subseteq Turns,
         asked[a] \in Turns =>
           IF answer = "answered" THEN Stored(asked[a]) ELSE asked[a] \in file'
  PROVE  DeliveryInv'
<1>1. /\ DaemonInv' /\ pc' = pc /\ turn' = turn
      /\ \A t : Stored(t)' = Stored(t)
  BY DaemonStutters DEF DeliveryInv
<1>2. AdaptersOK
  BY DEF DeliveryInv
<1>3. /\ exec' = [exec EXCEPT ![a] = None]
      /\ phase' = [phase EXCEPT ![a] = "idle"]
      /\ asked' = [asked EXCEPT ![a] = None]
      /\ told' = IF asked[a] \in Turns THEN [told EXCEPT ![asked[a]] = answer] ELSE told
      /\ batch' = batch /\ entry' = entry /\ dropped' = dropped
  BY DEF Hangs, Answers, Enters
<1>4. AdaptersOK'
  BY <1>2, <1>3 DEF AdaptersOK
<1>5. AdapterIsConsistent'
  BY <1>1, <1>2, <1>3 DEF DeliveryInv, AdaptersOK, AdapterIsConsistent, Carries
<1>6. ReplaysAfterSuccess'
  BY <1>1, <1>2, <1>3 DEF DeliveryInv, AdaptersOK, ReplaysAfterSuccess
<1>7. AnsweredIsStored'
  BY <1>1, <1>2, <1>3 DEF DeliveryInv, AdaptersOK, AnsweredIsStored
<1>8. QueuedIsKept'
  <2> SUFFICES ASSUME NEW t \in Turns, told'[t] = "queued"
               PROVE  \/ t \in file' \cup dropped'
                      \/ \E b \in Adapters : phase'[b] # "unlink" /\ t \in batch'[b] \cup {entry'[b]}
                      \/ Stored(t)'
    BY DEF QueuedIsKept
  <2>1. CASE t = asked[a]
    BY <1>2, <1>3, <2>1 DEF AdaptersOK
  <2>2. CASE t # asked[a]
    <3>1. told[t] = "queued"
      BY <1>2, <1>3, <2>2 DEF AdaptersOK
    <3>2. \A b \in Adapters : phase[b] # "unlink" => phase'[b] # "unlink"
      BY <1>2, <1>3 DEF AdaptersOK
    <3> QED
      BY <1>1, <1>3, <3>1, <3>2 DEF DeliveryInv, QueuedIsKept
  <2> QED
    BY <2>1, <2>2
<1> QED
  BY <1>1, <1>4, <1>5, <1>6, <1>7, <1>8 DEF DeliveryInv

\* A call succeeds whose turn, if it carries one, is stored.
LEMMA SucceedsKeepsInv ==
  ASSUME DeliveryInv, UNCHANGED daemonVars, NEW a \in Adapters, Succeeds(a),
         phase[a] \in {"socket", "http"}, Carries(a) \in Turns => Stored(Carries(a))
  PROVE  DeliveryInv'
<1>1. AdaptersOK /\ file' = file /\ dropped' = dropped /\ Hangs(a)
  BY DEF DeliveryInv, Succeeds
<1>2. CASE entry[a] # None
  <2>1. entry[a] \in Turns /\ Carries(a) = entry[a] /\ batch[a] \in SUBSET Turns
    BY <1>1, <1>2 DEF AdaptersOK, Carries
  <2>2. asked[a] \in Turns => Stored(asked[a])
    BY <1>2 DEF DeliveryInv, ReplaysAfterSuccess
  <2>3. Replays(a, batch[a])
    BY <1>2 DEF Succeeds
  <2> QED
    BY <1>1, <2>1, <2>2, <2>3, ReplaysKeepsInv DEF AdaptersOK
<1>3. CASE entry[a] = None /\ ~ (~ online[a] /\ file # {})
  <2>1. Answers(a, "answered") /\ UNCHANGED <<batch, entry>> /\ Carries(a) = asked[a]
    BY <1>3 DEF Succeeds, Carries
  <2> QED
    BY <1>1, <1>3, <2>1, AnswersKeepsInv DEF AdaptersOK
<1>4. CASE entry[a] = None /\ ~ online[a] /\ file # {}
  <2>1. /\ DaemonInv' /\ pc' = pc /\ turn' = turn
        /\ \A t : Stored(t)' = Stored(t)
    BY DaemonStutters DEF DeliveryInv
  <2>2. /\ phase' = [phase EXCEPT ![a] = "unlink"]
        /\ batch' = [batch EXCEPT ![a] = file]
        /\ exec' = [exec EXCEPT ![a] = None]
        /\ asked' = asked /\ entry' = entry /\ told' = told
    BY <1>4 DEF Succeeds, Enters, Hangs
  <2>3. asked[a] \in Turns => Stored(asked[a])
    BY <1>4 DEF Carries
  <2>4. AdaptersOK'
    BY <1>1, <2>2 DEF AdaptersOK
  <2>5. AdapterIsConsistent'
    BY <1>1, <1>4, <2>1, <2>2 DEF DeliveryInv, AdaptersOK, AdapterIsConsistent, Carries
  <2>6. ReplaysAfterSuccess' /\ AnsweredIsStored'
    BY <1>1, <2>1, <2>2, <2>3 DEF DeliveryInv, AdaptersOK, ReplaysAfterSuccess, AnsweredIsStored
  <2>7. batch[a] = {}
    BY <1>4 DEF DeliveryInv, AdapterIsConsistent
  <2>8. \A b \in Adapters, t \in Turns : phase[b] # "unlink" /\ t \in batch[b] \cup {entry[b]} =>
          phase'[b] # "unlink" /\ t \in batch'[b] \cup {entry'[b]}
    BY <1>1, <1>4, <2>2, <2>7, PlanCreationAssumption DEF AdaptersOK
  <2>9. QueuedIsKept'
    BY <1>1, <2>1, <2>2, <2>8 DEF DeliveryInv, QueuedIsKept
  <2> QED
    BY <2>1, <2>4, <2>5, <2>6, <2>9 DEF DeliveryInv
<1> QED
  BY <1>2, <1>3, <1>4

\* A call is given up: its turn is queued, or its replay is.
LEMMA SoftFailsKeepsInv ==
  ASSUME DeliveryInv, UNCHANGED daemonVars, NEW a \in Adapters, SoftFails(a),
         phase[a] \in {"socket", "http"}
  PROVE  DeliveryInv'
<1>1. AdaptersOK /\ Hangs(a)
  BY DEF DeliveryInv, SoftFails
<1>2. CASE entry[a] # None
  <2>1. /\ Replays(a, batch[a]) /\ batch[a] \in SUBSET Turns
        /\ file' = file /\ dropped' = dropped \cup {entry[a]} /\ entry[a] \in Turns
    BY <1>1, <1>2 DEF SoftFails, AdaptersOK
  <2>2. asked[a] \in Turns => Stored(asked[a])
    BY <1>2 DEF DeliveryInv, ReplaysAfterSuccess
  <2> QED
    BY <1>1, <2>1, <2>2, ReplaysKeepsInv DEF AdaptersOK
<1>3. CASE entry[a] = None
  <2>1. /\ Answers(a, "queued")
        /\ file' = file \cup ({asked[a]} \cap Turns)
        /\ UNCHANGED <<batch, entry, dropped>>
    BY <1>3 DEF SoftFails
  <2> QED
    BY <1>1, <1>3, <2>1, AnswersKeepsInv DEF AdaptersOK
<1> QED
  BY <1>2, <1>3

LEMMA RetriesKeepsInv ==
  ASSUME DeliveryInv, UNCHANGED daemonVars, NEW a \in Adapters, Retries(a)
  PROVE  DeliveryInv'
<1>1. CASE phase[a] = "http" /\ SoftFails(a)
  BY <1>1, SoftFailsKeepsInv
<1>2. ASSUME phase[a] = "socket", Enters(a, "http"), Hangs(a),
             UNCHANGED <<asked, online, batch, entry, file, told, dropped>>
      PROVE  DeliveryInv'
  <2>1. /\ DaemonInv' /\ pc' = pc /\ turn' = turn
        /\ \A t : Stored(t)' = Stored(t)
    BY DaemonStutters DEF DeliveryInv
  <2>2. phase' = [phase EXCEPT ![a] = "http"] /\ exec' = [exec EXCEPT ![a] = None]
    BY <1>2 DEF Enters, Hangs
  <2>3. AdaptersOK /\ AdaptersOK'
    BY <1>2, <2>2 DEF DeliveryInv, AdaptersOK
  <2>4. AdapterIsConsistent'
    BY <1>2, <2>1, <2>2, <2>3 DEF DeliveryInv, AdaptersOK, AdapterIsConsistent, Carries
  <2>5. ReplaysAfterSuccess' /\ AnsweredIsStored'
    BY <1>2, <2>1, <2>2, <2>3 DEF DeliveryInv, AdaptersOK, ReplaysAfterSuccess, AnsweredIsStored
  <2>6. \A b \in Adapters : phase'[b] # "unlink" <=> phase[b] # "unlink"
    BY <1>2, <2>2, <2>3 DEF AdaptersOK
  <2>7. QueuedIsKept'
    BY <1>2, <2>1, <2>6 DEF DeliveryInv, QueuedIsKept
  <2> QED
    BY <2>1, <2>3, <2>4, <2>5, <2>7 DEF DeliveryInv
<1> QED
  BY <1>1, <1>2 DEF Retries

LEMMA UnlinkKeepsInv ==
  ASSUME DeliveryInv, NEW a \in Adapters, Unlink(a)
  PROVE  DeliveryInv'
<1> DEFINE rest == IF file = {} THEN {} ELSE batch[a]
<1>1. /\ UNCHANGED daemonVars
      /\ phase[a] = "unlink" /\ Replays(a, rest)
      /\ dropped' = IF file = {} THEN dropped ELSE dropped \cup (file \ batch[a])
      /\ file' = {} /\ exec' = exec
  BY DEF Unlink
<1>2. AdaptersOK /\ exec[a] = None
  BY <1>1 DEF DeliveryInv, AdapterIsConsistent
<1>3. Hangs(a)
  BY <1>1, <1>2 DEF Hangs, AdaptersOK
<1>4. asked[a] \in Turns => Stored(asked[a])
  BY <1>1 DEF DeliveryInv, ReplaysAfterSuccess
<1>5. rest \in SUBSET Turns /\ file' \subseteq Turns /\ dropped' \subseteq Turns
  BY <1>1, <1>2 DEF AdaptersOK
<1>6. \A t \in file \cup dropped : t \in file' \cup dropped' \cup rest
  BY <1>1
<1> HIDE DEF rest
<1> QED
  BY <1>1, <1>3, <1>4, <1>5, <1>6, ReplaysKeepsInv

\* What an adapter that ends had taken from the file and not replayed is given
\* up.
LEMMA RestartsKeepsInv ==
  ASSUME DeliveryInv, NEW a \in Adapters, Restarts(a)
  PROVE  DeliveryInv'
<1>1. /\ phase' = [phase EXCEPT ![a] = "idle"]
      /\ asked' = [asked EXCEPT ![a] = None]
      /\ exec' = [exec EXCEPT ![a] = None]
      /\ batch' = [batch EXCEPT ![a] = {}]
      /\ entry' = [entry EXCEPT ![a] = None]
      /\ dropped' = IF phase[a] = "unlink" THEN dropped
                    ELSE dropped \cup batch[a] \cup ({entry[a]} \ {None})
      /\ file' = file /\ told' = told
  BY DEF Restarts, Hangs
<1>2. /\ pc' = pc /\ turn' = turn /\ messages' = messages
      /\ inside' = inside /\ ahead' = ahead /\ landed' = landed /\ late' = late
  BY DEF Restarts, local, graph, queue
<1>3. DaemonInv'
  BY <1>2 DEF DeliveryInv, DaemonInv, PlacesOK, QueueOK, Holds, MessageIsFirst, LateIsBegun
<1>4. \A t : Stored(t)' = Stored(t)
  BY <1>2 DEF Stored
<1>5. AdaptersOK /\ AdaptersOK'
  BY <1>1 DEF DeliveryInv, AdaptersOK
<1>6. AdapterIsConsistent'
  BY <1>1, <1>2, <1>5 DEF DeliveryInv, AdaptersOK, AdapterIsConsistent, Carries
<1>7. ReplaysAfterSuccess' /\ AnsweredIsStored'
  BY <1>1, <1>4, <1>5 DEF DeliveryInv, AdaptersOK, ReplaysAfterSuccess, AnsweredIsStored
<1>8. QueuedIsKept'
  <2> SUFFICES ASSUME NEW t \in Turns, told[t] = "queued"
               PROVE  \/ t \in file \cup dropped'
                      \/ \E b \in Adapters : phase'[b] # "unlink" /\ t \in batch'[b] \cup {entry'[b]}
                      \/ Stored(t)
    BY <1>1, <1>4 DEF QueuedIsKept
  <2>1. ASSUME NEW b \in Adapters, phase[b] # "unlink", t \in batch[b] \cup {entry[b]}
        PROVE  \/ t \in dropped'
               \/ \E d \in Adapters : phase'[d] # "unlink" /\ t \in batch'[d] \cup {entry'[d]}
    <3>1. CASE b = a
      BY <1>1, <2>1, <3>1, PlanCreationAssumption
    <3>2. CASE b # a
      BY <1>1, <1>5, <2>1, <3>2 DEF AdaptersOK
    <3> QED
      BY <3>1, <3>2
  <2> QED
    BY <1>1, <2>1 DEF DeliveryInv, QueuedIsKept
<1> QED
  BY <1>3, <1>5, <1>6, <1>7, <1>8 DEF DeliveryInv

LEMMA AskKeepsInv ==
  ASSUME DeliveryInv, NEW a \in Adapters, NEW r \in Turns \cup {Other}, Ask(a, r)
  PROVE  DeliveryInv'
<1>1. /\ phase[a] = "idle"
      /\ r \in Turns => told[r] = "nothing"
      /\ told' = IF r \in Turns THEN [told EXCEPT ![r] = "asked"] ELSE told
      /\ asked' = [asked EXCEPT ![a] = r]
      /\ phase' = [phase EXCEPT ![a] = "socket"]
      /\ exec' = exec /\ batch' = batch /\ entry' = entry /\ file' = file /\ dropped' = dropped
  BY DEF Ask, Enters
<1>2. /\ DaemonInv' /\ pc' = pc /\ turn' = turn
      /\ \A t : Stored(t)' = Stored(t)
  BY DaemonStutters DEF DeliveryInv, Ask
<1>3. AdaptersOK /\ AdaptersOK'
  BY <1>1 DEF DeliveryInv, AdaptersOK
<1>4. AdapterIsConsistent'
  BY <1>1, <1>2, <1>3 DEF DeliveryInv, AdaptersOK, AdapterIsConsistent, Carries
<1>5. ReplaysAfterSuccess' /\ AnsweredIsStored'
  BY <1>1, <1>2, <1>3 DEF DeliveryInv, AdaptersOK, AdapterIsConsistent,
                          ReplaysAfterSuccess, AnsweredIsStored
<1>6. \A b \in Adapters : phase[b] # "unlink" => phase'[b] # "unlink"
  BY <1>1, <1>3 DEF AdaptersOK
<1>7. \A t \in Turns : told'[t] = "queued" => told[t] = "queued"
  BY <1>1, <1>3 DEF AdaptersOK
<1>8. QueuedIsKept'
  BY <1>1, <1>2, <1>6, <1>7 DEF DeliveryInv, QueuedIsKept
<1> QED
  BY <1>2, <1>3, <1>4, <1>5, <1>8 DEF DeliveryInv

LEMMA ConnectsKeepsInv ==
  ASSUME DeliveryInv, NEW a \in Adapters, Connects(a)
  PROVE  DeliveryInv'
<1>1. PICK c \in Calls : Begin(c, Carries(a)) /\ exec' = [exec EXCEPT ![a] = c]
  BY DEF Connects
<1>2. /\ phase[a] \in {"socket", "http"} /\ Carries(a) \in Turns
      /\ phase' = phase /\ asked' = asked /\ batch' = batch /\ entry' = entry
      /\ file' = file /\ told' = told /\ dropped' = dropped
  BY DEF Connects
<1>3. DaemonInv' /\ DaemonKept /\ turn'[c] = Carries(a) /\ pc'[c] # "idle"
  BY <1>1, <1>2, BeginKeepsInv DEF DeliveryInv
<1>4. \A t : Stored(t) => Stored(t)'
  BY <1>3, StoredForGood DEF DeliveryInv
<1>5. AdaptersOK /\ AdaptersOK'
  BY <1>1, <1>2 DEF DeliveryInv, AdaptersOK
<1>6. AdapterIsConsistent'
  <2>1. \A b \in Adapters : Carries(b)' = Carries(b)
    BY <1>2 DEF Carries
  <2>2. \A b \in Adapters : exec'[b] = IF b = a THEN c ELSE exec[b]
    BY <1>1, <1>5 DEF AdaptersOK
  <2> QED
    BY <1>2, <1>3, <1>5, <2>1, <2>2 DEF DeliveryInv, AdaptersOK, AdapterIsConsistent, DaemonKept
<1>7. ReplaysAfterSuccess' /\ AnsweredIsStored' /\ QueuedIsKept'
  BY <1>2, <1>4 DEF DeliveryInv, ReplaysAfterSuccess, AnsweredIsStored, QueuedIsKept
<1> QED
  BY <1>3, <1>5, <1>6, <1>7 DEF DeliveryInv

-----------------------------------------------------------------------------
LEMMA InitDeliveryInv == DeliveryInit => DeliveryInv
<1> SUFFICES ASSUME DeliveryInit PROVE DeliveryInv
  OBVIOUS
<1>1. QueueOK
  BY InitQueueIsOK DEF DeliveryInit, Init
<1>2. PlacesOK
  BY <1>1 DEF DeliveryInit, Init, QueueInit, PlacesOK, Awaiting
<1>3. MessageIsFirst /\ LateIsBegun /\ messages \subseteq Calls
  BY DEF DeliveryInit, Init, QueueInit, MessageIsFirst, LateIsBegun, PastMessage
<1>4. AdaptersOK /\ AdapterIsConsistent /\ ReplaysAfterSuccess
  BY PlanCreationAssumption DEF DeliveryInit, AdaptersOK, AdapterIsConsistent, ReplaysAfterSuccess
<1>5. AnsweredIsStored /\ QueuedIsKept
  BY DEF DeliveryInit, AnsweredIsStored, QueuedIsKept
<1> QED
  BY <1>2, <1>3, <1>4, <1>5 DEF DeliveryInv, DaemonInv

\* The answer of an execution that has answered is true: it stored its message.
LEMMA AnswerIsTrue ==
  ASSUME DeliveryInv, NEW a \in Adapters, Answered(a), Carries(a) \in Turns
  PROVE  Stored(Carries(a))
<1>1. exec[a] # None /\ pc[exec[a]] = "answered" /\ exec[a] \in Calls
  BY TurnDeliveryAssumption DEF DeliveryInv, AdaptersOK, Answered
<1> QED
  BY <1>1 DEF DeliveryInv, DaemonInv, MessageIsFirst, PastMessage, AdapterIsConsistent, Stored

LEMMA NextKeepsInv ==
  ASSUME DeliveryInv, [Next]_vars
  PROVE  DeliveryInv'
<1>1. CASE UNCHANGED vars
  <2>1. UNCHANGED daemonVars /\ UNCHANGED <<adapter, file, told, dropped>>
    BY <1>1 DEF vars
  <2>2. DaemonInv' /\ DaemonKept
    BY <2>1, DaemonStutters DEF DeliveryInv, DaemonKept, daemonVars, graph
  <2> QED
    BY <2>1, <2>2, DaemonStepKeepsInv
<1>2. ASSUME NEW a \in Adapters, Delivery(a)
      PROVE  DeliveryInv'
  <2>1. CASE \E r \in Turns \cup {Other} : Ask(a, r)
    BY <2>1, AskKeepsInv
  <2>2. CASE Connects(a)
    BY <2>2, ConnectsKeepsInv
  <2>3. CASE Refused(a) \/ TimesOut(a)
    BY <2>3, RetriesKeepsInv DEF Refused, TimesOut
  <2>4. CASE Answered(a)
    <3>1. Carries(a) \in Turns => Stored(Carries(a))
      BY <2>4, AnswerIsTrue
    <3> QED
      BY <2>4, <3>1, SucceedsKeepsInv DEF Answered
  <2>5. CASE Refuted(a)
    BY <2>5, SoftFailsKeepsInv DEF Refuted
  <2>6. CASE CutOff(a)
    <3>1. phase[a] \in {"socket", "http"}
      BY <2>6 DEF CutOff, DeliveryInv, AdapterIsConsistent, AdaptersOK
    <3>2. UNCHANGED daemonVars /\ (SoftFails(a) \/ Retries(a))
      BY <2>6 DEF CutOff
    <3> QED
      BY <3>1, <3>2, SoftFailsKeepsInv, RetriesKeepsInv
  <2>7. CASE Unlink(a)
    BY <2>7, UnlinkKeepsInv
  <2>8. CASE Restarts(a)
    BY <2>8, RestartsKeepsInv
  <2> QED
    BY <1>2, <2>1, <2>2, <2>3, <2>4, <2>5, <2>6, <2>7, <2>8 DEF Delivery
<1>3. CASE Execution
  <2>1. DaemonInv' /\ DaemonKept
    BY <1>3, ExecutesKeepsInv, CommitsKeepsInv DEF DeliveryInv, Execution
  <2> QED
    BY <1>3, <2>1, DaemonStepKeepsInv DEF Execution
<1>4. CASE Stop
  <2>1. DaemonInv' /\ DaemonKept
    BY <1>4, StoppedKeepsInv DEF DeliveryInv, Stop
  <2> QED
    BY <1>4, <2>1, DaemonStepKeepsInv DEF Stop
<1>5. CASE Start
  <2>1. DaemonInv' /\ DaemonKept
    BY <1>5, DaemonStutters DEF DeliveryInv, DaemonKept, daemonVars, graph, Start
  <2> QED
    BY <1>5, <2>1, DaemonStepKeepsInv DEF Start
<1> QED
  BY <1>1, <1>2, <1>3, <1>4, <1>5 DEF Next

\* DeliveryInv is an invariant: messages are stored first, and queued turns are
\* kept (call_brain_soft, handle_mcp_request and _replay_offline_queue on one
\* side, notify_turn on the other).
THEOREM DeliverySafety == Spec => []DeliveryInv
<1>1. DeliveryInit => DeliveryInv
  BY InitDeliveryInv
<1>2. DeliveryInv /\ [Next]_vars => DeliveryInv'
  BY NextKeepsInv
<1> QED
  BY <1>1, <1>2, PTL DEF Spec

\* What a client is told of its turn is true: answered is stored, queued is in
\* the file, on its way, stored, or given up where the code gives it up.
THEOREM ClientsAreToldTheTruth == Spec => []ToldIsTrue
<1>1. DeliveryInv => ToldIsTrue
  BY DEF DeliveryInv, AnsweredIsStored, QueuedIsKept, ToldIsTrue
<1> QED
  BY <1>1, DeliverySafety, PTL

-----------------------------------------------------------------------------
(***************************************************************************)
(* The plan of an execution.  PlanOf(c) says how much of the plan of       *)
(* execution c is in the graph when it is at a given place; it holds as    *)
(* long as c has not given up a statement, for statements only touch what  *)
(* is their execution's.                                                   *)
(***************************************************************************)

PlanTyped ==
  /\ planned \subseteq Turns
  /\ step \in [Calls -> 0 .. Steps]
  /\ plan \in [Calls -> Calls \cup {None}]
  /\ listed \in [Calls -> 0 .. Steps]
  /\ UNION {plans, joined, chained, made, undone, strayed} \subseteq Calls
  /\ steps \cup links \subseteq Calls \X (1 .. Steps)
  /\ disturbed \in BOOLEAN
  /\ failures \in 0 .. MaxFailures
  /\ \A c \in Calls : pc[c] \in {"step", "link"} => step[c] # 0

Kinds == {"message", "plan", "step", "link", "join", "chain", "dropSteps", "dropPlan"}

\* A statement of execution c with what it selects, which is c's.
OwnStatement(w, on) ==
  /\ w.kind \in Kinds
  /\ w.call \in Calls
  /\ on \subseteq IF w.kind \in {"step", "link", "dropSteps"} THEN StepsOf(w.call) ELSE {w.call}
  /\ w.kind = "step" \/ w.kind = "link" => <<w.call, w.step>> \in StepsOf(w.call)

\* Whoever gave up a statement did so because the statement raised, and is
\* past answering with a plan of its own.
LateIsStray ==
  \A w \in late : OwnStatement(w.statement, w.on) /\ w.statement.call \in strayed

StrayedFailed ==
  \A c \in strayed :
    c \notin made /\ pc[c] \in {"error", "dropSteps", "dropPlan", "answered", "lost"}

EdgesHaveEnds(c) ==
  /\ StepsOf(c) \cap links \subseteq steps
  /\ c \in joined \/ StepsOf(c) \cap links # {} => c \in plans
  /\ c \in chained => StepsOf(c) \subseteq steps

NoSteps(c) == StepsOf(c) \cap steps = {}

\* Steps of c's plan before n, with their edges.
WrittenUpTo(c, n) == \A m \in 1 .. Steps : m < n => <<c, m>> \in steps \cap links

\* What is written when c goes to its next query.
PlanAt(c) ==
  /\ pc[c] \in {"step", "link", "join", "chain"} => c \in plans
  /\ pc[c] \in {"step", "link"} => WrittenUpTo(c, step[c])
  /\ pc[c] = "link" => <<c, step[c]>> \in steps
  /\ pc[c] \in {"join", "chain"} => StepsOf(c) \subseteq steps \cap links
  /\ pc[c] = "chain" => c \in joined
  /\ pc[c] = "dropPlan" => NoSteps(c)
  /\ c \in made => Whole(c) /\ StepsOf(c) \subseteq steps /\ pc[c] = "answered"
  /\ c \in undone => NoSteps(c) /\ c \notin plans /\ pc[c] \in Ended

\* What the statement that it awaits has written when it has committed.
PlanLanded(c) ==
  landed /\ Holds(c) =>
    /\ pc[c] = "plan" => c \in plans
    /\ pc[c] = "step" => <<c, step[c]>> \in steps
    /\ pc[c] = "link" => <<c, step[c]>> \in links
    /\ pc[c] = "join" => c \in joined
    /\ pc[c] = "chain" => c \in chained
    /\ pc[c] = "dropSteps" => NoSteps(c)
    /\ pc[c] = "dropPlan" => c \notin plans

PlanOf(c) == EdgesHaveEnds(c) /\ PlanAt(c) /\ PlanLanded(c)

PlanInv ==
  /\ DaemonInv
  /\ PlanTyped
  /\ LateIsStray
  /\ StrayedFailed
  /\ \A c \in Calls \ strayed : PlanOf(c)

\* Executions of a turn that do not overlap and do not fail: at most one writes
\* a plan, and it is written before another looks for it.
QuietAt(c) ==
  /\ pc[c] \notin {"dropSteps", "dropPlan", "error", "lost"}
  /\ step[c] > 0 => pc[c] \in {"step", "link", "join", "chain"} \/ c \in made
  /\ c \in plans => pc[c] \in {"plan", "step", "link", "join", "chain"} \/ c \in made
  /\ pc[c] = "plan" => \A d \in plans : turn[d] = turn[c] => d = c
  /\ plan[c] # None => pc[c] \in {"list", "answered"}
  /\ pc[c] = "list" => plan[c] \in made /\ turn[plan[c]] = turn[c]
  /\ pc[c] = "answered" /\ turn[c] \in planned =>
       \E d \in made :
         /\ turn[d] = turn[c]
         /\ plan[c] \in {d, None}
         /\ plan[c] = d /\ d # c => listed[c] = Steps

Quiet ==
  /\ late = {} /\ strayed = {}
  /\ \A c, d \in Running : turn[c] = turn[d] => c = d
  /\ \A c, d \in plans : turn[c] = turn[d] => c = d
  /\ \A c \in Calls : QuietAt(c)

QuietInv == ~ disturbed => Quiet

\* The adapters' side of the types: an adapter has a request exactly while it is
\* at work on one.
AskedOK ==
  /\ daemon \in BOOLEAN
  /\ online \in [Adapters -> BOOLEAN]
  /\ \A a \in Adapters : asked[a] = None <=> phase[a] = "idle"

-----------------------------------------------------------------------------
\* Nothing of the plan of execution d changes.
SamePlan(d) ==
  /\ d \in plans' <=> d \in plans
  /\ d \in joined' <=> d \in joined
  /\ d \in chained' <=> d \in chained
  /\ \A m \in 1 .. Steps : /\ <<d, m>> \in steps' <=> <<d, m>> \in steps
                           /\ <<d, m>> \in links' <=> <<d, m>> \in links

LEMMA StepsOfIs ==
  ASSUME NEW c
  PROVE  /\ \A s : s \in StepsOf(c) <=> \E m \in 1 .. Steps : s = <<c, m>>
         /\ <<c, 1>> \in StepsOf(c)
BY PlanCreationAssumption DEF StepsOf

LEMMA SelectsOwn ==
  ASSUME NEW w, OwnStatement(w, {})
  PROVE  OwnStatement(w, Selects(w))
BY DEF OwnStatement, Kinds, Selects

\* A statement that commits changes what is its execution's, and no other plan.
LEMMA WritesOwn ==
  ASSUME PlanTyped, NEW w, NEW on, OwnStatement(w, on), Writes(w, on)
  PROVE  /\ UNION {plans', joined', chained'} \subseteq Calls
         /\ steps' \cup links' \subseteq Calls \X (1 .. Steps)
         /\ \A d \in Calls \ {w.call} : SamePlan(d)
<1>1. /\ plans \subseteq Calls /\ joined \subseteq Calls /\ chained \subseteq Calls
      /\ steps \subseteq Calls \X (1 .. Steps) /\ links \subseteq Calls \X (1 .. Steps)
  BY DEF PlanTyped
<1>2. CASE w.kind \in {"step", "link", "dropSteps"}
  <2>1. w.call \in Calls /\ on \subseteq StepsOf(w.call)
    BY <1>2 DEF OwnStatement
  <2>2. on \subseteq Calls \X (1 .. Steps)
    BY <2>1 DEF StepsOf
  <2>3. /\ plans' = plans /\ joined' = joined
        /\ chained' = {c \in chained : StepsOf(c) \cap (IF w.kind = "dropSteps" THEN on ELSE {}) = {}}
        /\ steps' = (IF w.kind = "step" THEN steps \cup on ELSE steps)
                      \ (IF w.kind = "dropSteps" THEN on ELSE {})
        /\ links' = (IF w.kind = "link" THEN links \cup on ELSE links)
                      \ (IF w.kind = "dropSteps" THEN on ELSE {})
    BY <1>2 DEF Writes
  <2>4. ASSUME NEW d \in Calls \ {w.call}
        PROVE  SamePlan(d)
    <3>1. StepsOf(d) \cap on = {}
      BY <2>1 DEF StepsOf
    <3>2. \A m \in 1 .. Steps : <<d, m>> \notin on
      BY <3>1, StepsOfIs
    <3> QED
      BY <2>3, <3>1, <3>2 DEF SamePlan
  <2> QED
    BY <1>1, <2>2, <2>3, <2>4
<1>3. CASE w.kind \notin {"step", "link", "dropSteps"}
  <2>1. w.call \in Calls /\ on \subseteq {w.call}
    BY <1>3 DEF OwnStatement
  <2>2. /\ plans' = (IF w.kind = "plan" THEN plans \cup on ELSE plans)
                      \ (IF w.kind = "dropPlan" THEN on ELSE {})
        /\ joined' = (IF w.kind = "join" THEN joined \cup on ELSE joined)
                      \ (IF w.kind = "dropPlan" THEN on ELSE {})
        /\ chained' = IF w.kind = "chain" THEN chained \cup on ELSE chained
        /\ steps' = steps
        /\ links' = {s \in links : s[1] \notin (IF w.kind = "dropPlan" THEN on ELSE {})}
    BY <1>3 DEF Writes
  <2> QED
    BY <1>1, <2>1, <2>2 DEF SamePlan
<1> QED
  BY <1>2, <1>3

LEMMA SamePlanKeeps ==
  ASSUME NEW d \in Calls, SamePlan(d), PlanOf(d), pc'[d] = pc[d], step'[d] = step[d],
         step[d] \in 0 .. Steps, pc[d] \in {"step", "link"} => step[d] # 0,
         landed' /\ Holds(d)' => landed /\ Holds(d),
         d \in made' <=> d \in made, d \in undone' <=> d \in undone
  PROVE  PlanOf(d)'
<1>1. ASSUME NEW s \in StepsOf(d)
      PROVE  (s \in steps' <=> s \in steps) /\ (s \in links' <=> s \in links)
  <2>1. PICK m \in 1 .. Steps : s = <<d, m>>
    BY StepsOfIs
  <2> QED
    BY <2>1 DEF SamePlan
<1>2. (d \in plans' <=> d \in plans) /\ (d \in joined' <=> d \in joined)
      /\ (d \in chained' <=> d \in chained)
  BY DEF SamePlan
<1>3. (StepsOf(d) \cap steps' = {} <=> NoSteps(d)) /\ StepsOf(d)' = StepsOf(d)
  BY <1>1 DEF NoSteps, StepsOf
<1>4. EdgesHaveEnds(d)'
  BY <1>1, <1>2, <1>3 DEF PlanOf, EdgesHaveEnds
<1>5. \A n : WrittenUpTo(d, n) => WrittenUpTo(d, n)'
  BY DEF SamePlan, WrittenUpTo
<1>6. pc[d] \in {"step", "link"} => step[d] \in 1 .. Steps
  OBVIOUS
<1>7. PlanAt(d)'
  BY <1>1, <1>2, <1>3, <1>5, <1>6 DEF PlanOf, PlanAt, NoSteps, Whole, SamePlan
<1>8. PlanLanded(d)'
  BY <1>2, <1>3, <1>6 DEF PlanOf, PlanLanded, NoSteps, SamePlan
<1> QED
  BY <1>4, <1>7, <1>8 DEF PlanOf

\* An execution that has not ended has not answered with a plan of its own.
LEMMA RunningIsNotMade ==
  ASSUME PlanInv, NEW c \in Calls, pc[c] \notin Ended
  PROVE  c \notin made /\ (c \notin strayed => c \notin undone)
<1>1. CASE c \in strayed
  BY <1>1 DEF PlanInv, StrayedFailed
<1>2. CASE c \notin strayed
  <2>1. PlanAt(c)
    BY <1>2 DEF PlanInv, PlanOf
  <2> QED
    BY <2>1 DEF PlanAt, Ended
<1> QED
  BY <1>1, <1>2

\* Execution c goes on; the other plans are not its business.
LEMMA GoingOnKeepsPlans ==
  ASSUME PlanInv, NEW c \in Calls, NEW next \in Awaiting \cup Reading \cup Ended, GoesTo(c, next),
         UNCHANGED <<plans, steps, links, joined, chained>>, DaemonInv',
         landed' \in BOOLEAN, landed' => landed /\ ~ Holds(c),
         PlanTyped', LateIsStray', StrayedFailed', strayed \subseteq strayed',
         \A d \in Calls \ {c} :
           step'[d] = step[d] /\ (d \in made' <=> d \in made) /\ (d \in undone' <=> d \in undone),
         c \notin strayed' => PlanAt(c)'
  PROVE  PlanInv'
<1>1. pc' = [pc EXCEPT ![c] = next]
  BY DEF GoesTo
<1>2. \A d \in Calls : landed' /\ Holds(d)' => d # c /\ landed /\ Holds(d)
  <2>1. Moves(c, TRUE) \/ Moves(c, FALSE)
    BY DEF GoesTo, Moves
  <2>2. QueueOK
    BY DEF PlanInv, DaemonInv, PlacesOK
  <2>3. \A asks \in BOOLEAN : Moves(c, asks) =>
          \A d \in Calls : landed' /\ Holds(d)' => d # c /\ Holds(d)
    BY <2>2, MovesKeepsQueue
  <2> QED
    BY <2>1, <2>3
<1>3. ASSUME NEW d \in Calls \ strayed', d # c
      PROVE  PlanOf(d)'
  <2>1. PlanOf(d)
    BY <1>3 DEF PlanInv
  <2>2. pc'[d] = pc[d] /\ step[d] \in 0 .. Steps /\ (pc[d] \in {"step", "link"} => step[d] # 0)
    BY <1>1, <1>3 DEF PlanInv, DaemonInv, PlacesOK, PlanTyped
  <2>3. SamePlan(d)
    BY DEF SamePlan
  <2> QED
    BY <1>2, <1>3, <2>1, <2>2, <2>3, SamePlanKeeps
<1>4. ASSUME c \notin strayed'
      PROVE  PlanOf(c)'
  <2>1. EdgesHaveEnds(c)
    BY <1>4 DEF PlanInv, PlanOf
  <2>2. EdgesHaveEnds(c)'
    BY <2>1 DEF EdgesHaveEnds, StepsOf
  <2>3. PlanLanded(c)'
    BY <1>2 DEF PlanLanded
  <2> QED
    BY <1>4, <2>2, <2>3 DEF PlanOf
<1> QED
  BY <1>3, <1>4 DEF PlanInv

\* Execution c's awaited write returns: its statement has committed.
LEMMA PassingKeepsPlans ==
  ASSUME PlanInv, NEW c \in Calls, NEW at, NEW next \in Awaiting \cup Reading \cup Ended,
         Passes(c, at, next), DaemonInv', PlanTyped', strayed' = strayed,
         \A d \in Calls \ {c} :
           step'[d] = step[d] /\ (d \in made' <=> d \in made) /\ (d \in undone' <=> d \in undone),
         c \in strayed => /\ c \notin made'
                          /\ next \in {"error", "dropSteps", "dropPlan", "answered", "lost"},
         c \notin strayed => PlanAt(c)'
  PROVE  PlanInv'
<1>1. /\ pc[c] = at /\ Holds(c) /\ landed /\ landed' = FALSE /\ late' = late /\ GoesTo(c, next)
      /\ UNCHANGED <<plans, steps, links, joined, chained>>
  BY DEF Passes, Returns, graph
<1>2. pc \in [Calls -> {"idle"} \cup Awaiting \cup Reading \cup Ended]
  BY DEF PlanInv, DaemonInv, PlacesOK
<1>3. LateIsStray'
  BY <1>1 DEF PlanInv, LateIsStray, OwnStatement, StepsOf
<1>4. StrayedFailed'
  <2>1. strayed \subseteq Calls
    BY DEF PlanInv, PlanTyped
  <2> QED
    BY <1>1, <1>2, <2>1 DEF PlanInv, StrayedFailed, GoesTo
<1> QED
  BY <1>1, <1>3, <1>4, GoingOnKeepsPlans

\* It raises: what is left behind is a statement of c's, and c is strayed then.
LEMMA BreakingKeepsPlans ==
  ASSUME PlanInv, NEW c \in Calls, NEW next \in {"error", "answered", "dropSteps"},
         Breaks(c), GoesTo(c, next), DaemonInv',
         UNCHANGED <<turn, step, plan, listed, undone>>, pc[c] # "lookup"
  PROVE  PlanInv'
<1> DEFINE w == [statement |-> Statement(c), on |-> Selects(Statement(c))]
<1>1. /\ c \in inside /\ landed' = (landed /\ ~ Holds(c))
      /\ late' = late \/ late' = late \cup {w}
      /\ strayed' = IF late' # late THEN strayed \cup {c} ELSE strayed
      /\ made' = made /\ failures' = failures + 1 /\ failures + 1 <= MaxFailures
      /\ disturbed' = (disturbed \/ 1 > 0)
      /\ UNCHANGED <<plans, steps, links, joined, chained>>
      /\ pc' = [pc EXCEPT ![c] = next] /\ planned' = planned
  BY DEF Breaks, Raises, Fails, graph, GoesTo
<1>2. /\ pc \in [Calls -> {"idle"} \cup Awaiting \cup Reading \cup Ended]
      /\ pc[c] \in Awaiting /\ landed \in BOOLEAN
  BY <1>1 DEF PlanInv, DaemonInv, PlacesOK, QueueOK
<1>3. OwnStatement(w.statement, w.on) /\ w.statement.call = c
  <2>1. /\ Statement(c).kind = pc[c] /\ Statement(c).call = c
        /\ Statement(c).step = step[c]
    BY DEF Statement
  <2>2. step[c] \in 0 .. Steps /\ (pc[c] \in {"step", "link"} => step[c] # 0)
    BY DEF PlanInv, PlanTyped
  <2>3. pc[c] \in {"step", "link"} => <<c, step[c]>> \in StepsOf(c)
    BY <2>2, PlanCreationAssumption DEF StepsOf
  <2>4. OwnStatement(Statement(c), {})
    BY <1>2, <2>1, <2>3 DEF OwnStatement, Kinds, Awaiting
  <2> QED
    BY <2>1, <2>4, SelectsOwn
<1> HIDE DEF w
<1>4. LateIsStray'
  BY <1>1, <1>3 DEF PlanInv, LateIsStray, OwnStatement, StepsOf
<1>5. c \notin made /\ (c \notin strayed => c \notin undone)
  BY <1>2, RunningIsNotMade DEF Awaiting, Ended
<1>6. StrayedFailed'
  <2>1. strayed \subseteq Calls
    BY DEF PlanInv, PlanTyped
  <2> QED
    BY <1>1, <1>2, <1>5, <2>1 DEF PlanInv, StrayedFailed
<1>7. PlanTyped'
  <2>1. strayed' \subseteq Calls
    BY <1>1 DEF PlanInv, PlanTyped
  <2>2. disturbed' \in BOOLEAN
    BY <1>1
  <2>3. failures' \in 0 .. MaxFailures
    <3>1. failures \in 0 .. MaxFailures
      BY DEF PlanInv, PlanTyped
    <3> QED
      BY <1>1, <3>1, PlanCreationAssumption
  <2>4. \A d \in Calls : pc'[d] \in {"step", "link"} => pc[d] \in {"step", "link"}
    BY <1>1, <1>2
  <2> QED
    BY <1>1, <2>1, <2>2, <2>3, <2>4 DEF PlanInv, PlanTyped
<1>8. c \notin strayed' => PlanAt(c)'
  BY <1>1, <1>2, <1>5 DEF PlanAt
<1>9. next \in Awaiting \cup Reading \cup Ended
  BY DEF Awaiting, Reading, Ended
<1> QED
  BY <1>1, <1>2, <1>4, <1>6, <1>7, <1>8, <1>9, GoingOnKeepsPlans

\* Execution c begins, or goes on after a read.
LEMMA ReadingKeepsPlans ==
  ASSUME PlanInv, NEW c \in Calls, pc[c] \in {"idle"} \cup Reading,
         NEW next \in {"message", "list", "plan", "answered"}, GoesTo(c, next),
         UNCHANGED <<landed, late, step, graph, history>>, DaemonInv',
         plan' \in [Calls -> Calls \cup {None}], listed' \in [Calls -> 0 .. Steps],
         disturbed' \in BOOLEAN, failures' \in 0 .. MaxFailures
  PROVE  PlanInv'
<1>1. /\ pc' = [pc EXCEPT ![c] = next] /\ planned' = planned
      /\ UNCHANGED <<plans, steps, links, joined, chained>>
      /\ made' = made /\ undone' = undone /\ strayed' = strayed
  BY DEF GoesTo, graph, history
<1>2. /\ pc \in [Calls -> {"idle"} \cup Awaiting \cup Reading \cup Ended]
      /\ landed \in BOOLEAN /\ inside = {d \in Calls : pc[d] \in Awaiting}
  BY DEF PlanInv, DaemonInv, PlacesOK, QueueOK
<1>3. ~ Holds(c) /\ pc[c] \notin Ended
  BY <1>2 DEF Holds, Awaiting, Reading, Ended
<1>4. c \notin made /\ c \notin strayed /\ c \notin undone
  BY <1>3, RunningIsNotMade DEF Reading, PlanInv, StrayedFailed
<1>5. PlanTyped'
  <2>1. \A d \in Calls : pc'[d] \in {"step", "link"} => pc[d] \in {"step", "link"}
    BY <1>1, <1>2
  <2> QED
    BY <1>1, <2>1 DEF PlanInv, PlanTyped
<1>6. LateIsStray'
  BY <1>1 DEF PlanInv, LateIsStray, OwnStatement, StepsOf
<1>7. StrayedFailed'
  BY <1>1, <1>2, <1>4 DEF PlanInv, StrayedFailed, PlanTyped
<1>8. PlanAt(c)'
  BY <1>1, <1>2, <1>4 DEF PlanAt
<1>9. next \in Awaiting \cup Reading \cup Ended
  BY DEF Awaiting, Reading, Ended
<1> QED
  BY <1>1, <1>2, <1>3, <1>5, <1>6, <1>7, <1>8, <1>9, GoingOnKeepsPlans

\* The steps that an execution answers for a plan it found are those of one plan.
LEMMA ListedIsTyped ==
  ASSUME PlanTyped, NEW p \in Calls \cup {None}
  PROVE  /\ Cardinality({s \in links \cap steps : s[1] = p}) \in 0 .. Steps
         /\ p \in Calls /\ StepsOf(p) \subseteq links \cap steps =>
              Cardinality({s \in links \cap steps : s[1] = p}) = Steps
<1> DEFINE S == {s \in links \cap steps : s[1] = p}
           f == [m \in 1 .. Steps |-> <<p, m>>]
<1>1. IsFiniteSet(1 .. Steps) /\ Cardinality(1 .. Steps) = Steps
  BY FS_Interval, PlanCreationAssumption
<1>2. f \in Bijection(1 .. Steps, StepsOf(p))
  <2>1. f \in [1 .. Steps -> StepsOf(p)]
    BY DEF StepsOf
  <2>2. \A m, n \in 1 .. Steps : f[m] = f[n] => m = n
    OBVIOUS
  <2>3. \A s \in StepsOf(p) : \E m \in 1 .. Steps : f[m] = s
    BY DEF StepsOf
  <2> QED
    BY <2>1, <2>2, <2>3 DEF Bijection, Injection, Surjection, IsInjective
<1>3. IsFiniteSet(StepsOf(p)) /\ Cardinality(StepsOf(p)) = Steps
  <2>1. ExistsBijection(1 .. Steps, StepsOf(p))
    BY <1>2 DEF ExistsBijection
  <2> QED
    BY <1>1, <2>1, FS_Bijection
<1>4. S \subseteq StepsOf(p)
  BY DEF PlanTyped, StepsOf
<1>5. Cardinality(S) \in Nat /\ Cardinality(S) <= Steps
  BY <1>3, <1>4, FS_Subset, FS_CardinalityType
<1>6. StepsOf(p) \subseteq links \cap steps => S = StepsOf(p)
  BY <1>4 DEF StepsOf
<1> QED
  BY <1>3, <1>5, <1>6, PlanCreationAssumption

-----------------------------------------------------------------------------
\* An execution writes its plan: each of its writes returns, and the next is due.
LEMMA WritingKeepsPlans ==
  ASSUME PlanInv, NEW c \in Calls, DaemonInv',
         \/ MessageStored(c) \/ PlanStored(c) \/ StepStored(c) \/ StepLinked(c)
         \/ PlanJoined(c) \/ PlanChained(c) \/ StepsDropped(c) \/ PlanDropped(c)
  PROVE  PlanInv'
<1>1. /\ pc \in [Calls -> {"idle"} \cup Awaiting \cup Reading \cup Ended]
      /\ step[c] \in 0 .. Steps /\ step \in [Calls -> 0 .. Steps]
      /\ plan \in [Calls -> Calls \cup {None}] /\ Steps \in Nat /\ Steps # 0
      /\ pc[c] \in {"step", "link"} => step[c] # 0
  BY PlanCreationAssumption DEF PlanInv, DaemonInv, PlacesOK, PlanTyped
<1>2. c \notin strayed => EdgesHaveEnds(c) /\ PlanAt(c) /\ PlanLanded(c)
  BY DEF PlanInv, PlanOf
<1>3. c \in strayed => pc[c] \in {"error", "dropSteps", "dropPlan", "answered", "lost"}
  BY DEF PlanInv, StrayedFailed
<1>4. pc[c] \notin Ended => c \notin made /\ (c \notin strayed => c \notin undone)
  BY RunningIsNotMade
<1> DEFINE Typed(next) ==
             /\ step' \in [Calls -> 0 .. Steps] /\ plan' \in [Calls -> Calls \cup {None}]
             /\ listed' = listed /\ made' \subseteq Calls /\ undone' \subseteq Calls
             /\ next \in {"step", "link"} => step'[c] # 0
             /\ strayed' = strayed
             /\ \A d \in Calls \ {c} :
                  step'[d] = step[d] /\ (d \in made' <=> d \in made)
                  /\ (d \in undone' <=> d \in undone)
<1>5. ASSUME NEW at, NEW next \in Awaiting \cup Reading \cup Ended, Passes(c, at, next), Typed(next),
             c \in strayed => c \notin made' /\ next \in {"dropPlan", "answered"},
             c \notin strayed => PlanAt(c)'
      PROVE  PlanInv'
  <2>1. /\ pc' = [pc EXCEPT ![c] = next] /\ planned' = planned
        /\ UNCHANGED <<plans, steps, links, joined, chained, disturbed, failures>>
    BY <1>5 DEF Passes, GoesTo, graph
  <2>2. \A d \in Calls : pc'[d] \in {"step", "link"} => step'[d] # 0
    BY <1>1, <1>5, <2>1 DEF PlanInv, PlanTyped
  <2>3. PlanTyped'
    BY <1>5, <2>1, <2>2 DEF PlanInv, PlanTyped
  <2> QED
    BY <1>5, <2>3, PassingKeepsPlans
<1> HIDE DEF Typed
<1>6. \A at, next : Passes(c, at, next) =>
        /\ pc[c] = at /\ landed /\ Holds(c) /\ pc'[c] = next
        /\ UNCHANGED <<plans, steps, links, joined, chained>>
  BY <1>1 DEF Passes, Returns, GoesTo, graph
<1>7. made \subseteq Calls /\ undone \subseteq Calls
  BY DEF PlanInv, PlanTyped
<1> USE DEF Awaiting, Reading, Ended
<1>8. CASE MessageStored(c)
  <2>1. PICK next \in {"lookup", "answered"} : Passes(c, "message", next)
    BY <1>8 DEF MessageStored
  <2>2. Typed(next)
    BY <1>1, <1>7, <1>8, <2>1 DEF Typed, MessageStored, local, history
  <2>3. made' = made /\ undone' = undone /\ pc[c] = "message"
    BY <1>6, <1>8, <2>1 DEF MessageStored, history
  <2>4. PlanAt(c)'
    BY <1>3, <1>4, <1>6, <2>1, <2>3 DEF PlanAt
  <2> QED
    BY <1>3, <1>5, <2>1, <2>2, <2>3, <2>4
<1>9. CASE PlanStored(c)
  <2>1. /\ Passes(c, "plan", "step") /\ step' = [step EXCEPT ![c] = 1]
        /\ plan' = plan /\ listed' = listed /\ made' = made /\ undone' = undone
        /\ strayed' = strayed
    BY <1>9 DEF PlanStored, history
  <2>2. Typed("step")
    BY <1>1, <1>7, <2>1 DEF Typed
  <2>3. c \notin strayed /\ c \in plans /\ step'[c] = 1 /\ c \notin made /\ c \notin undone
    BY <1>1, <1>2, <1>3, <1>4, <1>6, <2>1 DEF PlanLanded
  <2>4. PlanAt(c)'
    BY <1>6, <2>1, <2>3 DEF PlanAt, WrittenUpTo
  <2> QED
    BY <1>5, <2>1, <2>2, <2>3, <2>4
<1>10. CASE StepStored(c)
  <2>1. /\ Passes(c, "step", "link") /\ step' = step
        /\ plan' = plan /\ listed' = listed /\ made' = made /\ undone' = undone
        /\ strayed' = strayed
    BY <1>10 DEF StepStored, local, history
  <2>2. Typed("link")
    BY <1>1, <1>6, <1>7, <2>1 DEF Typed
  <2>3. /\ c \notin strayed /\ <<c, step[c]>> \in steps /\ c \notin made /\ c \notin undone
        /\ c \in plans /\ WrittenUpTo(c, step[c])
    BY <1>2, <1>3, <1>4, <1>6, <2>1 DEF PlanLanded, PlanAt
  <2>4. PlanAt(c)'
    BY <1>6, <2>1, <2>3 DEF PlanAt, WrittenUpTo
  <2> QED
    BY <1>5, <2>1, <2>2, <2>3, <2>4
<1>11. CASE StepLinked(c)
  <2>1. PICK next \in {"step", "join"} : Passes(c, "link", next)
    BY <1>11 DEF StepLinked
  <2>2. /\ plan' = plan /\ listed' = listed /\ made' = made /\ undone' = undone
        /\ strayed' = strayed /\ pc[c] = "link" /\ pc'[c] = next
    BY <1>6, <1>11, <2>1 DEF StepLinked, history
  <2>3. /\ c \notin strayed /\ <<c, step[c]>> \in steps \cap links /\ c \notin made /\ c \notin undone
        /\ c \in plans /\ WrittenUpTo(c, step[c])
    BY <1>2, <1>3, <1>4, <1>6, <2>1 DEF PlanLanded, PlanAt
  <2>4. CASE next = "step"
    <3>1. step[c] < Steps /\ step' = [step EXCEPT ![c] = @ + 1] /\ step'[c] = step[c] + 1
      BY <1>1, <1>6, <1>11, <2>1, <2>4 DEF StepLinked
    <3>2. Typed("step")
      BY <1>1, <1>7, <2>2, <3>1 DEF Typed
    <3>3. WrittenUpTo(c, step[c] + 1)
      BY <1>1, <2>3 DEF WrittenUpTo
    <3>4. PlanAt(c)'
      BY <1>6, <2>1, <2>2, <2>3, <2>4, <3>1, <3>3 DEF PlanAt, WrittenUpTo
    <3> QED
      BY <1>5, <2>1, <2>3, <2>4, <3>2, <3>4
  <2>5. CASE next = "join"
    <3>1. step[c] = Steps /\ step' = step
      BY <1>1, <1>6, <1>11, <2>1, <2>5 DEF StepLinked
    <3>2. Typed("join")
      BY <1>1, <1>7, <2>2, <3>1 DEF Typed
    <3>3. ASSUME NEW m \in 1 .. Steps
          PROVE  <<c, m>> \in steps \cap links
      <4>1. m < step[c] \/ m = step[c]
        BY <1>1, <3>1
      <4> QED
        BY <2>3, <4>1 DEF WrittenUpTo
    <3>4. ASSUME NEW s \in StepsOf(c)
          PROVE  s \in steps \cap links
      <4>1. PICK m \in 1 .. Steps : s = <<c, m>>
        BY StepsOfIs
      <4> QED
        BY <3>3, <4>1
    <3>5. PlanAt(c)'
      BY <1>6, <2>1, <2>2, <2>3, <2>5, <3>4 DEF PlanAt, StepsOf
    <3> QED
      BY <1>5, <2>1, <2>3, <2>5, <3>2, <3>5
  <2> QED
    BY <2>4, <2>5
<1>12. CASE PlanJoined(c)
  <2>1. /\ Passes(c, "join", "chain") /\ step' = step
        /\ plan' = plan /\ listed' = listed /\ made' = made /\ undone' = undone
        /\ strayed' = strayed
    BY <1>12 DEF PlanJoined, local, history
  <2>2. Typed("chain")
    BY <1>1, <1>7, <2>1 DEF Typed
  <2>3. /\ c \notin strayed /\ c \notin made /\ c \notin undone
        /\ c \in plans /\ c \in joined /\ StepsOf(c) \subseteq steps \cap links
    BY <1>2, <1>3, <1>4, <1>6, <2>1 DEF PlanLanded, PlanAt
  <2>4. PlanAt(c)'
    BY <1>6, <2>1, <2>3 DEF PlanAt, StepsOf
  <2> QED
    BY <1>5, <2>1, <2>2, <2>3, <2>4
<1>13. CASE PlanChained(c)
  <2>1. /\ Passes(c, "chain", "answered") /\ step' = step
        /\ plan' = [plan EXCEPT ![c] = c] /\ listed' = listed
        /\ made' = made \cup {c} /\ undone' = undone /\ strayed' = strayed
    BY <1>13 DEF PlanChained
  <2>2. Typed("answered")
    BY <1>1, <1>7, <2>1 DEF Typed
  <2>3. /\ c \notin strayed /\ c \notin made /\ c \notin undone /\ c \in chained
        /\ c \in plans /\ c \in joined /\ StepsOf(c) \subseteq steps \cap links
    BY <1>2, <1>3, <1>4, <1>6, <2>1 DEF PlanLanded, PlanAt
  <2>4. PlanAt(c)'
    BY <1>6, <2>1, <2>3 DEF PlanAt, StepsOf, Whole
  <2> QED
    BY <1>5, <2>1, <2>2, <2>3, <2>4
<1>14. CASE StepsDropped(c)
  <2>1. /\ Passes(c, "dropSteps", "dropPlan") /\ step' = step
        /\ plan' = plan /\ listed' = listed /\ made' = made /\ undone' = undone
        /\ strayed' = strayed
    BY <1>14 DEF StepsDropped, local, history
  <2>2. Typed("dropPlan")
    BY <1>1, <1>7, <2>1 DEF Typed
  <2>3. c \notin made /\ (c \notin strayed => NoSteps(c) /\ c \notin undone)
    BY <1>2, <1>4, <1>6, <2>1 DEF PlanLanded
  <2>4. c \notin strayed => PlanAt(c)'
    BY <1>6, <2>1, <2>3 DEF PlanAt, StepsOf, NoSteps
  <2> QED
    BY <1>5, <2>1, <2>2, <2>3, <2>4
<1>15. CASE PlanDropped(c)
  <2>1. /\ Passes(c, "dropPlan", "answered") /\ step' = step
        /\ plan' = plan /\ listed' = listed /\ made' = made /\ undone' = undone \cup {c}
        /\ strayed' = strayed
    BY <1>15 DEF PlanDropped, local
  <2>2. Typed("answered")
    BY <1>1, <1>7, <2>1 DEF Typed
  <2>3. c \notin made /\ (c \notin strayed => NoSteps(c) /\ c \notin plans)
    BY <1>2, <1>4, <1>6, <2>1 DEF PlanLanded, PlanAt
  <2>4. c \notin strayed => PlanAt(c)'
    BY <1>6, <2>1, <2>3 DEF PlanAt, StepsOf, NoSteps
  <2> QED
    BY <1>5, <2>1, <2>2, <2>3, <2>4
<1> QED
  BY <1>8, <1>9, <1>10, <1>11, <1>12, <1>13, <1>14, <1>15

LEMMA ExecutesKeepsPlans ==
  ASSUME PlanInv, NEW c \in Calls, Executes(c), DaemonInv'
  PROVE  PlanInv'
<1>1. PlanTyped /\ plan[c] \in Calls \cup {None} /\ MaxFailures \in Nat
  BY PlanCreationAssumption DEF PlanInv, PlanTyped
<1>2. CASE \/ MessageStored(c) \/ PlanStored(c) \/ StepStored(c) \/ StepLinked(c)
           \/ PlanJoined(c) \/ PlanChained(c) \/ StepsDropped(c) \/ PlanDropped(c)
  BY <1>2, WritingKeepsPlans
<1>3. CASE MessageFails(c)
  BY <1>3, BreakingKeepsPlans DEF MessageFails, local
<1>4. CASE PlanFails(c) \/ DroppingFails(c)
  <2>1. Breaks(c) /\ UNCHANGED <<turn, step, plan, listed, undone>> /\ pc[c] # "lookup"
    BY <1>4 DEF PlanFails, DroppingFails, local
  <2>2. GoesTo(c, "dropSteps") \/ GoesTo(c, "answered")
    BY <1>4 DEF PlanFails, DroppingFails
  <2> QED
    BY <2>1, <2>2, BreakingKeepsPlans
<1>5. \A n \in {0, 1} : Fails(n) => disturbed' \in BOOLEAN /\ failures' \in 0 .. MaxFailures
  BY <1>1 DEF Fails, PlanTyped
<1>6. CASE PlanFound(c)
  <2>1. /\ pc[c] \in Reading /\ GoesTo(c, "list")
        /\ UNCHANGED <<landed, late, step, listed, graph, history, disturbed, failures>>
        /\ \E d \in Live(turn[c]) : plan' = [plan EXCEPT ![c] = d]
    BY <1>6 DEF PlanFound, Reading
  <2>2. plan' \in [Calls -> Calls \cup {None}]
    BY <1>1, <2>1 DEF PlanTyped, Live
  <2> QED
    BY <1>1, <2>1, <2>2, ReadingKeepsPlans DEF PlanTyped
<1>7. CASE PlanNotFound(c)
  <2>1. /\ pc[c] \in Reading /\ GoesTo(c, "plan")
        /\ UNCHANGED <<landed, late, step, plan, listed, graph, history>>
        /\ disturbed' \in BOOLEAN /\ failures' \in 0 .. MaxFailures
    BY <1>5, <1>7 DEF PlanNotFound, local, Reading
  <2> QED
    BY <1>1, <2>1, ReadingKeepsPlans DEF PlanTyped
<1>8. CASE StepsListed(c)
  <2>1. /\ pc[c] \in Reading /\ GoesTo(c, "answered")
        /\ UNCHANGED <<landed, late, step, plan, graph, history>>
        /\ disturbed' \in BOOLEAN /\ failures' \in 0 .. MaxFailures
    BY <1>5, <1>8 DEF StepsListed, Reading
  <2>2. listed' \in [Calls -> 0 .. Steps]
    BY <1>1, <1>8, ListedIsTyped DEF StepsListed, PlanTyped
  <2> QED
    BY <1>1, <2>1, <2>2, ReadingKeepsPlans DEF PlanTyped
<1> QED
  BY <1>2, <1>3, <1>4, <1>6, <1>7, <1>8 DEF Executes

LEMMA BeginKeepsPlans ==
  ASSUME PlanInv, NEW c \in Calls, NEW t \in Turns, Begin(c, t), DaemonInv'
  PROVE  PlanInv'
<1>1. /\ pc[c] = "idle" /\ GoesTo(c, "message")
      /\ UNCHANGED <<landed, late, step, plan, listed, graph, history, failures>>
      /\ disturbed' \in BOOLEAN
  BY DEF Begin, PlanInv, PlanTyped
<1> QED
  BY <1>1, ReadingKeepsPlans DEF PlanInv, PlanTyped

-----------------------------------------------------------------------------
\* A statement of execution c commits, under the lock or late, and c is strayed
\* or what the statement had to write is written: the other plans stay as they are.
LEMMA CommitKeepsPlans ==
  ASSUME PlanInv, DaemonInv', NEW w, NEW on, OwnStatement(w, on), Writes(w, on),
         UNCHANGED <<planned, pc, local, history, disturbed, failures>>,
         late' \subseteq late,
         \A d \in Calls \ {w.call} : landed' /\ Holds(d)' => landed /\ Holds(d),
         w.call \notin strayed => PlanOf(w.call)'
  PROVE  PlanInv'
<1>1. /\ planned' = planned /\ pc' = pc /\ step' = step /\ plan' = plan /\ listed' = listed
      /\ made' = made /\ undone' = undone /\ strayed' = strayed
      /\ disturbed' = disturbed /\ failures' = failures
  BY DEF local, history
<1>2. /\ UNION {plans', joined', chained'} \subseteq Calls
      /\ steps' \cup links' \subseteq Calls \X (1 .. Steps)
      /\ \A d \in Calls \ {w.call} : SamePlan(d)
  BY WritesOwn DEF PlanInv
<1>3. PlanTyped'
  BY <1>1, <1>2 DEF PlanInv, PlanTyped
<1>4. LateIsStray' /\ StrayedFailed'
  BY <1>1 DEF PlanInv, LateIsStray, StrayedFailed, OwnStatement, StepsOf
<1>5. ASSUME NEW d \in Calls \ strayed, d # w.call
      PROVE  PlanOf(d)'
  <2>1. PlanOf(d) /\ step[d] \in 0 .. Steps /\ (pc[d] \in {"step", "link"} => step[d] # 0)
    BY DEF PlanInv, PlanTyped
  <2> QED
    BY <1>1, <1>2, <1>5, <2>1, SamePlanKeeps
<1> QED
  BY <1>1, <1>3, <1>4, <1>5 DEF PlanInv

\* What the statement does that execution c awaits.
LEMMA LandsPlan ==
  ASSUME PlanInv, NEW c \in Calls \ strayed, Writes(Statement(c), Selects(Statement(c))),
         Holds(c), pc' = pc, step' = step, made' = made, undone' = undone
  PROVE  PlanOf(c)'
<1>1. EdgesHaveEnds(c) /\ PlanAt(c)
  BY DEF PlanInv, PlanOf
<1>2. /\ step[c] \in 0 .. Steps /\ (pc[c] \in {"step", "link"} => step[c] # 0) /\ Steps \in Nat
      /\ pc[c] \in Awaiting
  BY PlanCreationAssumption DEF PlanInv, PlanTyped, DaemonInv, PlacesOK, Holds
<1>3. c \notin made /\ c \notin undone
  BY <1>2, RunningIsNotMade DEF Awaiting, Ended
<1>4. /\ Statement(c).kind = pc[c] /\ Statement(c).call = c /\ Statement(c).step = step[c]
  BY DEF Statement
<1> DEFINE on == Selects(Statement(c))
           s == <<c, step[c]>>
<1>5. \A m : <<c, m>> \in StepsOf(c) <=> m \in 1 .. Steps
  BY DEF StepsOf
<1>6. <<c, 1>> \in StepsOf(c) /\ StepsOf(c)' = StepsOf(c)
  BY StepsOfIs DEF StepsOf
<1>7. ASSUME PlanAt(c)', EdgesHaveEnds(c)', 
             /\ pc[c] = "plan" => c \in plans'
             /\ pc[c] = "step" => s \in steps'
             /\ pc[c] = "link" => s \in links'
             /\ pc[c] = "join" => c \in joined'
             /\ pc[c] = "chain" => c \in chained'
             /\ pc[c] = "dropSteps" => NoSteps(c)'
             /\ pc[c] = "dropPlan" => c \notin plans'
      PROVE  PlanOf(c)'
  BY <1>7 DEF PlanOf, PlanLanded
<1>8. CASE pc[c] = "message"
  <2>1. plans' = plans /\ joined' = joined /\ chained' = chained /\ steps' = steps /\ links' = links
    BY <1>4, <1>8 DEF Writes
  <2> QED
    BY <1>1, <1>3, <1>7, <1>8, <2>1 DEF PlanAt, EdgesHaveEnds, StepsOf
<1>9. CASE pc[c] = "plan"
  <2>1. /\ plans' = plans \cup {c} /\ joined' = joined /\ chained' = chained
        /\ steps' = steps /\ links' = links
    BY <1>4, <1>9 DEF Writes, Selects
  <2> QED
    BY <1>1, <1>3, <1>7, <1>9, <2>1 DEF PlanAt, EdgesHaveEnds, StepsOf
<1>10. CASE pc[c] = "step"
  <2>1. /\ plans' = plans /\ joined' = joined /\ chained' = chained
        /\ steps' = steps \cup {s} /\ links' = links
    BY <1>4, <1>10 DEF Writes, Selects
  <2> QED
    BY <1>1, <1>3, <1>6, <1>7, <1>10, <2>1 DEF PlanAt, EdgesHaveEnds, WrittenUpTo
<1>11. CASE pc[c] = "link"
  <2>1. c \in plans /\ s \in steps
    BY <1>1, <1>11 DEF PlanAt
  <2>2. /\ plans' = plans /\ joined' = joined /\ chained' = chained
        /\ steps' = steps /\ links' = links \cup {s}
    BY <1>4, <1>11, <2>1 DEF Writes, Selects
  <2> QED
    BY <1>1, <1>3, <1>6, <1>7, <1>11, <2>1, <2>2 DEF PlanAt, EdgesHaveEnds, WrittenUpTo
<1>12. CASE pc[c] = "join"
  <2>1. c \in plans
    BY <1>1, <1>12 DEF PlanAt
  <2>2. /\ plans' = plans /\ joined' = joined \cup {c} /\ chained' = chained
        /\ steps' = steps /\ links' = links
    BY <1>4, <1>12, <2>1 DEF Writes, Selects
  <2> QED
    BY <1>1, <1>3, <1>6, <1>7, <1>12, <2>1, <2>2 DEF PlanAt, EdgesHaveEnds
<1>13. CASE pc[c] = "chain"
  <2>1. c \in plans /\ c \in joined /\ StepsOf(c) \subseteq steps \cap links
    BY <1>1, <1>13 DEF PlanAt
  <2>2. /\ plans' = plans /\ joined' = joined /\ chained' = chained \cup {c}
        /\ steps' = steps /\ links' = links
    BY <1>4, <1>13, <2>1 DEF Writes, Selects
  <2> QED
    BY <1>1, <1>3, <1>6, <1>7, <1>13, <2>1, <2>2 DEF PlanAt, EdgesHaveEnds
<1>14. CASE pc[c] = "dropSteps"
  <2>1. on = StepsOf(c) \cap steps
    BY <1>4, <1>14 DEF Selects
  <2>2. /\ plans' = plans /\ joined' = joined /\ steps' = steps \ on /\ links' = links \ on
        /\ chained' = {d \in chained : StepsOf(d) \cap on = {}}
    BY <1>4, <1>14 DEF Writes
  <2>3. c \notin chained'
    BY <1>1, <1>6, <2>1, <2>2 DEF EdgesHaveEnds
  <2>4. StepsOf(c) \cap steps' = {} /\ StepsOf(c) \cap links' = {}
    BY <1>1, <2>1, <2>2 DEF EdgesHaveEnds
  <2>5. EdgesHaveEnds(c)'
    BY <1>1, <1>6, <2>2, <2>3, <2>4 DEF EdgesHaveEnds
  <2> QED
    BY <1>3, <1>6, <1>7, <1>14, <2>2, <2>4, <2>5 DEF PlanAt, NoSteps
<1>15. CASE pc[c] = "dropPlan"
  <2>1. on = {c} \cap plans /\ StepsOf(c) \cap steps = {}
    BY <1>1, <1>4, <1>15 DEF Selects, PlanAt, NoSteps
  <2>2. /\ plans' = plans \ on /\ joined' = joined \ on /\ steps' = steps
        /\ links' = {l \in links : l[1] \notin on} /\ chained' = chained
    BY <1>4, <1>15 DEF Writes
  <2>3. c \notin chained /\ StepsOf(c) \cap links = {}
    BY <1>1, <1>6, <2>1 DEF EdgesHaveEnds
  <2>4. c \notin plans' /\ c \notin joined'
    BY <1>1, <2>1, <2>2 DEF EdgesHaveEnds
  <2>5. EdgesHaveEnds(c)'
    BY <1>6, <2>1, <2>2, <2>3, <2>4 DEF EdgesHaveEnds
  <2> QED
    BY <1>3, <1>6, <1>7, <1>15, <2>1, <2>2, <2>4, <2>5 DEF PlanAt, NoSteps
<1> QED
  BY <1>2, <1>8, <1>9, <1>10, <1>11, <1>12, <1>13, <1>14, <1>15 DEF Awaiting

LEMMA CommitsKeepPlans ==
  ASSUME PlanInv, Commits, DaemonInv'
  PROVE  PlanInv'
<1>1. ASSUME NEW c \in Calls, Land(c)
      PROVE  PlanInv'
  <2> DEFINE w == Statement(c)
  <2>1. /\ Lands(c) /\ Holds(c) /\ Writes(w, Selects(w)) /\ late' = late
        /\ UNCHANGED <<planned, pc, local, history, disturbed, failures>>
    BY <1>1 DEF Land, Lands
  <2>2. \A d \in Calls : Holds(d)' => d = c
    BY <2>1, LandsKeepsQueue DEF PlanInv, DaemonInv, PlacesOK
  <2>3. /\ w.kind = pc[c] /\ w.call = c /\ w.step = step[c]
    BY DEF Statement
  <2>4. pc[c] \in Awaiting
    BY <2>1 DEF PlanInv, DaemonInv, PlacesOK, Holds
  <2>5. pc[c] \in {"step", "link"} => <<c, step[c]>> \in StepsOf(c)
    <3>1. step[c] \in 0 .. Steps /\ (pc[c] \in {"step", "link"} => step[c] # 0)
      BY DEF PlanInv, PlanTyped
    <3> QED
      BY <3>1, PlanCreationAssumption DEF StepsOf
  <2> HIDE DEF w
  <2>6. OwnStatement(w, Selects(w))
    <3>1. OwnStatement(w, {})
      BY <2>3, <2>4, <2>5 DEF OwnStatement, Kinds, Awaiting
    <3> QED
      BY <3>1, SelectsOwn
  <2>7. c \notin strayed => PlanOf(c)'
    BY <2>1, LandsPlan DEF local, history, w
  <2> QED
    BY <2>1, <2>2, <2>3, <2>6, <2>7, CommitKeepsPlans
<1>2. ASSUME NEW w \in late, LandLate(w)
      PROVE  PlanInv'
  <2>1. PICK on \in {w.on, Selects(w.statement)} : Writes(w.statement, on)
    BY <1>2 DEF LandLate
  <2>2. /\ late' \subseteq late /\ landed' = landed /\ inside' = inside /\ ahead' = ahead
        /\ UNCHANGED <<planned, pc, local, history, disturbed, failures>>
    BY <1>2 DEF LandLate, LandsLate
  <2>3. OwnStatement(w.statement, w.on) /\ w.statement.call \in strayed
    BY DEF PlanInv, LateIsStray
  <2>4. OwnStatement(w.statement, on)
    <3>1. OwnStatement(w.statement, {})
      BY <2>3 DEF OwnStatement
    <3> QED
      BY <2>1, <2>3, <3>1, SelectsOwn
  <2>5. \A d \in Calls : landed' /\ Holds(d)' => landed /\ Holds(d)
    BY <2>2 DEF Holds
  <2> QED
    BY <2>1, <2>2, <2>3, <2>4, <2>5, CommitKeepsPlans
<1> QED
  BY <1>1, <1>2 DEF Commits

\* The process ends: what it had written stays.
LEMMA StoppedKeepsPlans ==
  ASSUME PlanInv, Stopped, DaemonInv'
  PROVE  PlanInv'
<1>1. /\ pc' = [c \in Calls |-> IF c \in Running THEN "lost" ELSE pc[c]]
      /\ late' = {} /\ landed' = FALSE /\ planned' = planned
      /\ step' = step /\ plan' = plan /\ listed' = listed
      /\ made' = made /\ undone' = undone /\ strayed' = strayed
      /\ UNCHANGED <<plans, steps, links, joined, chained>>
      /\ failures + 1 <= MaxFailures /\ failures' = failures + 1
      /\ disturbed' = (disturbed \/ 1 > 0)
  BY DEF Stopped, local, graph, history, QueueLost, Fails
<1>2. \A c \in Calls : pc'[c] = "lost" \/ (pc'[c] = pc[c] /\ pc[c] \notin Awaiting)
  BY <1>1 DEF Running
<1>3. disturbed' \in BOOLEAN
  BY <1>1
<1>4. failures' \in 0 .. MaxFailures
  <2>1. failures \in 0 .. MaxFailures
    BY DEF PlanInv, PlanTyped
  <2> QED
    BY <1>1, <2>1, PlanCreationAssumption
<1>5. PlanTyped'
  BY <1>1, <1>2, <1>3, <1>4 DEF PlanInv, PlanTyped
<1>6. LateIsStray'
  BY <1>1 DEF LateIsStray
<1>7. StrayedFailed'
  <2>1. strayed \subseteq Calls
    BY DEF PlanInv, PlanTyped
  <2> QED
    BY <1>1, <1>2, <2>1 DEF PlanInv, StrayedFailed
<1>8. ASSUME NEW c \in Calls \ strayed
      PROVE  PlanOf(c)'
  <2>1. EdgesHaveEnds(c) /\ PlanAt(c)
    BY DEF PlanInv, PlanOf
  <2>2. EdgesHaveEnds(c)'
    BY <1>1, <2>1 DEF EdgesHaveEnds, StepsOf
  <2>3. c \in made => pc'[c] = pc[c]
    BY <1>1, <2>1 DEF PlanAt, Running, Awaiting, Reading
  <2>4. PlanAt(c)'
    BY <1>1, <1>2, <2>1, <2>3 DEF PlanAt, StepsOf, NoSteps, Whole, Awaiting, Ended
  <2> QED
    BY <1>1, <2>2, <2>4 DEF PlanOf, PlanLanded
<1> QED
  BY <1>1, <1>5, <1>6, <1>7, <1>8 DEF PlanInv

\* A step of the delivery changes nothing of the plans, but that an adapter that
\* ends counts as a failure.
LEMMA OtherStepsKeepPlans ==
  ASSUME PlanInv, DaemonInv',
         UNCHANGED <<planned, pc, local, graph, queue, history>>,
         disturbed' \in BOOLEAN, failures' \in 0 .. MaxFailures
  PROVE  PlanInv'
<1>1. /\ planned' = planned /\ pc' = pc /\ step' = step /\ plan' = plan /\ listed' = listed
      /\ made' = made /\ undone' = undone /\ strayed' = strayed
      /\ UNCHANGED <<plans, steps, links, joined, chained>>
      /\ inside' = inside /\ ahead' = ahead /\ landed' = landed /\ late' = late
  BY DEF local, history, graph, queue
<1>2. PlanTyped' /\ LateIsStray' /\ StrayedFailed'
  BY <1>1 DEF PlanInv, PlanTyped, LateIsStray, StrayedFailed, OwnStatement, StepsOf
<1>3. ASSUME NEW d \in Calls \ strayed
      PROVE  PlanOf(d)'
  <2>1. PlanOf(d) /\ step[d] \in 0 .. Steps /\ (pc[d] \in {"step", "link"} => step[d] # 0)
    BY DEF PlanInv, PlanTyped
  <2>2. SamePlan(d) /\ (landed' /\ Holds(d)' => landed /\ Holds(d))
    BY <1>1 DEF SamePlan, Holds
  <2> QED
    BY <1>1, <2>1, <2>2, SamePlanKeeps
<1> QED
  BY <1>1, <1>2, <1>3 DEF PlanInv

\* What a failure does to the count, and to the flag.
LEMMA FailureIsCounted ==
  ASSUME PlanTyped, Fails(1)
  PROVE  disturbed' = TRUE /\ failures' \in 0 .. MaxFailures
<1>1. /\ failures + 1 <= MaxFailures /\ failures' = failures + 1 /\ failures \in 0 .. MaxFailures
      /\ disturbed' = (disturbed \/ 1 > 0)
  BY DEF Fails, PlanTyped
<1>2. failures' \in 0 .. MaxFailures
  BY <1>1, PlanCreationAssumption
<1>3. 1 > 0
  OBVIOUS
<1>4. disturbed' = TRUE
  BY <1>1, <1>3, Zenon
<1> QED
  BY <1>2, <1>4

LEMMA FailureDisturbs ==
  ASSUME Fails(1)
  PROVE  disturbed'
<1>1. disturbed' = (disturbed \/ 1 > 0)
  BY DEF Fails
<1>2. 1 > 0
  OBVIOUS
<1> QED
  BY <1>1, <1>2, Zenon

LEMMA NextKeepsPlans ==
  ASSUME PlanInv, DaemonInv', [Next]_vars
  PROVE  PlanInv'
<1>1. disturbed \in BOOLEAN /\ failures \in 0 .. MaxFailures
  BY DEF PlanInv, PlanTyped
<1>2. CASE UNCHANGED daemonVars
  BY <1>1, <1>2, OtherStepsKeepPlans DEF daemonVars
<1>3. ASSUME NEW a \in Adapters, Delivery(a)
      PROVE  PlanInv'
  <2>1. CASE Connects(a)
    <3>1. Carries(a) \in Turns /\ \E c \in Calls : Begin(c, Carries(a))
      BY <2>1 DEF Connects
    <3> QED
      BY <3>1, BeginKeepsPlans
  <2>2. CASE Restarts(a)
    <3>1. Fails(1) /\ UNCHANGED <<planned, pc, local, graph, queue, history>>
      BY <2>2 DEF Restarts
    <3> QED
      BY <3>1, FailureIsCounted, OtherStepsKeepPlans DEF PlanInv
  <2>3. ~ Connects(a) /\ ~ Restarts(a) => UNCHANGED daemonVars
    BY <1>3 DEF Delivery, Ask, Refused, TimesOut, Answered, Refuted, CutOff, Unlink
  <2> QED
    BY <1>2, <2>1, <2>2, <2>3
<1>4. CASE Execution
  BY <1>4, ExecutesKeepsPlans, CommitsKeepPlans DEF Execution
<1>5. CASE Stop
  BY <1>5, StoppedKeepsPlans DEF Stop
<1>6. CASE Start
  BY <1>2, <1>6 DEF Start
<1> QED
  BY <1>2, <1>3, <1>4, <1>5, <1>6 DEF Next, vars

LEMMA InitPlanInv == DeliveryInit => PlanInv
<1> SUFFICES ASSUME DeliveryInit PROVE PlanInv
  OBVIOUS
<1>1. DaemonInv
  BY InitDeliveryInv DEF DeliveryInv
<1>2. PlanTyped
  <2>1. 0 \in 0 .. Steps /\ 0 \in 0 .. MaxFailures
    BY PlanCreationAssumption
  <2>2. planned \subseteq Turns /\ disturbed = FALSE /\ failures = 0
    BY DEF DeliveryInit, Init
  <2>3. /\ step \in [Calls -> 0 .. Steps] /\ plan \in [Calls -> Calls \cup {None}]
        /\ listed \in [Calls -> 0 .. Steps]
    BY <2>1 DEF DeliveryInit, Init
  <2>4. /\ plans = {} /\ joined = {} /\ chained = {} /\ made = {} /\ undone = {} /\ strayed = {}
        /\ steps = {} /\ links = {} /\ \A c \in Calls : pc[c] = "idle"
    BY DEF DeliveryInit, Init
  <2> QED
    BY <2>1, <2>2, <2>3, <2>4 DEF PlanTyped
<1>3. LateIsStray /\ StrayedFailed
  BY DEF DeliveryInit, Init, QueueInit, LateIsStray, StrayedFailed
<1>4. ASSUME NEW c \in Calls
      PROVE  PlanOf(c)
  BY DEF DeliveryInit, Init, QueueInit, PlanOf, EdgesHaveEnds, PlanAt, PlanLanded
<1> QED
  BY <1>1, <1>2, <1>3, <1>4 DEF PlanInv

\* PlanInv is an invariant: how much of a plan is in the graph at each place of
\* its execution, whatever other executions write (_create_plan_graph).
THEOREM PlanSafety == Spec => []PlanInv
<1>1. DeliveryInit => PlanInv
  BY InitPlanInv
<1>2. PlanInv /\ DeliveryInv' /\ [Next]_vars => PlanInv'
  BY NextKeepsPlans DEF DeliveryInv
<1> QED
  BY <1>1, <1>2, DeliverySafety, PTL DEF Spec

\* A plan is written whole or not at all: one that is answered is all there, and
\* one that was undone has left nothing, unless its execution gave up a statement
\* (_create_plan_graph's writes and its compensating delete).
THEOREM PlansAreAllOrNothing == Spec => []PlanIsAllOrNothing
<1>1. PlanInv => PlanIsAllOrNothing
  <2> SUFFICES ASSUME PlanInv, NEW c \in Calls
               PROVE  /\ c \in made => Whole(c)
                      /\ c \in undone \ strayed => Nothing(c)
    BY DEF PlanIsAllOrNothing
  <2>1. c \in made => c \notin strayed
    BY DEF PlanInv, StrayedFailed
  <2>2. c \notin strayed => EdgesHaveEnds(c) /\ PlanAt(c)
    BY DEF PlanInv, PlanOf
  <2>3. c \in made => Whole(c)
    BY <2>1, <2>2 DEF PlanAt
  <2>4. ASSUME c \in undone \ strayed
        PROVE  Nothing(c)
    <3>1. NoSteps(c) /\ c \notin plans /\ EdgesHaveEnds(c)
      BY <2>2, <2>4 DEF PlanAt
    <3>2. <<c, 1>> \in StepsOf(c)
      BY StepsOfIs
    <3> QED
      BY <3>1, <3>2 DEF NoSteps, EdgesHaveEnds, Nothing
  <2> QED
    BY <2>3, <2>4
<1> QED
  BY <1>1, PlanSafety, PTL

-----------------------------------------------------------------------------
(***************************************************************************)
(* Executions of a turn that do not overlap and do not fail.               *)
(***************************************************************************)

LEMMA QuietGoesOn ==
  ASSUME PlanInv, Quiet, NEW c \in Calls, pc[c] \in Awaiting \cup Reading,
         NEW next \in Awaiting \cup Reading \cup Ended, pc' = [pc EXCEPT ![c] = next],
         UNCHANGED <<planned, turn, late, strayed, plans>>,
         made \subseteq made', made' \subseteq made \cup {c},
         \A d \in Calls \ {c} :
           step'[d] = step[d] /\ plan'[d] = plan[d] /\ listed'[d] = listed[d],
         QuietAt(c)'
  PROVE  Quiet'
<1>1. /\ pc \in [Calls -> {"idle"} \cup Awaiting \cup Reading \cup Ended]
      /\ made \subseteq Calls /\ plans \subseteq Calls
  BY DEF PlanInv, DaemonInv, PlacesOK, PlanTyped
<1>2. Running' \subseteq Running /\ turn' = turn /\ plans' = plans
  BY <1>1 DEF Running
<1>3. ASSUME NEW d \in Calls, d # c
      PROVE  QuietAt(d)'
  <2>1. QuietAt(d) /\ pc'[d] = pc[d]
    BY <1>1, <1>3 DEF Quiet
  <2> QED
    BY <1>3, <2>1 DEF QuietAt
<1>4. \A d \in Calls : QuietAt(d)'
  BY <1>3
<1> QED
  BY <1>2, <1>4 DEF Quiet

\* An execution that has not ended has not got far with a plan, or with what
\* another execution's is.
LEMMA QuietBefore ==
  ASSUME PlanInv, Quiet, NEW c \in Calls, pc[c] \in {"idle", "message", "lookup", "list"}
  PROVE  step[c] = 0 /\ c \notin plans /\ c \notin made /\ (pc[c] # "list" => plan[c] = None)
<1>1. c \notin made
  BY RunningIsNotMade DEF Ended
<1>2. QuietAt(c) /\ step[c] \in 0 .. Steps /\ Steps \in Nat
  BY PlanCreationAssumption DEF Quiet, PlanInv, PlanTyped
<1> QED
  BY <1>1, <1>2 DEF QuietAt

\* Where the plan of a turn is, of which an execution is not yet at its own.
LEMMA QuietOther ==
  ASSUME PlanInv, Quiet, NEW c \in Calls, pc[c] \in {"message", "lookup"},
         NEW d \in Calls, turn[d] = turn[c], step[d] > 0 \/ d \in plans
  PROVE  d \in made /\ d # c
<1>1. d # c
  BY QuietBefore
<1>2. c \in Running
  BY DEF Running, Awaiting, Reading
<1>3. d \notin Running
  BY <1>1, <1>2 DEF Quiet
<1>4. pc[d] \notin {"plan", "step", "link", "join", "chain"}
  BY <1>3 DEF Running, Awaiting
<1>5. QuietAt(d)
  BY DEF Quiet
<1> QED
  BY <1>1, <1>4, <1>5 DEF QuietAt

\* An execution writes its plan.
LEMMA WritingStaysQuiet ==
  ASSUME PlanInv, Quiet, NEW c \in Calls,
         \/ PlanStored(c) \/ StepStored(c) \/ StepLinked(c) \/ PlanJoined(c) \/ PlanChained(c)
  PROVE  Quiet'
<1>1. /\ pc \in [Calls -> {"idle"} \cup Awaiting \cup Reading \cup Ended]
      /\ step \in [Calls -> 0 .. Steps] /\ plan \in [Calls -> Calls \cup {None}]
      /\ Steps \in Nat
  BY PlanCreationAssumption DEF PlanInv, DaemonInv, PlacesOK, PlanTyped
<1>2. QuietAt(c)
  BY DEF Quiet
<1>3. PICK at \in {"plan", "step", "link", "join", "chain"},
           next \in {"step", "link", "join", "chain", "answered"} : Passes(c, at, next)
  BY DEF PlanStored, StepStored, StepLinked, PlanJoined, PlanChained
<1>4. /\ pc[c] = at /\ pc' = [pc EXCEPT ![c] = next] /\ pc'[c] = next
      /\ late' = late /\ planned' = planned /\ plans' = plans
  BY <1>1, <1>3 DEF Passes, Returns, GoesTo, graph
<1>5. /\ turn' = turn /\ listed' = listed /\ strayed' = strayed
      /\ made' = made \/ (made' = made \cup {c} /\ plan' = [plan EXCEPT ![c] = c])
      /\ plan' = plan \/ plan' = [plan EXCEPT ![c] = c]
      /\ step' = step \/ \E n : step' = [step EXCEPT ![c] = n]
  BY DEF PlanStored, StepStored, StepLinked, PlanJoined, PlanChained, local, history
<1>6. CASE PlanChained(c)
  <2>1. made' = made \cup {c} /\ plan' = [plan EXCEPT ![c] = c] /\ next = "answered"
    BY <1>1, <1>4, <1>6 DEF PlanChained, Passes, GoesTo
  <2>2. plan'[c] = c /\ c \in made' /\ c # None
    BY <1>1, <2>1, PlanCreationAssumption
  <2>3. QuietAt(c)'
    BY <1>4, <1>5, <2>1, <2>2 DEF QuietAt
  <2>4. "answered" \in Awaiting \cup Reading \cup Ended /\ pc[c] \in Awaiting
    BY <1>4 DEF Awaiting, Ended
  <2> QED
    BY <1>1, <1>4, <1>5, <2>1, <2>3, <2>4, QuietGoesOn
<1>7. CASE ~ PlanChained(c)
  <2>1. made' = made /\ plan' = plan /\ next # "answered"
    <3>1. \/ PlanStored(c) \/ StepStored(c) \/ StepLinked(c) \/ PlanJoined(c)
      BY <1>7
    <3>2. \E n \in {"step", "link", "join", "chain"} : \E m : Passes(c, m, n)
      BY <3>1 DEF PlanStored, StepStored, StepLinked, PlanJoined
    <3>3. pc'[c] \in {"step", "link", "join", "chain"}
      BY <1>1, <3>2 DEF Passes, GoesTo
    <3> QED
      BY <1>4, <3>1, <3>3 DEF PlanStored, StepStored, StepLinked, PlanJoined, local, history
  <2>2. QuietAt(c)'
    BY <1>2, <1>4, <1>5, <2>1 DEF QuietAt
  <2>3. next \in Awaiting \cup Reading \cup Ended /\ pc[c] \in Awaiting
    BY <1>4, <2>1 DEF Awaiting
  <2> QED
    BY <1>1, <1>4, <1>5, <2>1, <2>2, <2>3, QuietGoesOn
<1> QED
  BY <1>6, <1>7

\* An execution looks whether its turn has a plan.
LEMMA LookingStaysQuiet ==
  ASSUME PlanInv, Quiet, ~ disturbed', NEW c \in Calls,
         MessageStored(c) \/ PlanFound(c) \/ PlanNotFound(c) \/ StepsListed(c)
  PROVE  Quiet'
<1>1. /\ pc \in [Calls -> {"idle"} \cup Awaiting \cup Reading \cup Ended]
      /\ plan \in [Calls -> Calls \cup {None}] /\ plans \subseteq Calls
      /\ listed \in [Calls -> 0 .. Steps]
  BY DEF PlanInv, DaemonInv, PlacesOK, PlanTyped
<1>2. QuietAt(c) /\ strayed = {}
  BY DEF Quiet
<1>3. ~ Fails(1)
  BY FailureDisturbs
<1>4. \A next : GoesTo(c, next) => /\ pc' = [pc EXCEPT ![c] = next] /\ pc'[c] = next
                                   /\ planned' = planned
  BY <1>1 DEF GoesTo
<1> USE DEF Awaiting, Reading, Ended
<1>5. CASE MessageStored(c)
  <2>1. PICK next \in {"lookup", "answered"} :
          /\ Passes(c, "message", next)
          /\ next = "answered" => turn[c] \notin planned \/ Indexed(turn[c])
    BY <1>5 DEF MessageStored
  <2>2. /\ pc[c] = "message" /\ GoesTo(c, next) /\ late' = late
        /\ UNCHANGED <<turn, step, plan, listed, made, strayed, plans>>
    BY <1>5, <2>1 DEF MessageStored, Passes, Returns, graph, local, history
  <2>3. step[c] = 0 /\ c \notin plans /\ plan[c] = None
    BY <2>2, QuietBefore
  <2>4. next = "answered" /\ turn[c] \in planned => \E d \in made : turn[d] = turn[c] /\ d # None
    BY <2>1, <2>2, QuietOther, PlanCreationAssumption DEF Indexed
  <2>5. QuietAt(c)'
    BY <1>2, <1>4, <2>2, <2>3, <2>4 DEF QuietAt
  <2> QED
    BY <1>4, <2>2, <2>5, QuietGoesOn
<1>6. CASE PlanFound(c)
  <2>1. PICK d \in Live(turn[c]) : plan' = [plan EXCEPT ![c] = d]
    BY <1>6 DEF PlanFound
  <2>2. /\ pc[c] = "lookup" /\ GoesTo(c, "list") /\ late' = late
        /\ UNCHANGED <<turn, step, listed, made, strayed, plans>>
    BY <1>6 DEF PlanFound, graph, history
  <2>3. step[c] = 0 /\ c \notin plans
    BY <2>2, QuietBefore
  <2>4. d \in made /\ turn[d] = turn[c] /\ plan'[c] = d
    BY <1>1, <2>1, <2>2, QuietOther DEF Live
  <2>5. QuietAt(c)'
    BY <1>4, <2>2, <2>3, <2>4 DEF QuietAt
  <2> QED
    BY <1>1, <1>4, <2>1, <2>2, <2>5, QuietGoesOn
<1>7. CASE PlanNotFound(c)
  <2>1. /\ pc[c] = "lookup" /\ GoesTo(c, "plan") /\ late' = late /\ Live(turn[c]) = {}
        /\ UNCHANGED <<turn, step, plan, listed, made, strayed, plans>>
    BY <1>3, <1>7 DEF PlanNotFound, local, graph, history
  <2>2. step[c] = 0 /\ c \notin plans /\ plan[c] = None
    BY <2>1, QuietBefore
  <2>3. \A d \in plans : turn[d] # turn[c]
    BY <2>1 DEF Live
  <2>4. QuietAt(c)'
    BY <1>4, <2>1, <2>2, <2>3 DEF QuietAt
  <2> QED
    BY <1>4, <2>1, <2>4, QuietGoesOn
<1>8. CASE StepsListed(c)
  <2>1. /\ pc[c] = "list" /\ GoesTo(c, "answered") /\ late' = late
        /\ UNCHANGED <<turn, step, plan, made, strayed, plans>>
        /\ listed' = [listed EXCEPT ![c] =
                        Cardinality({s \in links \cap steps : s[1] = plan[c]})]
    BY <1>3, <1>8 DEF StepsListed, graph, history
  <2>2. plan[c] \in made /\ turn[plan[c]] = turn[c] /\ plan[c] \in Calls
    BY <1>2, <2>1 DEF QuietAt, PlanInv, PlanTyped
  <2>3. step[c] = 0 /\ c \notin plans
    BY <2>1, QuietBefore
  <2>4. StepsOf(plan[c]) \subseteq links \cap steps
    <3>1. PlanAt(plan[c])
      BY <1>2, <2>2 DEF PlanInv, PlanOf
    <3> QED
      BY <2>2, <3>1 DEF PlanAt, Whole
  <2>5. listed'[c] = Steps
    BY <1>1, <2>1, <2>2, <2>4, ListedIsTyped DEF PlanInv
  <2>6. QuietAt(c)'
    BY <1>4, <2>1, <2>2, <2>3, <2>5 DEF QuietAt
  <2> QED
    BY <1>1, <1>4, <2>1, <2>6, QuietGoesOn
<1> QED
  BY <1>5, <1>6, <1>7, <1>8

LEMMA BeginStaysQuiet ==
  ASSUME PlanInv, Quiet, ~ disturbed', NEW c \in Calls, NEW t \in Turns, Begin(c, t)
  PROVE  Quiet'
<1>1. /\ pc[c] = "idle" /\ pc' = [pc EXCEPT ![c] = "message"] /\ planned' = planned
      /\ turn' = [turn EXCEPT ![c] = t]
      /\ \A d \in Running : turn[d] # t
      /\ UNCHANGED <<late, step, plan, listed, plans, made, strayed>>
  BY DEF Begin, GoesTo, graph, history
<1>2. /\ pc \in [Calls -> {"idle"} \cup Awaiting \cup Reading \cup Ended]
      /\ turn \in [Calls -> Turns \cup {None}] /\ plans \subseteq Calls /\ made \subseteq Calls
      /\ plan[c] \in Calls \cup {None}
  BY DEF PlanInv, DaemonInv, PlacesOK, PlanTyped
<1>3. step[c] = 0 /\ c \notin plans /\ c \notin made /\ plan[c] = None
  BY <1>1, QuietBefore
<1>4. Running' = Running \cup {c} /\ \A d \in Running : d # c
  BY <1>1, <1>2 DEF Running, Awaiting, Reading
<1>5. \A d \in Calls \ {c} : turn'[d] = turn[d] /\ pc'[d] = pc[d]
  BY <1>1, <1>2
<1>6. turn'[c] = t /\ pc'[c] = "message"
  BY <1>1, <1>2
<1>7. \A d, e \in Running' : turn'[d] = turn'[e] => d = e
  <2>1. Running \subseteq Calls
    BY DEF Running
  <2> QED
    BY <1>1, <1>4, <1>5, <1>6, <2>1 DEF Quiet
<1>8. \A d, e \in plans' : turn'[d] = turn'[e] => d = e
  BY <1>1, <1>2, <1>3, <1>5 DEF Quiet
<1>9. QuietAt(c)'
  BY <1>1, <1>3, <1>6 DEF QuietAt
<1>10. ASSUME NEW d \in Calls, d # c
       PROVE  QuietAt(d)'
  <2>1. QuietAt(d)
    BY DEF Quiet
  <2>2. plan[d] \in made => turn'[plan[d]] = turn[plan[d]]
    BY <1>2, <1>3, <1>5
  <2> QED
    BY <1>1, <1>2, <1>3, <1>5, <1>10, <2>1, <2>2 DEF QuietAt
<1> QED
  BY <1>1, <1>7, <1>8, <1>9, <1>10 DEF Quiet

\* A Plan that is stored is the only one of its turn.
LEMMA LandStaysQuiet ==
  ASSUME PlanInv, Quiet, NEW c \in Calls, Land(c)
  PROVE  Quiet'
<1>1. /\ Holds(c) /\ Writes(Statement(c), Selects(Statement(c)))
      /\ UNCHANGED <<planned, pc, turn, step, plan, listed, made, strayed, late>>
  BY DEF Land, Lands, local, history
<1>2. QuietAt(c) /\ plans \subseteq Calls /\ pc[c] # "dropPlan"
  BY DEF Quiet, QuietAt, PlanInv, PlanTyped
<1>3. plans' = plans \/ (pc[c] = "plan" /\ plans' = plans \cup {c})
  <2>1. Statement(c).kind = pc[c] /\ Statement(c).call = c
    BY DEF Statement
  <2> QED
    BY <1>1, <1>2, <2>1 DEF Writes, Selects
<1>4. Running' = Running
  BY <1>1 DEF Running
<1>5. CASE plans' = plans
  <2>1. \A d \in Calls : QuietAt(d)'
    BY <1>1, <1>5 DEF Quiet, QuietAt
  <2> QED
    BY <1>1, <1>4, <1>5, <2>1 DEF Quiet
<1>6. CASE pc[c] = "plan" /\ plans' = plans \cup {c}
  <2>1. \A d \in plans : turn[d] = turn[c] => d = c
    BY <1>2, <1>6 DEF QuietAt
  <2>2. \A d \in Calls : pc[d] = "plan" /\ turn[d] = turn[c] => d = c
    BY <1>6 DEF Quiet, Running, Awaiting
  <2>3. \A d \in Calls : QuietAt(d)'
    BY <1>1, <1>6, <2>2 DEF Quiet, QuietAt
  <2> QED
    BY <1>1, <1>4, <1>6, <2>1, <2>3 DEF Quiet
<1> QED
  BY <1>3, <1>5, <1>6

LEMMA NextStaysQuiet ==
  ASSUME PlanInv, QuietInv, [Next]_vars
  PROVE  QuietInv'
<1> SUFFICES ASSUME ~ disturbed' PROVE Quiet'
  BY DEF QuietInv
<1>1. ~ Fails(1)
  BY FailureDisturbs
<1>2. ASSUME UNCHANGED disturbed
      PROVE  Quiet
  BY <1>2 DEF QuietInv
<1>3. CASE UNCHANGED daemonVars
  <2>1. /\ UNCHANGED <<planned, pc, turn, step, plan, listed, made, strayed, late, plans>>
        /\ Quiet
    BY <1>2, <1>3 DEF daemonVars, local, graph, queue, history
  <2>2. \A c \in Calls : QuietAt(c)'
    BY <2>1 DEF Quiet, QuietAt
  <2> QED
    BY <2>1, <2>2 DEF Quiet, Running
<1>4. ASSUME NEW a \in Adapters, Delivery(a)
      PROVE  Quiet'
  <2>1. CASE Connects(a)
    <3>1. PICK c \in Calls : Begin(c, Carries(a)) /\ Carries(a) \in Turns
      BY <2>1 DEF Connects
    <3>2. Quiet
      BY <3>1 DEF Begin, QuietInv
    <3> QED
      BY <3>1, <3>2, BeginStaysQuiet
  <2>2. ~ Restarts(a)
    BY <1>1 DEF Restarts
  <2>3. ~ Connects(a) /\ ~ Restarts(a) => UNCHANGED daemonVars
    BY <1>4 DEF Delivery, Ask, Refused, TimesOut, Answered, Refuted, CutOff, Unlink
  <2> QED
    BY <1>3, <2>1, <2>2, <2>3
<1>5. ASSUME NEW c \in Calls, Executes(c)
      PROVE  Quiet'
  <2>1. \A n \in {0, 1} : Fails(n) => (disturbed => disturbed')
    BY DEF Fails
  <2>2. disturbed => disturbed'
    BY <1>5, <2>1
       DEF Executes, MessageStored, MessageFails, PlanFound, PlanNotFound, StepsListed,
           PlanStored, StepStored, StepLinked, PlanJoined, PlanChained, PlanFails,
           StepsDropped, PlanDropped, DroppingFails, Passes, Breaks
  <2>3. Quiet /\ QuietAt(c)
    BY <2>2 DEF QuietInv, Quiet
  <2>4. ~ (MessageFails(c) \/ PlanFails(c) \/ DroppingFails(c))
    BY <1>1 DEF MessageFails, PlanFails, DroppingFails, Breaks
  <2>5. ~ (StepsDropped(c) \/ PlanDropped(c))
    BY <2>3 DEF QuietAt, StepsDropped, PlanDropped, Passes
  <2> QED
    BY <1>5, <2>3, <2>4, <2>5, WritingStaysQuiet, LookingStaysQuiet DEF Executes
<1>6. ASSUME Commits
      PROVE  Quiet'
  <2>1. Quiet
    BY <1>2, <1>6 DEF Commits, Land, LandLate
  <2>2. \A w \in late : ~ LandLate(w)
    BY <2>1 DEF Quiet
  <2> QED
    BY <1>6, <2>1, <2>2, LandStaysQuiet DEF Commits
<1>7. ~ Stop
  BY <1>1 DEF Stop, Stopped
<1> QED
  BY <1>3, <1>4, <1>5, <1>6, <1>7 DEF Next, vars, Execution, Start

LEMMA InitQuietInv == DeliveryInit => QuietInv
<1> SUFFICES ASSUME DeliveryInit PROVE Quiet
  BY DEF QuietInv
<1>1. /\ late = {} /\ strayed = {} /\ plans = {} /\ \A c \in Calls : pc[c] = "idle"
  BY DEF DeliveryInit, Init, QueueInit
<1>2. Running = {}
  BY <1>1 DEF Running, Awaiting, Reading
<1>3. \A c \in Calls : step[c] = 0 /\ plan[c] = None
  BY DEF DeliveryInit, Init
<1>4. \A c \in Calls : QuietAt(c)
  BY <1>1, <1>3 DEF QuietAt
<1> QED
  BY <1>1, <1>2, <1>4 DEF Quiet

\* A turn has one plan, however often it is executed, and an execution that finds
\* it answers with all of it, if executions do not overlap and none fails
\* (find_live_by_dedupe_key and _create_plan_graph).
THEOREM RetriesShareThePlan == Spec => []RetriesShareAPlan
<1>1. QuietInv /\ PlanInv => RetriesShareAPlan
  <2> SUFFICES ASSUME PlanInv, Quiet, NEW c \in Calls, pc[c] = "answered", turn[c] \in planned
               PROVE  \E d \in Calls :
                        /\ Live(turn[c]) = {d} /\ Whole(d)
                        /\ plan[c] \in {d, None}
                        /\ plan[c] = d /\ d # c => listed[c] = Steps
    BY DEF QuietInv, RetriesShareAPlan
  <2>1. PICK d \in made : /\ turn[d] = turn[c]
                          /\ plan[c] \in {d, None}
                          /\ plan[c] = d /\ d # c => listed[c] = Steps
    BY DEF Quiet, QuietAt
  <2>2. d \in Calls /\ d \notin strayed
    BY DEF PlanInv, PlanTyped, StrayedFailed
  <2>3. Whole(d)
    BY <2>2 DEF PlanInv, PlanOf, PlanAt
  <2>4. Live(turn[c]) = {d}
    BY <2>1, <2>3 DEF Whole, Live, Quiet
  <2> QED
    BY <2>1, <2>2, <2>3, <2>4
<1>2. QuietInv /\ PlanInv /\ [Next]_vars => QuietInv'
  BY NextStaysQuiet
<1> QED
  BY <1>1, <1>2, InitQuietInv, PlanSafety, PTL DEF Spec

-----------------------------------------------------------------------------
LEMMA NextKeepsAsked ==
  ASSUME DeliveryInv, AskedOK, [Next]_vars
  PROVE  AskedOK'
<1> USE DEF AskedOK
<1>1. AdaptersOK /\ None \notin Turns \cup {Other}
  BY PlanCreationAssumption, TurnDeliveryAssumption DEF DeliveryInv
<1>2. daemon' \in BOOLEAN
  BY DEF Next, Delivery, Ask, Connects, Refused, TimesOut, Answered, Refuted, CutOff, Unlink,
         Restarts, Execution, Stop, Start, vars
<1>3. ASSUME NEW a \in Adapters, Delivery(a)
      PROVE  AskedOK'
  <2> DEFINE At(next) == phase' = [phase EXCEPT ![a] = next]
             Went == /\ online' \in [Adapters -> BOOLEAN]
                     /\ \/ UNCHANGED <<phase, asked>>
                        \/ At("idle") /\ asked' = [asked EXCEPT ![a] = None]
                        \/ /\ phase[a] # "idle"
                           /\ \E next \in {"socket", "http", "unlink"} : At(next)
                           /\ asked' = asked
                        \/ /\ \E r \in Turns \cup {Other} : asked' = [asked EXCEPT ![a] = r]
                           /\ At("socket")
  <2>1. ASSUME Went
        PROVE  AskedOK'
    BY <1>1, <1>2, <2>1 DEF AdaptersOK
  <2>2. \A rest : Replays(a, rest) /\ phase[a] # "idle" /\ online' \in [Adapters -> BOOLEAN] => Went
    BY DEF Replays, Answers, Enters
  <2>3. \A r : Ask(a, r) /\ r \in Turns \cup {Other} => Went
    BY DEF Ask, Enters
  <2>4. phase[a] = "idle" => entry[a] = None /\ exec[a] = None
    BY DEF DeliveryInv, AdapterIsConsistent
  <2>5. SoftFails(a) /\ phase[a] # "idle" => Went
    BY <2>2 DEF SoftFails, Answers, Enters
  <2>6. Succeeds(a) /\ phase[a] # "idle" => Went
    BY <2>2 DEF Succeeds, Answers, Enters
  <2>7. Retries(a) => Went
    BY <2>5 DEF Retries, Enters
  <2>8. Connects(a) \/ Restarts(a) => Went
    BY DEF Connects, Restarts
  <2>9. Unlink(a) => Went
    BY <2>2 DEF Unlink
  <2> QED
    BY <1>3, <2>1, <2>3, <2>4, <2>5, <2>6, <2>7, <2>8, <2>9
       DEF Delivery, Refused, TimesOut, Answered, Refuted, CutOff
<1>4. CASE Execution \/ Stop \/ Start \/ UNCHANGED vars
  BY <1>2, <1>4 DEF Execution, Stop, Start, vars, adapter
<1> QED
  BY <1>3, <1>4 DEF Next

\* Types of the daemon's and of the adapters' variables; an adapter handles a
\* request exactly when it is not idle, and waits for an execution of the turn it
\* carries (handle_mcp_request, call_brain).
THEOREM DeliveryTyped == Spec => []TypeOK
<1>1. DeliveryInit => AskedOK
  BY DEF DeliveryInit, AskedOK
<1>2. DeliveryInv /\ AskedOK /\ [Next]_vars => AskedOK'
  BY NextKeepsAsked
<1>3. DeliveryInv /\ PlanInv /\ AskedOK => TypeOK
  <2> SUFFICES ASSUME DeliveryInv, PlanInv, AskedOK PROVE TypeOK
    OBVIOUS
  <2>1. PlanTypeOK
    BY DEF PlanInv, DaemonInv, PlacesOK, PlanTyped, PlanTypeOK
  <2>2. daemon \in BOOLEAN
    BY DEF AskedOK
  <2>3. \A a \in Adapters : exec[a] # None =>
          phase[a] \in {"socket", "http"} /\ turn[exec[a]] = Carries(a)
    BY DEF DeliveryInv, AdaptersOK, AdapterIsConsistent
  <2> QED
    BY <2>1, <2>2, <2>3 DEF DeliveryInv, AdaptersOK, AskedOK, TypeOK
<1> QED
  BY <1>1, <1>2, <1>3, DeliverySafety, PlanSafety, PTL DEF Spec

=============================================================================
