---------------------------- MODULE SessionContext ----------------------------
(***************************************************************************)
(* What the calls of one session keep about it, besides its messages: the  *)
(* quest it works on and how sure the router is of that (route_session,    *)
(* update_routing_strength, get_or_create_main_quest), its warm frontier   *)
(* (compute_warm_frontier, activate_warm_node), and the nodes loaded into  *)
(* its context window (track_loaded).  A call is a turn (notify_turn),     *)
(* with the path of a repository or without, or a retrieval that tracks    *)
(* what it returns; calls of a session are coroutines and nothing keeps    *)
(* two of them apart, nor a call and the Loop (module Consolidation).      *)
(* The writes of a turn that store its message are one write here; module  *)
(* TurnCapture has them one by one.                                        *)
(*                                                                         *)
(* A write goes through the write gate (module WriteQueue) if its query is *)
(* SPARQL text.  WARM_NODE and LOADED edges are written by a handler of    *)
(* GraphGateway, on the event loop, without suspending the call.           *)
(*                                                                         *)
(* No specification uses the definitions that state a plausible slip in    *)
(* the code of the definition right after them (FoundNowhere before Found). *)
(***************************************************************************)
EXTENDS Naturals, FiniteSets, WriteQueue

CONSTANTS
  Nodes,        \* nodes a turn may warm and a retrieval may load
  Scores,       \* similarity of a turn to the best quest, in hundredths
  RepoQuest,    \* the quest whose id is the hash of the repository's path
  MaxWarmNodes, \* max_warm_nodes: how many nodes a frontier has at most
  MaxFailures,  \* bound: raised exceptions and crashes in a behaviour
  None

\* Below S1_ESCALATION_THRESHOLD the best quest is none; ENTITY_OVERLAP_BOOST
\* may lift a score above 1.
ASSUME SessionContextAssumption ==
  /\ Scores \subseteq 60 .. 115
  /\ MaxWarmNodes \in Nat
  /\ MaxFailures \in Nat
  /\ RepoQuest \notin Calls
  /\ None \notin Calls \cup {RepoQuest} \cup Nodes
  /\ IsFiniteSet(Nodes)

QuestIds == Calls \cup {RepoQuest}   \* a quest created by a turn bears its name

VARIABLES
  pc,        \* the write a call awaits, or how it ended
  repo,      \* the turns that came with a repository
  quest,     \* quest_id, as the turn found or created it
  put,       \* routing_confidence and routing_state, as the call will write them
  warms,     \* the nodes a turn activates
  todo,      \* results a retrieval has yet to track
  node,      \* the result whose hits it updates
  hit,       \* load_hits, or the count of loaded nodes, as it will write them
  routing,   \* the Session's values of the routing fields; none: no such Session
  quests,    \* MainQuest nodes: for each id, how many times it was created
  indexed,   \* those with an embedding in the vector store
  works,     \* quests the Session has a WORKING_ON edge to
  frontier,  \* nodes the Session has a WARM_NODE edge to
  added,     \* those of them the Loop has activated
  copies,    \* for each node, its LOADED occurrences
  hits,      \* the values of their load_hits
  counted,   \* the Session's values of loaded_node_count
  loads,     \* for each node, how often a retrieval tracked it
  early,     \* nodes tracked before there was a Session
  disturbed, \* calls have overlapped, or there was a failure
  failures   \* exceptions and crashes so far

graph == <<routing, quests, works, hits, counted>>
direct == <<indexed, frontier, added, copies>>
local == <<repo, quest, put, warms, todo, node, hit>>
history == <<loads, early>>
vars == <<pc, local, queue, graph, direct, history, disturbed, failures>>

RepoAwaiting  == {"create", "touch", "lock", "join"}
RouteAwaiting == {"quest", "bind", "link"}
LoadAwaiting  == {"hit", "count"}
Awaiting == RepoAwaiting \cup RouteAwaiting \cup LoadAwaiting
              \cup {"message", "clear", "sent", "strength"}
Ended == {"answered", "loaded", "failed"}   \* a turn, a retrieval, either

\* A call that waits for a read in a thread ("find") is not at the write gate.
InFlight == {c \in Calls : pc[c] \in Awaiting \cup {"find"}}
Quiet == InFlight = {} /\ late = {}

Exists == {q \in QuestIds : quests[q] > 0}
Loaded == {n \in Nodes : copies[n] > 0}

Routed(confidence, state) == [confidence |-> confidence, state |-> state]
Nothing == Routed(0, "tentative")
NoRows == Routed({}, {})

SessionExists == routing # NoRows

Init ==
  /\ pc = [c \in Calls |-> "idle"]
  /\ repo = {}
  /\ quest = [c \in Calls |-> None]
  /\ put = [c \in Calls |-> Nothing]
  /\ warms = [c \in Calls |-> {}]
  /\ todo = [c \in Calls |-> {}]
  /\ node = [c \in Calls |-> None]
  /\ hit = [c \in Calls |-> 0]
  /\ QueueInit
  /\ routing = NoRows
  /\ quests = [q \in QuestIds |-> 0]
  /\ indexed = {}
  /\ works = {}
  /\ frontier = {}
  /\ added = {}
  /\ copies = [n \in Nodes |-> 0]
  /\ hits = [n \in Nodes |-> {}]
  /\ counted = {}
  /\ loads = [n \in Nodes |-> 0]
  /\ early = {}
  /\ disturbed = FALSE /\ failures = 0

-----------------------------------------------------------------------------
\* The statement call c awaits.
Statement(c) ==
  [kind |-> pc[c], quest |-> quest[c], put |-> put[c], node |-> node[c], hit |-> hit[c]]

\* What it selects in the store: the values it replaces, the edges it deletes,
\* the quest it links.  Without the Session, or without an edge, it selects
\* nothing.
Selects(w) ==
  [rows  |-> IF w.kind \in {"bind", "lock", "strength", "count"} THEN routing ELSE NoRows,
   items |-> IF ~ SessionExists THEN {}
             ELSE CASE w.kind \in {"link", "join"} -> {w.quest} \cap Exists
                    [] w.kind = "clear" -> frontier
                    [] w.kind = "hit"   -> hits[w.node]
                    [] w.kind = "count" -> counted
                    [] OTHER -> {}]

\* What it changes when it commits, having selected `on`.
Writes(w, on) ==
  /\ routing' = IF \/ w.kind \in {"bind", "lock"}
                   \/ w.kind = "strength" /\ on.rows # NoRows
                  THEN Routed((routing.confidence \ on.rows.confidence) \cup {w.put.confidence},
                              (routing.state \ on.rows.state) \cup {w.put.state})
                  ELSE routing
  /\ quests' = IF w.kind \in {"quest", "create"} THEN [quests EXCEPT ![w.quest] = @ + 1] ELSE quests
  /\ works' = IF w.kind \in {"link", "join"} THEN works \cup on.items ELSE works
  /\ frontier' = IF w.kind = "clear" THEN frontier \ on.items ELSE frontier
  /\ added' = IF w.kind = "clear" THEN added \ on.items ELSE added
  /\ hits' = IF w.kind = "hit" /\ on.items # {}
               THEN [hits EXCEPT ![w.node] = (@ \ on.items) \cup {w.hit}] ELSE hits
  /\ counted' = IF w.kind = "count" /\ on.rows # NoRows
                  THEN (counted \ on.items) \cup {w.hit} ELSE counted
  /\ UNCHANGED <<indexed, copies>>

Land(c) ==
  /\ Lands(c)
  /\ Writes(Statement(c), Selects(Statement(c)))
  /\ UNCHANGED <<pc, local, history, disturbed, failures>>

\* A statement that was given up selects before that or when it commits.
LandLate(w) ==
  /\ LandsLate(w)
  /\ \E on \in {w.on, Selects(w.statement)} : Writes(w.statement, on)
  /\ UNCHANGED <<pc, local, history, disturbed, failures>>

\* Exceptions are counted, so that a behaviour has few of them.
Fails(n) ==
  /\ failures + n <= MaxFailures
  /\ failures' = failures + n
  /\ disturbed' = (disturbed \/ n > 0)

GivenUp(c) == [statement |-> Statement(c), on |-> Selects(Statement(c))]

\* Call c's awaited write raises.
Raised(c) == Raises(c, GivenUp(c)) /\ Fails(1)

\* It returns or it raises, where the code swallows the exception; in what the
\* call does next, n more exceptions are raised and swallowed.
Settles(c, n) ==
  \/ Returns(c) /\ Fails(n)
  \/ Raises(c, GivenUp(c)) /\ Fails(n + 1)

\* Then call c goes on: to its next write, or to its end.
GoesTo(c, next) ==
  /\ pc' = [pc EXCEPT ![c] = next]
  /\ Moves(c, next \in Awaiting)

\* A call that ends forgets what it knew.  (What it warmed is kept, to state
\* FrontierOfOneTurn.)
Ends(c, how) ==
  /\ GoesTo(c, how)
  /\ repo' = repo \ {c}
  /\ quest' = [quest EXCEPT ![c] = None]
  /\ put' = [put EXCEPT ![c] = Nothing]
  /\ todo' = [todo EXCEPT ![c] = {}]
  /\ node' = [node EXCEPT ![c] = None]
  /\ hit' = [hit EXCEPT ![c] = 0]

Arrives(c) ==
  /\ pc[c] = "idle"
  /\ UNCHANGED <<landed, late>>

\* A call that arrives while another is under way disturbs it, and is disturbed.
Meets(n) ==
  /\ failures + n <= MaxFailures
  /\ failures' = failures + n
  /\ disturbed' = (disturbed \/ n > 0 \/ ~ Quiet)

-----------------------------------------------------------------------------
(***************************************************************************)
(* A turn without a repository: route_session.                             *)
(***************************************************************************)

\* Quests the router can match: active, and with an embedding.
Matched == Exists \cap indexed

\* No quest, or none that is similar enough: a new one, under a new id.
RouteNew(c) ==
  /\ quest' = [quest EXCEPT ![c] = c]
  /\ put' = [put EXCEPT ![c] = Routed(95, "tentative")]
  /\ GoesTo(c, "quest")

\* The best of them, with or without System 2's opinion.
RouteBest(c) ==
  \E q \in Matched, s \in Scores :
    /\ quest' = [quest EXCEPT ![c] = q]
    /\ put' = [put EXCEPT ![c] = Routed(s, "tentative")]
    /\ GoesTo(c, "bind")

\* The Session works on a quest already; on one of them, if on several.
Bound(c) ==
  \E q \in works :
    /\ quest' = [quest EXCEPT ![c] = q]
    /\ GoesTo(c, "message")
    /\ UNCHANGED put

\* _check_existing_binding swallows an exception and answers that there is none.
BeginTurnRouting(c) ==
  /\ Arrives(c)
  /\ RouteNew(c) \/ RouteBest(c)
  /\ Meets(0)
  /\ UNCHANGED <<repo, warms, todo, node, hit, graph, direct, history>>
BeginTurn(c) ==
  /\ Arrives(c)
  /\ \/ works # {} /\ Bound(c) /\ Meets(0)
     \/ works = {} /\ (RouteNew(c) \/ RouteBest(c)) /\ Meets(0)
     \/ works # {} /\ (RouteNew(c) \/ RouteBest(c)) /\ Meets(1)
  /\ UNCHANGED <<repo, warms, todo, node, hit, graph, direct, history>>

\* create_new_quest has its node; its vector is inserted before it returns.
QuestCreated(c) ==
  /\ pc[c] = "quest"
  /\ Returns(c) /\ Fails(0)
  /\ indexed' = indexed \cup {c}
  /\ GoesTo(c, "bind")
  /\ UNCHANGED <<local, graph, frontier, added, copies, history>>

\* _bind_session: first the Session's fields, then the edge.
SessionBound(c) ==
  /\ pc[c] = "bind"
  /\ Returns(c) /\ Fails(0)
  /\ GoesTo(c, "link")
  /\ UNCHANGED <<local, graph, direct, history>>

SessionLinked(c) ==
  /\ pc[c] = "link"
  /\ Returns(c) /\ Fails(0)
  /\ GoesTo(c, "message")
  /\ UNCHANGED <<local, graph, direct, history>>

\* notify_turn goes on without a quest.
RouteFails(c) ==
  /\ pc[c] \in RouteAwaiting
  /\ Raised(c)
  /\ quest' = [quest EXCEPT ![c] = None]
  /\ GoesTo(c, "message")
  /\ UNCHANGED <<repo, put, warms, todo, node, hit, graph, direct, history>>

-----------------------------------------------------------------------------
(***************************************************************************)
(* A turn with a repository: get_or_create_main_quest and _session.        *)
(***************************************************************************)

BeginRepoTurn(c) ==
  /\ Arrives(c)
  /\ Meets(0)
  /\ repo' = repo \cup {c}
  /\ quest' = [quest EXCEPT ![c] = RepoQuest]
  /\ GoesTo(c, "find")
  /\ UNCHANGED <<put, warms, todo, node, hit, graph, direct, history>>

\* The read returns.  What others do between the read and this step they could
\* as well do while the call waits for the lock.
QuestLookedUp(c) ==
  /\ pc[c] = "find"
  /\ GoesTo(c, IF RepoQuest \in Exists THEN "touch" ELSE "create")
  /\ UNCHANGED <<landed, late, local, graph, direct, history, disturbed, failures>>

QuestWritten(c) ==
  /\ pc[c] \in {"create", "touch"}
  /\ Returns(c) /\ Fails(0)
  /\ indexed' = IF pc[c] = "create" THEN indexed \cup {RepoQuest} ELSE indexed
  /\ put' = [put EXCEPT ![c] = Routed(95, "locked")]
  /\ GoesTo(c, "lock")
  /\ UNCHANGED <<repo, quest, warms, todo, node, hit, graph, frontier, added, copies, history>>

\* get_or_create_session swallows what either of its writes raises.
SessionLocked(c) ==
  /\ pc[c] = "lock"
  /\ \/ Returns(c) /\ Fails(0) /\ GoesTo(c, "join")
     \/ Raised(c) /\ GoesTo(c, "message")
  /\ UNCHANGED <<local, graph, direct, history>>

SessionJoined(c) ==
  /\ pc[c] = "join"
  /\ Settles(c, 0)
  /\ GoesTo(c, "message")
  /\ UNCHANGED <<local, graph, direct, history>>

-----------------------------------------------------------------------------
(***************************************************************************)
(* Both: the message, the warm frontier, the router's confidence.          *)
(***************************************************************************)

\* The message is stored, and compute_warm_frontier chooses its nodes.
MessageStoredWarming(c) ==
  /\ pc[c] = "message"
  /\ Returns(c) /\ Fails(0)
  /\ \E S \in {T \in SUBSET Nodes : Cardinality(T) <= MaxWarmNodes} :
       /\ warms' = [warms EXCEPT ![c] = S]
       /\ frontier' = frontier \cup S
       /\ GoesTo(c, IF S = {} THEN "sent" ELSE "clear")
  /\ UNCHANGED <<repo, quest, put, todo, node, hit, graph, indexed, added, copies, history>>
MessageStored(c) ==
  /\ pc[c] = "message"
  /\ Returns(c) /\ Fails(0)
  /\ \E S \in {T \in SUBSET Nodes : Cardinality(T) <= MaxWarmNodes} :
       /\ warms' = [warms EXCEPT ![c] = S]
       /\ GoesTo(c, IF S = {} THEN "sent" ELSE "clear")
  /\ UNCHANGED <<repo, quest, put, todo, node, hit, graph, direct, history>>

\* The old frontier is cleared, or not: the new edges are written one after the
\* other, and an edge that raises is left out.
FrontierCleared(c) ==
  /\ pc[c] = "clear"
  /\ \E S \in SUBSET warms[c] :
       /\ Settles(c, Cardinality(warms[c] \ S))
       /\ frontier' = frontier \cup S
  /\ GoesTo(c, "sent")
  /\ UNCHANGED <<local, graph, indexed, added, copies, history>>

\* update_routing_strength: what a message that confirms the quest, or does
\* not, makes of the confidence and the state.
StrengthenedEarly(k, s, confirms) ==
  LET new == IF ~ confirms THEN k ELSE IF k + 10 < 100 THEN k + 10 ELSE 100
  IN  Routed(new, IF new >= 60 /\ s = "tentative" THEN "consolidated" ELSE s)
StrengthenedOnly(k, s, confirms) ==
  LET new == IF ~ confirms THEN k ELSE IF k + 10 < 100 THEN k + 10 ELSE 100
  IN  Routed(new, IF new >= 85 THEN "consolidated" ELSE s)
Strengthened(k, s, confirms) ==
  LET new == IF ~ confirms THEN k ELSE IF k + 10 < 100 THEN k + 10 ELSE 100
  IN  Routed(new, IF new >= 85 /\ s = "tentative" THEN "consolidated" ELSE s)

\* The message is linked to the Session.  A turn that was routed reads the
\* routing fields and goes to write them; without a repository only, and only
\* if the quest has an embedding and the Session is there.
MessageSent(c) ==
  /\ pc[c] = "sent"
  /\ Returns(c) /\ Fails(0)
  /\ IF c \notin repo /\ quest[c] \in Matched /\ SessionExists
       THEN /\ \E k \in routing.confidence, s \in routing.state, confirms \in BOOLEAN :
                 put' = [put EXCEPT ![c] = Strengthened(k, s, confirms)]
            /\ GoesTo(c, "strength")
            /\ UNCHANGED <<repo, quest, todo, node, hit>>
       ELSE Ends(c, "answered")
  /\ UNCHANGED <<warms, graph, direct, history>>

StrengthStored(c) ==
  /\ pc[c] = "strength"
  /\ Settles(c, 0)
  /\ Ends(c, "answered")
  /\ UNCHANGED <<warms, graph, direct, history>>

\* Nothing in notify_turn catches what these raise.
TurnFails(c) ==
  /\ \/ pc[c] = "find" /\ Fails(1) /\ UNCHANGED <<landed, late>>
     \/ pc[c] \in {"create", "touch", "message", "sent"} /\ Raised(c)
  /\ Ends(c, "failed")
  /\ warms' = [warms EXCEPT ![c] = {}]
  /\ UNCHANGED <<graph, direct, history>>

-----------------------------------------------------------------------------
(***************************************************************************)
(* A retrieval: track_loaded.                                              *)
(***************************************************************************)

\* The results that have a LOADED edge, as the check for one finds them.
FoundNowhere(S) == {}
Found(S) == IF SessionExists THEN S \cap Loaded ELSE {}

\* What call c does with the results S up to its next write.  A node without a
\* LOADED edge gets one, and the loop goes on in the same step; the first node
\* that has one has its hits counted, in a write.  When no result is left, the
\* loaded nodes are counted.
Tracks(c, S) ==
  LET found == Found(S)
  IN  \E fresh \in SUBSET (S \ found), n \in found \cup {None} :
        /\ n = None => found = {} /\ fresh = S
        /\ copies' = [m \in Nodes |-> copies[m] + IF m \in fresh THEN 1 ELSE 0]
        /\ hits' = [m \in Nodes |-> hits[m] \cup (IF m \in fresh THEN {1} ELSE {})]
        /\ loads' = [m \in Nodes |-> loads[m] + IF m \in fresh \cup {n} THEN 1 ELSE 0]
        /\ early' = early \cup IF SessionExists THEN {} ELSE fresh
        /\ todo' = [todo EXCEPT ![c] = S \ (fresh \cup {n})]
        /\ node' = [node EXCEPT ![c] = n]
        /\ IF n = None
             THEN hit' = [hit EXCEPT ![c] = IF SessionExists THEN Cardinality(Loaded \cup S) ELSE 0]
             ELSE \E h \in hits[n] : hit' = [hit EXCEPT ![c] = h + 1]
        /\ GoesTo(c, IF n = None THEN "count" ELSE "hit")
        /\ UNCHANGED <<repo, quest, put, warms, routing, quests, works, counted, indexed, frontier, added>>

BeginRetrieval(c) ==
  /\ Arrives(c)
  /\ Meets(0)
  /\ \E S \in (SUBSET Nodes) \ {{}} : Tracks(c, S)

HitCounted(c) ==
  /\ pc[c] = "hit"
  /\ Settles(c, 0)
  /\ Tracks(c, todo[c])

LoadsCounted(c) ==
  /\ pc[c] = "count"
  /\ Settles(c, 0)
  /\ Ends(c, "loaded")
  /\ UNCHANGED <<warms, graph, direct, history>>

-----------------------------------------------------------------------------
\* activate_warm_node: the Loop, which has been handed a turn that was answered,
\* adds a node it matched to the frontier, and clears nothing.
LoopActivates(n) ==
  /\ \E c \in Calls : pc[c] = "answered"
  /\ frontier' = frontier \cup {n}
  /\ added' = added \cup {n}
  /\ UNCHANGED <<pc, local, queue, graph, indexed, copies, history, disturbed, failures>>

\* The process ends and is started again: calls and abandoned threads are gone.
Crash ==
  /\ InFlight # {}
  /\ pc' = [c \in Calls |-> IF c \in InFlight THEN "failed" ELSE pc[c]]
  /\ QueueLost
  /\ repo' = {}
  /\ quest' = [c \in Calls |-> None]
  /\ put' = [c \in Calls |-> Nothing]
  /\ todo' = [c \in Calls |-> {}]
  /\ node' = [c \in Calls |-> None]
  /\ hit' = [c \in Calls |-> 0]
  /\ warms' = [c \in Calls |-> IF c \in InFlight THEN {} ELSE warms[c]]
  /\ Fails(1)
  /\ UNCHANGED <<graph, direct, history>>

Turn(c) ==
  \/ BeginTurn(c) \/ QuestCreated(c) \/ SessionBound(c) \/ SessionLinked(c) \/ RouteFails(c)
  \/ BeginRepoTurn(c) \/ QuestLookedUp(c) \/ QuestWritten(c) \/ SessionLocked(c) \/ SessionJoined(c)
  \/ MessageStored(c) \/ FrontierCleared(c) \/ MessageSent(c)
  \/ StrengthStored(c) \/ TurnFails(c)

Retrieval(c) == BeginRetrieval(c) \/ HitCounted(c) \/ LoadsCounted(c)

Next ==
  \/ \E c \in Calls : Turn(c) \/ Retrieval(c) \/ Land(c)
  \/ \E w \in late : LandLate(w)
  \/ \E n \in Nodes : LoopActivates(n)
  \/ Crash

Spec == Init /\ [][Next]_vars

-----------------------------------------------------------------------------
(***************************************************************************)
(* Properties.                                                             *)
(***************************************************************************)

States == {"tentative", "consolidated", "locked"}
RoutedOK == [confidence : 0 .. 115, state : States]

TypeOK ==
  /\ pc \in [Calls -> {"idle", "find"} \cup Awaiting \cup Ended]
  /\ repo \subseteq Calls
  /\ quest \in [Calls -> QuestIds \cup {None}]
  /\ put \in [Calls -> RoutedOK]
  /\ warms \in [Calls -> SUBSET Nodes]
  /\ todo \in [Calls -> SUBSET Nodes]
  /\ node \in [Calls -> Nodes \cup {None}]
  /\ hit \in [Calls -> Nat]
  /\ QueueOK
  /\ inside = {c \in Calls : pc[c] \in Awaiting}
  /\ routing \in [confidence : SUBSET (0 .. 115), state : SUBSET States]
  /\ quests \in [QuestIds -> Nat]
  /\ indexed \subseteq Exists
  /\ works \subseteq Exists
  /\ frontier \subseteq Nodes
  /\ added \subseteq frontier
  /\ copies \in [Nodes -> Nat]
  /\ hits \in [Nodes -> SUBSET Nat]
  /\ \A n \in Nodes : hits[n] = {} <=> n \notin Loaded
  /\ counted \subseteq Nat
  /\ loads \in [Nodes -> Nat]
  /\ early \subseteq Nodes
  /\ disturbed \in BOOLEAN
  /\ failures \in 0 .. MaxFailures

\* A session gets one quest: the turns of a session that come one at a time,
\* and do not fail, all work on the quest the first of them was given, besides
\* the repository's, which is created once; and no quest is left that nothing
\* works on.  Two first turns that overlap, and a failure between the three
\* writes of the first, do leave such quests.
SequentialTurnsShareAQuest ==
  ~ disturbed =>
    /\ Cardinality(works \ {RepoQuest}) <= 1
    /\ \A q \in QuestIds : quests[q] <= 1
    /\ Quiet => Exists = works

\* The warm frontier is one turn's and what the Loop activated since it was
\* cleared, never a mixture of two turns: turns clear it and write it in an
\* order of their own, yet the edges are written in the step that frees the
\* lock, so that a clearing that commits later removes all of them, the Loop's
\* too.  It is the Loop's alone only before the first such turn, and while one
\* is between the two.
FrontierOfOneTurn ==
  failures = 0 =>
    \/ \E c \in Calls :
         /\ pc[c] \in {"sent", "strength", "answered"} /\ warms[c] # {}
         /\ frontier = warms[c] \cup added
    \/ /\ frontier = added
       /\ \/ \E c \in Calls : pc[c] = "clear" /\ Holds(c) /\ landed
          \/ \A c \in Calls : pc[c] \in {"sent", "strength", "answered"} => warms[c] = {}

\* A session counts as consolidated only with the confidence for it: the two
\* fields are read together and written together, although what a turn writes
\* may be older than what another turn wrote in between.
ConsolidatedIsConfident ==
  failures = 0 /\ "consolidated" \in routing.state =>
    \A k \in routing.confidence : k >= 85

Rank(s) == CASE s = "tentative" -> 1 [] s = "consolidated" -> 2 [] s = "locked" -> 3

\* Turns that come one at a time never take a session's routing back: from
\* locked to consolidated, or from either to tentative.
SequentialRoutingStrengthens ==
  [][~ disturbed' => \A s \in routing.state, t \in routing'.state : Rank(s) <= Rank(t)]_vars

\* However retrievals overlap or fail, a node's load_hits never exceed the
\* number of times it was loaded, and a node first loaded into an existing
\* Session keeps one occurrence.  Retrievals that come one at a time miss none,
\* and the Session's count of loaded nodes is right after the last.
HitsCountLoads ==
  \A n \in Nodes :
    /\ \A h \in hits[n] : h <= loads[n]
    /\ n \notin early => copies[n] <= 1
    /\ ~ disturbed /\ Quiet /\ early = {} /\ loads[n] > 0 =>
         hits[n] = {loads[n]} /\ counted = {Cardinality(Loaded)}

=============================================================================
