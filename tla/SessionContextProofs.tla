------------------------ MODULE SessionContextProofs ------------------------
(***************************************************************************)
(* Proofs about SessionContext: its types, and its five properties. Three  *)
(* of them speak only of sessions in which nothing failed, or nothing      *)
(* overlapped, and need an invariant of those.                             *)
(*                                                                         *)
(* ContextInv holds whatever fails. A call at the write gate is in its     *)
(* right place, what it is about to write is of a node that is loaded and  *)
(* of a quest that exists, and the same of the statements that were given  *)
(* up and may still commit.                                                *)
(*                                                                         *)
(* UnfailedInv, as long as no call has failed, though they overlap: a turn *)
(* whose route is computed knows that the Session is there, what it writes *)
(* as consolidated it read with a confidence of 85, and a turn that has    *)
(* cleared the frontier and not yet written its own still holds the lock.  *)
(*                                                                         *)
(* SequentialInv, as long as calls also come one at a time: how far the    *)
(* one call has come says how the quests, the Session and the edges        *)
(* between them differ. At rest they agree.                                *)
(*                                                                         *)
(* CountedInv, for retrievals among those: each load of a node has been    *)
(* counted, but for the load whose hit is being written.                   *)
(***************************************************************************)
EXTENDS SessionContext, WriteQueueProofs, FiniteSetTheorems

Places == {"idle", "find"} \cup Awaiting \cup Ended

CallsTyped ==
  /\ pc \in [Calls -> Places]
  /\ repo \subseteq Calls
  /\ quest \in [Calls -> QuestIds \cup {None}]
  /\ put \in [Calls -> RoutedOK]
  /\ warms \in [Calls -> SUBSET Nodes]
  /\ todo \in [Calls -> SUBSET Nodes]
  /\ node \in [Calls -> Nodes \cup {None}]
  /\ hit \in [Calls -> Nat]

GraphTyped ==
  /\ routing \in [confidence : SUBSET (0 .. 115), state : SUBSET States]
  /\ quests \in [QuestIds -> Nat]
  /\ indexed \subseteq Exists
  /\ works \subseteq Exists
  /\ frontier \subseteq Nodes
  /\ added \subseteq frontier
  /\ counted \subseteq Nat

LoadsTyped ==
  /\ copies \in [Nodes -> Nat]
  /\ hits \in [Nodes -> SUBSET Nat]
  /\ \A n \in Nodes : hits[n] = {} <=> n \notin Loaded
  /\ loads \in [Nodes -> Nat]
  /\ early \subseteq Nodes

RunTyped == disturbed \in BOOLEAN /\ failures \in 0 .. MaxFailures

QueueTyped == QueueOK /\ inside = {c \in Calls : pc[c] \in Awaiting}

\* What a call goes to write.
CallOK(c) ==
  /\ pc[c] = "quest" => quest[c] = c
  /\ pc[c] \in {"find", "create", "touch"} => quest[c] = RepoQuest
  /\ pc[c] = "hit" => node[c] \in Loaded /\ hit[c] <= loads[node[c]]
  /\ pc[c] \in {"quest", "create"} /\ landed /\ Holds(c) => quest[c] \in Exists

\* What a statement that was given up may still write.
LateOK ==
  \A w \in late :
    /\ w.statement.put \in RoutedOK /\ w.statement.hit \in Nat
    /\ w.statement.kind \in {"link", "join"} => w.on.items \subseteq Exists
    /\ w.statement.kind = "hit" =>
         w.statement.node \in Loaded /\ w.statement.hit <= loads[w.statement.node]

LoadsOK ==
  \A n \in Nodes :
    /\ \A h \in hits[n] : h <= loads[n]
    /\ n \notin early => copies[n] <= 1

ContextInv ==
  /\ TypeOK
  /\ \A c \in Calls : CallOK(c)
  /\ LateOK
  /\ LoadsOK

-----------------------------------------------------------------------------
LEMMA TypeIs ==
  TypeOK <=> CallsTyped /\ GraphTyped /\ LoadsTyped /\ RunTyped /\ QueueTyped
BY DEF TypeOK, CallsTyped, GraphTyped, LoadsTyped, RunTyped, QueueTyped, Places

LEMMA TypeIsNext ==
  TypeOK' <=> CallsTyped' /\ GraphTyped' /\ LoadsTyped' /\ RunTyped' /\ QueueTyped'
BY DEF TypeOK, CallsTyped, GraphTyped, LoadsTyped, RunTyped, QueueTyped, Places

\* Exceptions are counted, and disturb the session.
LEMMA FailsCounts ==
  ASSUME RunTyped, NEW n \in Nat, Fails(n)
  PROVE  /\ RunTyped' /\ failures' = failures + n
         /\ ~ disturbed' => ~ disturbed /\ n = 0
<1> DEFINE some == n > 0
<1>1. failures' = failures + n /\ failures + n <= MaxFailures /\ disturbed' = (disturbed \/ some)
  BY DEF Fails
<1>2. ~ some => n = 0
  OBVIOUS
<1> HIDE DEF some
<1>3. disturbed' \in BOOLEAN /\ (~ disturbed' => ~ disturbed /\ n = 0)
  BY <1>1, <1>2 DEF RunTyped
<1>4. failures' \in 0 .. MaxFailures
  BY <1>1, SessionContextAssumption DEF RunTyped
<1> QED
  BY <1>1, <1>3, <1>4 DEF RunTyped

LEMMA MeetsCounts ==
  ASSUME RunTyped, NEW n \in Nat, Meets(n)
  PROVE  /\ RunTyped' /\ failures' = failures + n
         /\ ~ disturbed' => ~ disturbed /\ n = 0 /\ Quiet
<1> DEFINE some == n > 0 \/ ~ Quiet
<1>1. failures' = failures + n /\ failures + n <= MaxFailures /\ disturbed' = (disturbed \/ some)
  BY DEF Meets
<1>2. ~ some => n = 0 /\ Quiet
  OBVIOUS
<1> HIDE DEF some
<1>3. disturbed' \in BOOLEAN /\ (~ disturbed' => ~ disturbed /\ n = 0 /\ Quiet)
  BY <1>1, <1>2 DEF RunTyped
<1>4. failures' \in 0 .. MaxFailures
  BY <1>1, SessionContextAssumption DEF RunTyped
<1> QED
  BY <1>1, <1>3, <1>4 DEF RunTyped

\* What a step of call c, to `next`, is to the queue, the counters and what no
\* call's step changes.
Goes(c, next) ==
  /\ pc' = [pc EXCEPT ![c] = next]
  /\ Moves(c, next \in Awaiting)
  /\ landed' \in BOOLEAN /\ (landed' => landed /\ ~ Holds(c))
  /\ \/ late' = late
     \/ late' = late \cup {GivenUp(c)} /\ pc[c] \in Awaiting /\ failures' # failures
  /\ pc[c] \in Awaiting /\ failures' = failures => Holds(c) /\ landed
  /\ pc[c] \notin Awaiting => landed' = landed
  /\ RunTyped' /\ failures <= failures'
  /\ ~ disturbed' => ~ disturbed /\ failures' = failures /\ (pc[c] = "idle" => Quiet)
  /\ UNCHANGED <<routing, quests, works, counted>>

LEMMA ReturnsGoes ==
  ASSUME TypeOK, NEW c \in Calls, NEW next, NEW n \in Nat, GoesTo(c, next),
         pc[c] \in Awaiting,
         \/ Returns(c) /\ Fails(n)
         \/ Raised(c)
         \/ Settles(c, n),
         UNCHANGED <<routing, quests, works, counted>>
  PROVE  Goes(c, next)
<1>1. RunTyped
  BY TypeIs
<1>2. n + 1 \in Nat /\ n + 1 > 0 /\ 1 \in Nat
  OBVIOUS
<1>3. ASSUME Returns(c), NEW m \in Nat, Fails(m)
      PROVE  Goes(c, next)
  <2>1. RunTyped' /\ failures' = failures + m /\ (~ disturbed' => ~ disturbed /\ m = 0)
    BY <1>1, <1>3, FailsCounts
  <2>2. failures <= failures' /\ (~ disturbed' => failures' = failures)
    BY <1>1, <2>1 DEF RunTyped
  <2>3. Holds(c) /\ landed /\ ~ landed' /\ landed' \in BOOLEAN /\ late' = late
    BY <1>3 DEF Returns
  <2>4. pc[c] # "idle"
    BY DEF Awaiting, RepoAwaiting, RouteAwaiting, LoadAwaiting
  <2> QED
    BY <2>1, <2>2, <2>3, <2>4 DEF Goes, GoesTo
<1>4. ASSUME Raises(c, GivenUp(c)), NEW m \in Nat, m > 0, Fails(m)
      PROVE  Goes(c, next)
  <2>1. RunTyped' /\ failures' = failures + m /\ (~ disturbed' => FALSE)
    BY <1>1, <1>4, FailsCounts
  <2>2. failures' # failures /\ failures <= failures' /\ disturbed'
    BY <1>1, <1>4, <2>1 DEF RunTyped
  <2>3. landed' \in BOOLEAN /\ (landed' => landed /\ ~ Holds(c))
    BY <1>4 DEF Raises
  <2>4. late' = late \/ late' = late \cup {GivenUp(c)}
    BY <1>4 DEF Raises
  <2> QED
    BY <2>1, <2>2, <2>3, <2>4 DEF Goes, GoesTo
<1>5. CASE Returns(c) /\ Fails(n)
  BY <1>3, <1>5
<1>6. CASE Raises(c, GivenUp(c)) /\ Fails(1)
  BY <1>2, <1>4, <1>6
<1>7. CASE Raises(c, GivenUp(c)) /\ Fails(n + 1)
  BY <1>2, <1>4, <1>7
<1> QED
  BY <1>5, <1>6, <1>7 DEF Raised, Settles

LEMMA ArrivesGoes ==
  ASSUME TypeOK, NEW c \in Calls, NEW next, NEW n \in Nat, GoesTo(c, next),
         \/ Arrives(c) /\ Meets(n)
         \/ pc[c] = "find" /\ UNCHANGED <<landed, late>> /\ Fails(n)
         \/ pc[c] = "find" /\ UNCHANGED <<landed, late, disturbed, failures>>,
         UNCHANGED <<routing, quests, works, counted>>
  PROVE  Goes(c, next)
<1>1. RunTyped /\ QueueTyped
  BY TypeIs
<1>2. pc[c] \in {"idle", "find"} /\ UNCHANGED <<landed, late>>
  BY DEF Arrives
<1>3. pc[c] \notin Awaiting
  BY <1>2 DEF Awaiting, RepoAwaiting, RouteAwaiting, LoadAwaiting
<1>4. landed' \in BOOLEAN /\ ~ Holds(c)
  BY <1>1, <1>2, <1>3 DEF QueueTyped, QueueOK, Holds
<1>5. CASE Arrives(c) /\ Meets(n)
  <2>1. /\ RunTyped' /\ failures' = failures + n
        /\ ~ disturbed' => ~ disturbed /\ n = 0 /\ Quiet
    BY <1>1, <1>5, MeetsCounts
  <2>2. failures <= failures' /\ (~ disturbed' => failures' = failures)
    BY <1>1, <2>1 DEF RunTyped
  <2> QED
    BY <1>2, <1>3, <1>4, <2>1, <2>2 DEF Goes, GoesTo
<1>6. CASE pc[c] = "find" /\ Fails(n)
  <2>1. /\ RunTyped' /\ failures' = failures + n
        /\ ~ disturbed' => ~ disturbed /\ n = 0
    BY <1>1, <1>6, FailsCounts
  <2>2. failures <= failures' /\ (~ disturbed' => failures' = failures)
    BY <1>1, <2>1 DEF RunTyped
  <2> QED
    BY <1>2, <1>3, <1>4, <1>6, <2>1, <2>2 DEF Goes, GoesTo
<1>7. CASE pc[c] = "find" /\ UNCHANGED <<disturbed, failures>>
  BY <1>1, <1>2, <1>3, <1>4, <1>7 DEF Goes, GoesTo, RunTyped
<1> QED
  BY <1>5, <1>6, <1>7

-----------------------------------------------------------------------------
\* A call's step leaves what other calls know alone.
OthersKept(c) ==
  \A d \in Calls \ {c} :
    /\ d \in repo' <=> d \in repo
    /\ quest'[d] = quest[d] /\ put'[d] = put[d] /\ warms'[d] = warms[d]
    /\ todo'[d] = todo[d] /\ node'[d] = node[d] /\ hit'[d] = hit[d]

LEMMA EndsKnown ==
  ASSUME CallsTyped, NEW c \in Calls, NEW how \in Ended, Ends(c, how),
         warms' = warms \/ warms' = [warms EXCEPT ![c] = {}]
  PROVE  CallsTyped' /\ OthersKept(c) /\ GoesTo(c, how)
<1>1. pc' \in [Calls -> Places]
  BY DEF CallsTyped, Ends, GoesTo, Places
<1>2. repo' \subseteq Calls
  BY DEF CallsTyped, Ends
<1>3. quest' \in [Calls -> QuestIds \cup {None}] /\ put' \in [Calls -> RoutedOK]
  BY DEF CallsTyped, Ends, Nothing, Routed, RoutedOK, States
<1>4. /\ todo' \in [Calls -> SUBSET Nodes] /\ node' \in [Calls -> Nodes \cup {None}]
      /\ hit' \in [Calls -> Nat] /\ warms' \in [Calls -> SUBSET Nodes]
  BY DEF CallsTyped, Ends
<1>5. OthersKept(c)
  BY DEF CallsTyped, Ends, OthersKept
<1> QED
  BY <1>1, <1>2, <1>3, <1>4, <1>5 DEF CallsTyped, Ends

\* A call that goes on, knowing the same.
LEMMA GoesOnKnown ==
  ASSUME CallsTyped, NEW c \in Calls, NEW next \in Places, GoesTo(c, next),
         UNCHANGED local
  PROVE  CallsTyped' /\ OthersKept(c)
BY DEF CallsTyped, GoesTo, local, OthersKept

\* What update_routing_strength makes of confidence and state.
LEMMA StrengthenedOK ==
  ASSUME NEW k \in 0 .. 115, NEW s \in States, NEW confirms \in BOOLEAN
  PROVE  /\ Strengthened(k, s, confirms) \in RoutedOK
         /\ (s = "consolidated" => k >= 85) =>
              (Strengthened(k, s, confirms).state = "consolidated"
                 => Strengthened(k, s, confirms).confidence >= 85)
         /\ Rank(s) <= Rank(Strengthened(k, s, confirms).state)
<1>1. PICK new : new = IF ~ confirms THEN k ELSE IF k + 10 < 100 THEN k + 10 ELSE 100
  OBVIOUS
<1>2. PICK state : state = IF new >= 85 /\ s = "tentative" THEN "consolidated" ELSE s
  OBVIOUS
<1>3. Strengthened(k, s, confirms) = [confidence |-> new, state |-> state]
  BY <1>1, <1>2 DEF Strengthened, Routed
<1>4. new \in 0 .. 115 /\ (k >= 85 => new >= 85)
  BY <1>1
<1>5. state \in States /\ (state = "consolidated" => new >= 85 \/ s = "consolidated")
  BY <1>2 DEF States
<1>6. Rank(s) <= Rank(state)
  BY <1>2 DEF Rank, States
<1> QED
  BY <1>3, <1>4, <1>5, <1>6 DEF RoutedOK

\* Where a step of call c takes it, and what it leaves it knowing.
KnownAt(c) ==
  /\ CallsTyped' /\ OthersKept(c)
  /\ \E next \in Places : Goes(c, next)

LEMMA RoutingGoes ==
  ASSUME TypeOK, NEW c \in Calls,
         \/ BeginTurn(c) \/ QuestCreated(c) \/ SessionBound(c) \/ SessionLinked(c)
         \/ RouteFails(c)
  PROVE  KnownAt(c)
<1>0. CallsTyped /\ RunTyped /\ GraphTyped
  BY TypeIs
<1> USE DEF Awaiting, RepoAwaiting, RouteAwaiting, LoadAwaiting
<1>1. CASE BeginTurn(c)
  <2>1. UNCHANGED <<repo, warms, todo, node, hit, graph, direct, history>> /\ Arrives(c)
    BY <1>1 DEF BeginTurn
  <2>2. 0 \in Nat /\ 1 \in Nat
    OBVIOUS
  <2>3. Meets(0) \/ Meets(1)
    BY <1>1 DEF BeginTurn
  <2>4. \E next \in {"quest", "bind", "message"} :
          /\ GoesTo(c, next)
          /\ quest' \in [Calls -> QuestIds \cup {None}]
          /\ \A d \in Calls \ {c} : quest'[d] = quest[d] /\ put'[d] = put[d]
          /\ put' \in [Calls -> RoutedOK]
    <3>1. CASE RouteNew(c)
      <4>1. Routed(95, "tentative") \in RoutedOK /\ c \in QuestIds
        BY DEF Routed, RoutedOK, States, QuestIds
      <4> QED
        BY <1>0, <3>1, <4>1 DEF RouteNew, CallsTyped
    <3>2. CASE RouteBest(c)
      <4>1. PICK q \in Matched, s \in Scores :
              /\ quest' = [quest EXCEPT ![c] = q]
              /\ put' = [put EXCEPT ![c] = Routed(s, "tentative")]
              /\ GoesTo(c, "bind")
        BY <3>2 DEF RouteBest
      <4>2. Routed(s, "tentative") \in RoutedOK /\ q \in QuestIds
        BY SessionContextAssumption DEF Routed, RoutedOK, States, Matched, Exists
      <4> QED
        BY <1>0, <4>1, <4>2 DEF CallsTyped
    <3>3. CASE Bound(c)
      <4>1. PICK q \in works : quest' = [quest EXCEPT ![c] = q] /\ GoesTo(c, "message")
        BY <3>3 DEF Bound
      <4>2. q \in QuestIds /\ put' = put
        BY <1>0, <3>3 DEF GraphTyped, Exists, Bound
      <4> QED
        BY <1>0, <4>1, <4>2 DEF CallsTyped
    <3> QED
      BY <1>1, <3>1, <3>2, <3>3 DEF BeginTurn
  <2>5. PICK next \in {"quest", "bind", "message"} :
          /\ GoesTo(c, next)
          /\ quest' \in [Calls -> QuestIds \cup {None}]
          /\ \A d \in Calls \ {c} : quest'[d] = quest[d] /\ put'[d] = put[d]
          /\ put' \in [Calls -> RoutedOK]
    BY <2>4
  <2>6. next \in Places
    BY DEF Places
  <2>7. Goes(c, next)
    BY <2>1, <2>2, <2>3, <2>5, ArrivesGoes DEF graph
  <2>8. CallsTyped' /\ OthersKept(c)
    BY <1>0, <2>1, <2>5, <2>6 DEF CallsTyped, OthersKept, GoesTo
  <2> QED
    BY <2>6, <2>7, <2>8 DEF KnownAt
<1>2. CASE QuestCreated(c) \/ SessionBound(c) \/ SessionLinked(c)
  <2>1. PICK next \in {"bind", "link", "message"} : GoesTo(c, next)
    BY <1>2 DEF QuestCreated, SessionBound, SessionLinked
  <2>2. /\ pc[c] \in Awaiting /\ Returns(c) /\ Fails(0) /\ UNCHANGED <<local, graph>>
        /\ 0 \in Nat /\ next \in Places
    BY <1>2 DEF QuestCreated, SessionBound, SessionLinked, Places
  <2>3. Goes(c, next)
    BY <2>1, <2>2, ReturnsGoes DEF graph
  <2> QED
    BY <1>0, <2>1, <2>2, <2>3, GoesOnKnown DEF KnownAt
<1>3. CASE RouteFails(c)
  <2>1. /\ pc[c] \in Awaiting /\ Raised(c) /\ GoesTo(c, "message")
        /\ UNCHANGED <<repo, put, warms, todo, node, hit, graph, direct, history>>
        /\ quest' = [quest EXCEPT ![c] = None] /\ "message" \in Places /\ 0 \in Nat
    BY <1>3 DEF RouteFails, Places
  <2>2. Goes(c, "message")
    BY <2>1, ReturnsGoes DEF graph
  <2>3. CallsTyped' /\ OthersKept(c)
    BY <1>0, <2>1 DEF CallsTyped, OthersKept, GoesTo
  <2> QED
    BY <2>1, <2>2, <2>3 DEF KnownAt
<1> QED
  BY <1>1, <1>2, <1>3

LEMMA RepoGoes ==
  ASSUME TypeOK, NEW c \in Calls,
         \/ BeginRepoTurn(c) \/ QuestLookedUp(c) \/ QuestWritten(c)
         \/ SessionLocked(c) \/ SessionJoined(c)
  PROVE  KnownAt(c)
<1>0. CallsTyped /\ RunTyped
  BY TypeIs
<1>0a. 0 \in Nat
  OBVIOUS
<1> USE DEF Awaiting, RepoAwaiting, RouteAwaiting, LoadAwaiting
<1>1. CASE BeginRepoTurn(c)
  <2>1. /\ Arrives(c) /\ Meets(0) /\ GoesTo(c, "find") /\ "find" \in Places
        /\ repo' = repo \cup {c} /\ quest' = [quest EXCEPT ![c] = RepoQuest]
        /\ UNCHANGED <<put, warms, todo, node, hit, graph, direct, history>>
    BY <1>1 DEF BeginRepoTurn, Places
  <2>2. Goes(c, "find")
    BY <1>0a, <2>1, ArrivesGoes DEF graph
  <2>3. CallsTyped' /\ OthersKept(c)
    BY <1>0, <2>1 DEF CallsTyped, OthersKept, GoesTo, QuestIds
  <2> QED
    BY <2>1, <2>2, <2>3 DEF KnownAt
<1>2. CASE QuestLookedUp(c)
  <2>1. PICK next \in {"touch", "create"} : GoesTo(c, next)
    BY <1>2 DEF QuestLookedUp
  <2>2. pc[c] = "find" /\ UNCHANGED <<landed, late, local, graph, disturbed, failures>>
    BY <1>2 DEF QuestLookedUp
  <2>3. Goes(c, next)
    BY <1>0a, <2>1, <2>2, ArrivesGoes DEF graph
  <2> QED
    BY <1>0, <2>1, <2>2, <2>3, GoesOnKnown DEF KnownAt, Places
<1>3. CASE QuestWritten(c)
  <2>1. /\ pc[c] \in Awaiting /\ Returns(c) /\ Fails(0) /\ GoesTo(c, "lock")
        /\ put' = [put EXCEPT ![c] = Routed(95, "locked")] /\ "lock" \in Places
        /\ UNCHANGED <<repo, quest, warms, todo, node, hit, graph>>
    BY <1>3 DEF QuestWritten, Places
  <2>2. Goes(c, "lock")
    BY <1>0a, <2>1, ReturnsGoes DEF graph
  <2>3. Routed(95, "locked") \in RoutedOK
    BY DEF Routed, RoutedOK, States
  <2>4. CallsTyped' /\ OthersKept(c)
    BY <1>0, <2>1, <2>3 DEF CallsTyped, OthersKept, GoesTo
  <2> QED
    BY <2>1, <2>2, <2>4 DEF KnownAt
<1>4. CASE SessionLocked(c) \/ SessionJoined(c)
  <2>1. PICK next \in {"join", "message"} :
          GoesTo(c, next) /\ ((Returns(c) /\ Fails(0)) \/ Raised(c) \/ Settles(c, 0))
    BY <1>4 DEF SessionLocked, SessionJoined
  <2>2. pc[c] \in Awaiting /\ UNCHANGED <<local, graph>> /\ next \in Places
    BY <1>4 DEF SessionLocked, SessionJoined, Places
  <2>3. Goes(c, next)
    BY <1>0a, <2>1, <2>2, ReturnsGoes DEF graph
  <2> QED
    BY <1>0, <2>1, <2>2, <2>3, GoesOnKnown DEF KnownAt
<1> QED
  BY <1>1, <1>2, <1>3, <1>4

LEMMA MessageGoes ==
  ASSUME TypeOK, NEW c \in Calls,
         \/ MessageStored(c) \/ FrontierCleared(c) \/ MessageSent(c)
         \/ StrengthStored(c) \/ TurnFails(c) \/ LoadsCounted(c)
  PROVE  KnownAt(c)
<1>0. CallsTyped /\ RunTyped /\ GraphTyped
  BY TypeIs
<1>0a. 0 \in Nat /\ 1 \in Nat
  OBVIOUS
<1> USE DEF Awaiting, RepoAwaiting, RouteAwaiting, LoadAwaiting
<1>1. CASE MessageStored(c)
  <2>1. PICK S \in SUBSET Nodes :
          /\ warms' = [warms EXCEPT ![c] = S]
          /\ GoesTo(c, IF S = {} THEN "sent" ELSE "clear")
    BY <1>1 DEF MessageStored
  <2>2. PICK next : next = IF S = {} THEN "sent" ELSE "clear"
    OBVIOUS
  <2>3. /\ pc[c] \in Awaiting /\ Returns(c) /\ Fails(0) /\ next \in Places
        /\ UNCHANGED <<repo, quest, put, todo, node, hit, graph>>
    BY <1>1, <2>2 DEF MessageStored, Places
  <2>4. Goes(c, next)
    BY <1>0a, <2>1, <2>2, <2>3, ReturnsGoes DEF graph
  <2>5. CallsTyped' /\ OthersKept(c)
    BY <1>0, <2>1, <2>2, <2>3 DEF CallsTyped, OthersKept, GoesTo
  <2> QED
    BY <2>3, <2>4, <2>5 DEF KnownAt
<1>2. CASE FrontierCleared(c)
  <2>1. PICK S \in SUBSET warms[c] : Settles(c, Cardinality(warms[c] \ S))
    BY <1>2 DEF FrontierCleared
  <2>2. IsFiniteSet(warms[c] \ S)
    <3>1. warms[c] \ S \in SUBSET Nodes
      BY <1>0 DEF CallsTyped
    <3> QED
      BY <3>1, FS_Subset, SessionContextAssumption
  <2>3. PICK n \in Nat : Settles(c, n)
    BY <2>1, <2>2, FS_CardinalityType
  <2>4. pc[c] \in Awaiting /\ GoesTo(c, "sent") /\ UNCHANGED <<local, graph>>
        /\ "sent" \in Places
    BY <1>2 DEF FrontierCleared, Places
  <2>5. Goes(c, "sent")
    BY <2>3, <2>4, ReturnsGoes DEF graph
  <2> QED
    BY <1>0, <2>4, <2>5, GoesOnKnown DEF KnownAt
<1>3. CASE MessageSent(c)
  <2>1. /\ pc[c] \in Awaiting /\ Returns(c) /\ Fails(0)
        /\ UNCHANGED <<warms, graph, direct, history>>
    BY <1>3 DEF MessageSent
  <2>2. CASE Ends(c, "answered")
    <3>1. CallsTyped' /\ OthersKept(c) /\ GoesTo(c, "answered") /\ "answered" \in Places
      BY <1>0, <2>1, <2>2, EndsKnown DEF Ended, Places
    <3>2. Goes(c, "answered")
      BY <1>0a, <2>1, <3>1, ReturnsGoes DEF graph
    <3> QED
      BY <3>1, <3>2 DEF KnownAt
  <2>3. CASE ~ Ends(c, "answered")
    <3>1. /\ \E k \in routing.confidence, s \in routing.state, confirms \in BOOLEAN :
               put' = [put EXCEPT ![c] = Strengthened(k, s, confirms)]
          /\ GoesTo(c, "strength") /\ "strength" \in Places
          /\ UNCHANGED <<repo, quest, todo, node, hit>>
      BY <1>3, <2>3 DEF MessageSent, Places
    <3>2. PICK k \in routing.confidence, s \in routing.state, confirms \in BOOLEAN :
            put' = [put EXCEPT ![c] = Strengthened(k, s, confirms)]
      BY <3>1
    <3>3. k \in 0 .. 115 /\ s \in States
      BY <1>0 DEF GraphTyped
    <3>4. Strengthened(k, s, confirms) \in RoutedOK
      BY <3>3, StrengthenedOK
    <3>5. Goes(c, "strength")
      BY <1>0a, <2>1, <3>1, ReturnsGoes DEF graph
    <3>6. CallsTyped' /\ OthersKept(c)
      BY <1>0, <2>1, <3>1, <3>2, <3>4 DEF CallsTyped, OthersKept, GoesTo
    <3> QED
      BY <3>1, <3>5, <3>6 DEF KnownAt
  <2> QED
    BY <2>2, <2>3
<1>4. CASE StrengthStored(c) \/ LoadsCounted(c)
  <2>1. PICK how \in Ended :
          /\ pc[c] \in Awaiting /\ Settles(c, 0) /\ Ends(c, how)
          /\ UNCHANGED <<warms, graph, direct, history>>
    BY <1>4 DEF StrengthStored, LoadsCounted, Ended
  <2>2. CallsTyped' /\ OthersKept(c) /\ GoesTo(c, how) /\ how \in Places
    BY <1>0, <2>1, EndsKnown DEF Ended, Places
  <2>3. Goes(c, how)
    BY <1>0a, <2>1, <2>2, ReturnsGoes DEF graph
  <2> QED
    BY <2>2, <2>3 DEF KnownAt
<1>5. CASE TurnFails(c)
  <2>1. /\ warms' = [warms EXCEPT ![c] = {}] /\ Ends(c, "failed")
        /\ UNCHANGED <<graph, direct, history>>
    BY <1>5 DEF TurnFails
  <2>2. CallsTyped' /\ OthersKept(c) /\ GoesTo(c, "failed") /\ "failed" \in Places
    BY <1>0, <2>1, EndsKnown DEF Ended, Places
  <2>3. CASE pc[c] = "find"
    <3>1. Fails(1) /\ UNCHANGED <<landed, late>>
      BY <1>5, <2>3 DEF TurnFails
    <3>2. Goes(c, "failed")
      BY <1>0a, <2>1, <2>2, <2>3, <3>1, ArrivesGoes DEF graph
    <3> QED
      BY <2>2, <3>2 DEF KnownAt
  <2>4. CASE pc[c] # "find"
    <3>1. Raised(c) /\ pc[c] \in Awaiting
      BY <1>5, <2>4 DEF TurnFails
    <3>2. Goes(c, "failed")
      BY <1>0a, <2>1, <2>2, <3>1, ReturnsGoes DEF graph
    <3> QED
      BY <2>2, <3>2 DEF KnownAt
  <2> QED
    BY <2>3, <2>4
<1> QED
  BY <1>1, <1>2, <1>3, <1>4, <1>5

-----------------------------------------------------------------------------
\* Tracking the results S: those that are new have one occurrence and a first
\* hit, and the one whose hits are to be written has had its load counted.
LEMMA TracksLoads ==
  ASSUME TypeOK, LoadsOK, NEW c \in Calls, NEW S \in SUBSET Nodes, Tracks(c, S)
  PROVE  /\ LoadsTyped' /\ LoadsOK'
         /\ Loaded \subseteq Loaded'
         /\ \A m \in Nodes : loads[m] <= loads'[m]
         /\ CallsTyped' /\ OthersKept(c)
         /\ UNCHANGED <<routing, quests, works, counted, indexed, frontier, added, repo, quest, put, warms>>
         /\ \E next \in {"count", "hit"} :
              /\ GoesTo(c, next)
              /\ next = "hit" => node'[c] \in Loaded' /\ hit'[c] <= loads'[node'[c]]
<1>0. CallsTyped /\ LoadsTyped
  BY TypeIs
<1>1. PICK fresh \in SUBSET (S \ Found(S)), n \in Found(S) \cup {None} :
        /\ n = None => Found(S) = {} /\ fresh = S
        /\ copies' = [m \in Nodes |-> copies[m] + IF m \in fresh THEN 1 ELSE 0]
        /\ hits' = [m \in Nodes |-> hits[m] \cup (IF m \in fresh THEN {1} ELSE {})]
        /\ loads' = [m \in Nodes |-> loads[m] + IF m \in fresh \cup {n} THEN 1 ELSE 0]
        /\ early' = early \cup IF SessionExists THEN {} ELSE fresh
        /\ todo' = [todo EXCEPT ![c] = S \ (fresh \cup {n})]
        /\ node' = [node EXCEPT ![c] = n]
        /\ IF n = None
             THEN hit' = [hit EXCEPT ![c] = IF SessionExists THEN Cardinality(Loaded \cup S) ELSE 0]
             ELSE \E h \in hits[n] : hit' = [hit EXCEPT ![c] = h + 1]
        /\ GoesTo(c, IF n = None THEN "count" ELSE "hit")
        /\ UNCHANGED <<repo, quest, put, warms, routing, quests, works, counted, indexed, frontier, added>>
  BY DEF Tracks
<1>2. /\ fresh \in SUBSET Nodes /\ n \in Nodes \cup {None}
      /\ n # None => n \in Nodes /\ n \in Loaded /\ n \notin fresh
      /\ SessionExists => fresh \cap Loaded = {}
  BY <1>1 DEF Found, Loaded
<1>3. /\ \A m \in Nodes : copies'[m] \in Nat /\ loads'[m] \in Nat
      /\ \A m \in Nodes : copies[m] <= copies'[m] /\ loads[m] <= loads'[m]
      /\ copies' \in [Nodes -> Nat] /\ loads' \in [Nodes -> Nat]
  BY <1>0, <1>1 DEF LoadsTyped
<1>4. \A m \in Nodes : m \in Loaded' <=> m \in Loaded \/ m \in fresh
  BY <1>0, <1>1, <1>2 DEF Loaded, LoadsTyped
<1>5. /\ hits' \in [Nodes -> SUBSET Nat]
      /\ \A m \in Nodes : hits'[m] = {} <=> hits[m] = {} /\ m \notin fresh
  BY <1>0, <1>1 DEF LoadsTyped
<1>6. LoadsTyped'
  BY <1>0, <1>1, <1>2, <1>3, <1>4, <1>5 DEF LoadsTyped
<1>7. LoadsOK'
  <2>1. ASSUME NEW m \in Nodes, NEW h \in hits'[m]
        PROVE  h <= loads'[m]
    <3>1. CASE h \in hits[m]
      <4>1. h <= loads[m] /\ h \in Nat
        BY <1>0, <3>1 DEF LoadsOK, LoadsTyped
      <4> QED
        BY <1>0, <1>3, <4>1 DEF LoadsTyped
    <3>2. CASE h \notin hits[m]
      <4>1. m \in fresh /\ h = 1
        BY <1>1, <2>1, <3>2
      <4>2. loads'[m] = loads[m] + 1 /\ loads[m] \in Nat
        BY <1>0, <1>1, <4>1 DEF LoadsTyped
      <4> QED
        BY <4>1, <4>2
    <3> QED
      BY <3>1, <3>2
  <2>2. ASSUME NEW m \in Nodes, m \notin early'
        PROVE  copies'[m] <= 1
    <3>1. copies[m] <= 1 /\ copies[m] \in Nat
      BY <1>0, <1>1, <2>2 DEF LoadsOK, LoadsTyped
    <3>2. m \in fresh => copies[m] = 0
      BY <1>1, <1>2, <2>2, <3>1 DEF Loaded
    <3> QED
      BY <1>1, <3>1, <3>2
  <2> QED
    BY <2>1, <2>2 DEF LoadsOK
<1>8. hit' \in [Calls -> Nat] /\ \A d \in Calls \ {c} : hit'[d] = hit[d]
  <2>1. CASE n = None
    <3>1. Loaded \cup S \in SUBSET Nodes
      BY DEF Loaded
    <3>2. Cardinality(Loaded \cup S) \in Nat
      BY <3>1, FS_Subset, FS_CardinalityType, SessionContextAssumption
    <3> QED
      BY <1>0, <1>1, <2>1, <3>2 DEF CallsTyped
  <2>2. CASE n # None
    <3>1. PICK h \in hits[n] : hit' = [hit EXCEPT ![c] = h + 1]
      BY <1>1, <2>2
    <3>2. h \in Nat
      BY <1>0, <1>2, <2>2, <3>1 DEF LoadsTyped
    <3> QED
      BY <1>0, <3>1, <3>2 DEF CallsTyped
  <2> QED
    BY <2>1, <2>2
<1>9. CallsTyped' /\ OthersKept(c)
  <2>1. pc' \in [Calls -> Places]
    BY <1>0, <1>1 DEF CallsTyped, GoesTo, Places, Awaiting, LoadAwaiting
  <2>2. todo' \in [Calls -> SUBSET Nodes] /\ node' \in [Calls -> Nodes \cup {None}]
    BY <1>0, <1>1, <1>2 DEF CallsTyped
  <2>3. UNCHANGED <<repo, quest, put, warms>>
    BY <1>1
  <2>4. CallsTyped'
    BY <1>0, <1>8, <2>1, <2>2, <2>3 DEF CallsTyped
  <2>5. \A d \in Calls \ {c} : todo'[d] = todo[d] /\ node'[d] = node[d]
    BY <1>0, <1>1 DEF CallsTyped
  <2> QED
    BY <1>8, <2>3, <2>4, <2>5 DEF OthersKept
<1>10. ASSUME n # None
       PROVE  node'[c] \in Loaded' /\ hit'[c] <= loads'[node'[c]]
  <2>1. node'[c] = n /\ n \in Nodes /\ n \in Loaded'
    BY <1>0, <1>1, <1>2, <1>4, <1>10 DEF CallsTyped
  <2>2. PICK h \in hits[n] : hit'[c] = h + 1
    BY <1>0, <1>1, <1>10 DEF CallsTyped
  <2>3. h <= loads[n] /\ h \in Nat /\ loads[n] \in Nat /\ loads'[n] = loads[n] + 1
    BY <1>0, <1>1, <2>1, <2>2 DEF LoadsTyped, LoadsOK
  <2> QED
    BY <2>1, <2>2, <2>3
<1>11. Loaded \subseteq Loaded'
  BY <1>4 DEF Loaded
<1>12. PICK next : next = IF n = None THEN "count" ELSE "hit"
  OBVIOUS
<1>13. /\ GoesTo(c, next) /\ next \in {"count", "hit"}
       /\ next = "hit" => node'[c] \in Loaded' /\ hit'[c] <= loads'[node'[c]]
  BY <1>1, <1>10, <1>12
<1>14. UNCHANGED <<routing, quests, works, counted, indexed, frontier, added, repo, quest, put, warms>>
  BY <1>1
<1> QED
  BY <1>3, <1>6, <1>7, <1>9, <1>11, <1>13, <1>14

LEMMA RetrievalGoes ==
  ASSUME TypeOK, LoadsOK, NEW c \in Calls, BeginRetrieval(c) \/ HitCounted(c)
  PROVE  KnownAt(c)
<1>0. CallsTyped /\ 0 \in Nat
  BY TypeIs
<1>1. PICK S \in SUBSET Nodes : Tracks(c, S)
  BY <1>0 DEF BeginRetrieval, HitCounted, CallsTyped
<1>2. PICK next \in {"count", "hit"} : GoesTo(c, next)
  BY <1>1, TracksLoads
<1>3. CallsTyped' /\ OthersKept(c) /\ UNCHANGED <<routing, quests, works, counted>>
  BY <1>1, TracksLoads
<1>4. CASE BeginRetrieval(c)
  <2>1. Arrives(c) /\ Meets(0)
    BY <1>4 DEF BeginRetrieval
  <2>2. Goes(c, next)
    BY <1>0, <1>2, <1>3, <2>1, ArrivesGoes
  <2> QED
    BY <1>3, <2>2 DEF KnownAt, Places, Awaiting, LoadAwaiting
<1>5. CASE HitCounted(c)
  <2>1. pc[c] \in Awaiting /\ Settles(c, 0)
    BY <1>5 DEF HitCounted, Awaiting, LoadAwaiting
  <2>2. Goes(c, next)
    BY <1>0, <1>2, <1>3, <2>1, ReturnsGoes
  <2> QED
    BY <1>3, <2>2 DEF KnownAt, Places, Awaiting, LoadAwaiting
<1> QED
  BY <1>4, <1>5

LEMMA StepIsKnown ==
  ASSUME TypeOK, LoadsOK, NEW c \in Calls, Turn(c) \/ Retrieval(c)
  PROVE  KnownAt(c)
BY RoutingGoes, RepoGoes, MessageGoes, RetrievalGoes DEF Turn, Retrieval

\* The queue of such a step.
LEMMA StepQueue ==
  ASSUME TypeOK, NEW c \in Calls, NEW next \in Places, Goes(c, next)
  PROVE  /\ QueueTyped'
         /\ \A d \in Calls : landed' /\ Holds(d)' => d # c /\ landed /\ Holds(d)
<1>0. QueueTyped /\ CallsTyped
  BY TypeIs
<1>1. PICK asks \in BOOLEAN : asks <=> next \in Awaiting
  <2>1. CASE next \in Awaiting
    BY <2>1
  <2>2. CASE next \notin Awaiting
    BY <2>2
  <2> QED
    BY <2>1, <2>2
<1>2. /\ Moves(c, asks) /\ landed' \in BOOLEAN /\ (landed' => landed /\ ~ Holds(c))
      /\ pc' = [pc EXCEPT ![c] = next]
  BY <1>1 DEF Goes, Moves
<1>3. /\ QueueOK'
      /\ \A d \in Calls : landed' /\ Holds(d)' => d # c /\ Holds(d)
  BY <1>0, <1>2, MovesKeepsQueue DEF QueueTyped
<1>4. inside' = {d \in Calls : pc'[d] \in Awaiting}
  BY <1>0, <1>1, <1>2 DEF QueueTyped, CallsTyped, Moves
<1> QED
  BY <1>2, <1>3, <1>4 DEF QueueTyped

\* What a call gives up may be given up.
LEMMA GivenUpOK ==
  ASSUME TypeOK, NEW c \in Calls, CallOK(c), NEW w, w = GivenUp(c)
  PROVE  /\ w.statement.put \in RoutedOK /\ w.statement.hit \in Nat
         /\ w.statement.kind = pc[c]
         /\ w.statement.kind \in {"link", "join"} => w.on.items \subseteq Exists
         /\ w.statement.kind = "hit" =>
              w.statement.node \in Loaded /\ w.statement.hit <= loads[w.statement.node]
<1>1. CallsTyped
  BY TypeIs
<1>2. /\ w.statement.kind = pc[c] /\ w.statement.quest = quest[c] /\ w.statement.put = put[c]
      /\ w.statement.node = node[c] /\ w.statement.hit = hit[c]
      /\ w.statement = Statement(c) /\ w.on = Selects(Statement(c))
  BY DEF GivenUp, Statement
<1>3. ASSUME pc[c] \in {"link", "join"}
      PROVE  w.on.items \subseteq Exists
  <2>1. PICK s : s = Statement(c)
    OBVIOUS
  <2>2. w.on = Selects(s) /\ s.kind \in {"link", "join"}
    BY <1>2, <1>3, <2>1
  <2> QED
    BY <2>2 DEF Selects
<1> QED
  BY <1>1, <1>2, <1>3 DEF CallsTyped, CallOK

\* What a step does to what turns have written, apart from the Session and the
\* quests, which only a commit changes.
LEMMA StepEffects ==
  ASSUME TypeOK, LoadsOK, \A d \in Calls : CallOK(d), NEW c \in Calls,
         Turn(c) \/ Retrieval(c)
  PROVE  /\ indexed' \subseteq Exists /\ frontier' \subseteq Nodes /\ added' \subseteq frontier'
         /\ LoadsTyped' /\ LoadsOK'
         /\ Loaded \subseteq Loaded'
         /\ \A m \in Nodes : loads[m] <= loads'[m]
         /\ pc'[c] = "quest" => quest'[c] = c
         /\ pc'[c] \in {"find", "create", "touch"} => quest'[c] = RepoQuest
         /\ pc'[c] = "hit" => node'[c] \in Loaded' /\ hit'[c] <= loads'[node'[c]]
<1>0. CallsTyped /\ GraphTyped /\ LoadsTyped
  BY TypeIs
<1> DEFINE Same == UNCHANGED <<copies, hits, loads, early>>
           Indexes == /\ indexed' \subseteq Exists /\ frontier' \subseteq Nodes
                      /\ added' \subseteq frontier'
           Says == /\ pc'[c] = "quest" => quest'[c] = c
                   /\ pc'[c] \in {"find", "create", "touch"} => quest'[c] = RepoQuest
                   /\ pc'[c] # "hit"
<1>1. ASSUME Same
      PROVE  /\ LoadsTyped' /\ LoadsOK' /\ Loaded \subseteq Loaded'
             /\ \A m \in Nodes : loads[m] <= loads'[m]
  <2>1. Loaded' = Loaded
    BY <1>1 DEF Loaded
  <2> QED
    BY <1>0, <1>1, <2>1 DEF LoadsTyped, LoadsOK
<1>2. CASE BeginTurn(c)
  <2>1. Same /\ Indexes
    BY <1>0, <1>2 DEF BeginTurn, graph, direct, history, GraphTyped
  <2>2. Says
    BY <1>0, <1>2 DEF BeginTurn, RouteNew, RouteBest, Bound, GoesTo, CallsTyped
  <2> HIDE DEF Same
  <2> QED
    BY <1>1, <2>1, <2>2
<1>3. CASE QuestCreated(c)
  <2>1. Same /\ UNCHANGED <<frontier, added>> /\ indexed' = indexed \cup {c} /\ Returns(c)
        /\ pc'[c] = "bind" /\ pc[c] = "quest"
    BY <1>0, <1>3 DEF QuestCreated, graph, history, GoesTo, CallsTyped
  <2>2. c \in Exists
    BY <2>1 DEF CallOK, Returns
  <2> HIDE DEF Same
  <2> QED
    BY <1>0, <1>1, <2>1, <2>2 DEF GraphTyped
<1>4. CASE QuestWritten(c)
  <2>1. /\ Same /\ UNCHANGED <<frontier, added>> /\ Returns(c)
        /\ pc[c] \in {"create", "touch"} /\ pc'[c] = "lock"
        /\ indexed' = IF pc[c] = "create" THEN indexed \cup {RepoQuest} ELSE indexed
    BY <1>0, <1>4 DEF QuestWritten, graph, history, GoesTo, CallsTyped
  <2>2. pc[c] = "create" => RepoQuest \in Exists
    BY <2>1 DEF CallOK, Returns
  <2> HIDE DEF Same
  <2> QED
    BY <1>0, <1>1, <2>1, <2>2 DEF GraphTyped
<1>5. CASE BeginRepoTurn(c) \/ QuestLookedUp(c)
  <2>1. Same /\ Indexes
    BY <1>0, <1>5 DEF BeginRepoTurn, QuestLookedUp, graph, direct, history, GraphTyped
  <2>2. Says
    BY <1>0, <1>5 DEF BeginRepoTurn, QuestLookedUp, GoesTo, CallsTyped, CallOK, local
  <2> HIDE DEF Same
  <2> QED
    BY <1>1, <2>1, <2>2
<1>6. CASE SessionBound(c) \/ SessionLinked(c) \/ RouteFails(c) \/ SessionLocked(c)
           \/ SessionJoined(c)
  <2>1. Same /\ Indexes
    BY <1>0, <1>6 DEF SessionBound, SessionLinked, RouteFails, SessionLocked,
       SessionJoined, graph, direct, history, GraphTyped
  <2>2. Says
    BY <1>0, <1>6 DEF SessionBound, SessionLinked, RouteFails, SessionLocked,
       SessionJoined, GoesTo, CallsTyped
  <2> HIDE DEF Same
  <2> QED
    BY <1>1, <2>1, <2>2
<1>7. CASE MessageStored(c) \/ MessageSent(c)
  <2>1. Same /\ Indexes
    BY <1>0, <1>7 DEF MessageStored, MessageSent, graph, direct, history, GraphTyped
  <2>2. Says
    BY <1>0, <1>7 DEF MessageStored, MessageSent, Ends, GoesTo, CallsTyped
  <2> HIDE DEF Same
  <2> QED
    BY <1>1, <2>1, <2>2
<1>8. CASE FrontierCleared(c)
  <2>1. Same /\ indexed' = indexed
    BY <1>8 DEF FrontierCleared, graph, history
  <2>2. frontier' \subseteq Nodes /\ added' \subseteq frontier'
    BY <1>0, <1>8 DEF FrontierCleared, GraphTyped, CallsTyped
  <2>3. Says
    BY <1>0, <1>8 DEF FrontierCleared, GoesTo, CallsTyped
  <2> HIDE DEF Same
  <2> QED
    BY <1>0, <1>1, <2>1, <2>2, <2>3 DEF GraphTyped
<1>9. CASE StrengthStored(c) \/ TurnFails(c) \/ LoadsCounted(c)
  <2>1. Same /\ Indexes
    BY <1>0, <1>9
      DEF StrengthStored, TurnFails, LoadsCounted, graph, direct, history, GraphTyped
  <2>2. Says
    BY <1>0, <1>9 DEF StrengthStored, TurnFails, LoadsCounted, Ends, GoesTo, CallsTyped
  <2> HIDE DEF Same
  <2> QED
    BY <1>1, <2>1, <2>2
<1>10. CASE BeginRetrieval(c) \/ HitCounted(c)
  <2>1. PICK S \in SUBSET Nodes : Tracks(c, S)
    BY <1>0, <1>10 DEF BeginRetrieval, HitCounted, CallsTyped
  <2>2. PICK next \in {"count", "hit"} :
          /\ GoesTo(c, next)
          /\ next = "hit" => node'[c] \in Loaded' /\ hit'[c] <= loads'[node'[c]]
    BY <2>1, TracksLoads
  <2>3. pc'[c] = next
    BY <1>0, <2>2 DEF GoesTo, CallsTyped
  <2>4. /\ LoadsTyped' /\ LoadsOK' /\ Loaded \subseteq Loaded'
        /\ \A m \in Nodes : loads[m] <= loads'[m]
        /\ UNCHANGED <<indexed, frontier, added>>
    BY <2>1, TracksLoads
  <2> QED
    BY <1>0, <2>2, <2>3, <2>4 DEF GraphTyped
<1> QED
  BY <1>2, <1>3, <1>4, <1>5, <1>6, <1>7, <1>8, <1>9, <1>10 DEF Turn, Retrieval

LEMMA StepKeepsContext ==
  ASSUME ContextInv, NEW c \in Calls, Turn(c) \/ Retrieval(c)
  PROVE  ContextInv'
<1>0. /\ TypeOK /\ LoadsOK /\ LateOK /\ \A d \in Calls : CallOK(d)
      /\ CallsTyped /\ GraphTyped /\ QueueTyped
  BY TypeIs DEF ContextInv
<1>1. KnownAt(c)
  BY <1>0, StepIsKnown
<1>2. PICK next \in Places : Goes(c, next)
  BY <1>1 DEF KnownAt
<1>3. /\ QueueTyped'
      /\ \A d \in Calls : landed' /\ Holds(d)' => d # c /\ landed /\ Holds(d)
  BY <1>0, <1>2, StepQueue
<1>4. /\ indexed' \subseteq Exists /\ frontier' \subseteq Nodes /\ added' \subseteq frontier'
      /\ LoadsTyped' /\ LoadsOK' /\ Loaded \subseteq Loaded'
      /\ \A m \in Nodes : loads[m] <= loads'[m]
  BY <1>0, StepEffects
<1>5. /\ pc'[c] = "quest" => quest'[c] = c
      /\ pc'[c] \in {"find", "create", "touch"} => quest'[c] = RepoQuest
      /\ pc'[c] = "hit" => node'[c] \in Loaded' /\ hit'[c] <= loads'[node'[c]]
  BY <1>0, StepEffects
<1>6. Exists' = Exists /\ UNCHANGED <<routing, quests, works, counted>>
  BY <1>2 DEF Goes, Exists
<1>7. GraphTyped'
  BY <1>0, <1>4, <1>6 DEF GraphTyped
<1>8. TypeOK'
  BY <1>1, <1>2, <1>3, <1>4, <1>7, TypeIsNext DEF KnownAt, Goes
\* Hits that are at most the loads then are at most the loads now.
<1>9. \A n \in Loaded, h \in Nat : h <= loads[n] => n \in Loaded' /\ h <= loads'[n]
  <2>1. LoadsTyped
    BY <1>0, TypeIs
  <2> QED
    BY <1>4, <2>1 DEF LoadsTyped, Loaded
<1>10. ASSUME NEW d \in Calls
       PROVE  CallOK(d)'
  <2>1. CASE d = c
    BY <1>3, <1>5, <2>1 DEF CallOK
  <2>2. CASE d # c
    <3>1. /\ pc'[d] = pc[d] /\ quest'[d] = quest[d] /\ node'[d] = node[d] /\ hit'[d] = hit[d]
      BY <1>0, <1>1, <1>2, <2>2 DEF KnownAt, OthersKept, Goes, CallsTyped
    <3>2. hit[d] \in Nat
      BY <1>0 DEF CallsTyped
    <3>3. CallOK(d)
      BY <1>0
    <3> QED
      BY <1>3, <1>6, <1>9, <3>1, <3>2, <3>3 DEF CallOK
  <2> QED
    BY <2>1, <2>2
<1>11. ASSUME NEW w \in late'
       PROVE  /\ w.statement.put \in RoutedOK /\ w.statement.hit \in Nat
              /\ w.statement.kind \in {"link", "join"} => w.on.items \subseteq Exists
              /\ w.statement.kind = "hit" =>
                   w.statement.node \in Loaded' /\ w.statement.hit <= loads'[w.statement.node]
  <2>1. w \in late \/ w = GivenUp(c)
    BY <1>2 DEF Goes
  <2>2. /\ w.statement.put \in RoutedOK /\ w.statement.hit \in Nat
        /\ w.statement.kind \in {"link", "join"} => w.on.items \subseteq Exists
        /\ w.statement.kind = "hit" =>
             w.statement.node \in Loaded /\ w.statement.hit <= loads[w.statement.node]
    <3>1. CASE w \in late
      BY <1>0, <3>1 DEF LateOK
    <3>2. CASE w = GivenUp(c)
      BY <1>0, <3>2, GivenUpOK
    <3> QED
      BY <2>1, <3>1, <3>2
  <2> QED
    BY <1>9, <2>2
<1>12. LateOK'
  BY <1>6, <1>11 DEF LateOK
<1> QED
  BY <1>4, <1>8, <1>10, <1>12 DEF ContextInv

-----------------------------------------------------------------------------
\* A commit changes the Session and the quests, never what is loaded.
LEMMA WritesKeepsGraph ==
  ASSUME GraphTyped, LoadsTyped, LoadsOK, NEW w, NEW on, Writes(w, on),
         UNCHANGED history,
         w.put \in RoutedOK, w.hit \in Nat,
         w.kind \in {"link", "join"} => on.items \subseteq Exists,
         w.kind = "hit" => w.node \in Loaded /\ w.hit <= loads[w.node]
  PROVE  /\ GraphTyped' /\ LoadsTyped' /\ LoadsOK'
         /\ Exists \subseteq Exists'
         /\ Loaded' = Loaded /\ UNCHANGED <<loads, early, copies, indexed>>
         /\ w.kind \in {"quest", "create"} /\ w.quest \in QuestIds => w.quest \in Exists'
<1>1. UNCHANGED <<loads, early, copies, indexed>>
  BY DEF Writes, history
<1>2. Loaded' = Loaded
  BY <1>1 DEF Loaded
<1>3. /\ quests' \in [QuestIds -> Nat] /\ Exists \subseteq Exists'
      /\ w.kind \in {"quest", "create"} /\ w.quest \in QuestIds => w.quest \in Exists'
  <2>1. CASE w.kind \in {"quest", "create"}
    <3>1. PICK q : q = w.quest
      OBVIOUS
    <3>2. quests' = [quests EXCEPT ![q] = @ + 1]
      BY <2>1, <3>1 DEF Writes
    <3>3. quests' \in [QuestIds -> Nat] /\ \A r \in QuestIds : quests[r] <= quests'[r]
      <4>1. quests \in [QuestIds -> Nat]
        BY DEF GraphTyped
      <4>2. CASE q \in QuestIds
        <5>1. quests[q] \in Nat /\ quests[q] + 1 \in Nat /\ quests[q] <= quests[q] + 1
          BY <4>1, <4>2
        <5>2. \A r \in QuestIds : quests'[r] = IF r = q THEN quests[q] + 1 ELSE quests[r]
          BY <3>2, <4>1
        <5>3. quests' \in [QuestIds -> Nat]
          BY <3>2, <4>1, <5>1
        <5> QED
          BY <4>1, <5>1, <5>2, <5>3
      <4>3. CASE q \notin QuestIds
        <5>1. quests' \in [QuestIds -> Nat] /\ \A r \in QuestIds : quests'[r] = quests[r]
          BY <3>2, <4>1, <4>3
        <5>2. \A r \in QuestIds : quests[r] \in Nat
          BY <4>1
        <5> QED
          BY <5>1, <5>2
      <4> QED
        BY <4>2, <4>3
    <3>4. q \in QuestIds => quests'[q] > 0
      BY <3>2 DEF GraphTyped
    <3>5. \A r \in QuestIds : quests[r] > 0 => quests'[r] > 0
      BY <3>3 DEF GraphTyped
    <3> QED
      BY <3>1, <3>3, <3>4, <3>5 DEF Exists
  <2>2. CASE w.kind \notin {"quest", "create"}
    BY <2>2 DEF Writes, GraphTyped, Exists
  <2> QED
    BY <2>1, <2>2
<1>4. routing' \in [confidence : SUBSET (0 .. 115), state : SUBSET States]
  <2>1. CASE routing' = routing
    BY <2>1 DEF GraphTyped
  <2>2. CASE routing' # routing
    <3>1. routing' = Routed((routing.confidence \ on.rows.confidence) \cup {w.put.confidence},
                            (routing.state \ on.rows.state) \cup {w.put.state})
      BY <2>2 DEF Writes
    <3>2. w.put.confidence \in 0 .. 115 /\ w.put.state \in States
      BY DEF RoutedOK
    <3>3. routing.confidence \subseteq 0 .. 115 /\ routing.state \subseteq States
      BY DEF GraphTyped
    <3> QED
      BY <3>1, <3>2, <3>3 DEF Routed
  <2> QED
    BY <2>1, <2>2
<1>5. /\ indexed' \subseteq Exists' /\ works' \subseteq Exists' /\ frontier' \subseteq Nodes
      /\ added' \subseteq frontier' /\ counted' \subseteq Nat
  BY <1>1, <1>3 DEF Writes, GraphTyped
<1>6. /\ hits' \in [Nodes -> SUBSET Nat]
      /\ \A n \in Nodes : hits'[n] = {} <=> hits[n] = {}
      /\ \A n \in Nodes : \A h \in hits'[n] : h <= loads[n]
  <2>1. CASE hits' = hits
    BY <2>1 DEF LoadsTyped, LoadsOK
  <2>2. CASE hits' # hits
    <3>1. hits' = [hits EXCEPT ![w.node] = (@ \ on.items) \cup {w.hit}] /\ w.kind = "hit"
      BY <2>2 DEF Writes
    <3>2. w.node \in Nodes /\ w.node \in Loaded /\ w.hit <= loads[w.node]
      BY <3>1 DEF Loaded
    <3> QED
      BY <3>1, <3>2 DEF LoadsTyped, LoadsOK
  <2> QED
    BY <2>1, <2>2
<1>7. GraphTyped' /\ LoadsTyped' /\ LoadsOK'
  BY <1>1, <1>2, <1>3, <1>4, <1>5, <1>6 DEF GraphTyped, LoadsTyped, LoadsOK
<1> QED
  BY <1>1, <1>2, <1>3, <1>7

LEMMA LandKeepsContext ==
  ASSUME ContextInv, NEW c \in Calls, Land(c)
  PROVE  ContextInv'
<1>0. /\ TypeOK /\ LoadsOK /\ LateOK /\ \A d \in Calls : CallOK(d)
      /\ CallsTyped /\ GraphTyped /\ QueueTyped /\ LoadsTyped /\ RunTyped
  BY TypeIs DEF ContextInv
<1>1. PICK w : w = GivenUp(c)
  OBVIOUS
<1>2. PICK s : s = w.statement
  OBVIOUS
<1>3. PICK on : on = w.on
  OBVIOUS
<1>4. /\ s.put \in RoutedOK /\ s.hit \in Nat /\ s.kind = pc[c]
      /\ s.kind \in {"link", "join"} => on.items \subseteq Exists
      /\ s.kind = "hit" => s.node \in Loaded /\ s.hit <= loads[s.node]
  BY <1>0, <1>1, <1>2, <1>3, GivenUpOK
<1>5. s = Statement(c) /\ on = Selects(Statement(c)) /\ s.quest = quest[c]
  BY <1>1, <1>2, <1>3 DEF GivenUp, Statement
<1>6. Writes(s, on) /\ UNCHANGED <<pc, local, history, disturbed, failures, late, inside>>
  BY <1>5 DEF Land, Lands
<1>7. /\ GraphTyped' /\ LoadsTyped' /\ LoadsOK'
      /\ Exists \subseteq Exists'
      /\ Loaded' = Loaded /\ UNCHANGED <<loads, early, copies, indexed>>
      /\ s.kind \in {"quest", "create"} /\ s.quest \in QuestIds => s.quest \in Exists'
  BY <1>0, <1>4, <1>6, WritesKeepsGraph
<1>8. QueueOK' /\ \A d \in Calls : Holds(d)' => d = c
  BY <1>0, LandsKeepsQueue DEF Land, QueueTyped
<1>9. TypeOK'
  BY <1>0, <1>6, <1>7, <1>8, TypeIsNext DEF CallsTyped, RunTyped, QueueTyped, local
<1>10. ASSUME NEW d \in Calls
       PROVE  CallOK(d)'
  <2>1. UNCHANGED <<pc, quest, node, hit>>
    BY <1>6 DEF local
  <2>2. pc[c] \in {"quest", "create"} => quest[c] \in Exists'
    BY <1>0, <1>4, <1>5, <1>7 DEF CallOK, QuestIds
  <2> QED
    BY <1>0, <1>7, <1>8, <2>1, <2>2 DEF CallOK
<1>11. LateOK'
  BY <1>0, <1>6, <1>7 DEF LateOK
<1> QED
  BY <1>7, <1>9, <1>10, <1>11 DEF ContextInv

LEMMA LandLateKeepsContext ==
  ASSUME ContextInv, NEW w \in late, LandLate(w)
  PROVE  ContextInv'
<1>0. /\ TypeOK /\ LoadsOK /\ LateOK /\ \A d \in Calls : CallOK(d)
      /\ CallsTyped /\ GraphTyped /\ QueueTyped /\ LoadsTyped /\ RunTyped
  BY TypeIs DEF ContextInv
<1>1. PICK s : s = w.statement
  OBVIOUS
<1>2. PICK on \in {w.on, Selects(s)} : Writes(s, on)
  BY <1>1 DEF LandLate
<1>3. /\ UNCHANGED <<pc, local, history, disturbed, failures, inside, ahead, landed>>
      /\ late' \subseteq late
  BY DEF LandLate, LandsLate
<1>4. /\ s.put \in RoutedOK /\ s.hit \in Nat
      /\ s.kind \in {"link", "join"} => on.items \subseteq Exists
      /\ s.kind = "hit" => s.node \in Loaded /\ s.hit <= loads[s.node]
  BY <1>0, <1>1, <1>2 DEF LateOK, Selects
<1>5. /\ GraphTyped' /\ LoadsTyped' /\ LoadsOK'
      /\ Exists \subseteq Exists'
      /\ Loaded' = Loaded /\ UNCHANGED <<loads, early, copies, indexed>>
  BY <1>0, <1>2, <1>3, <1>4, WritesKeepsGraph
<1>6. QueueOK' /\ \A d \in Calls : Holds(d)' <=> Holds(d)
  BY <1>0, <1>3 DEF QueueTyped, QueueOK, Holds
<1>7. TypeOK'
  BY <1>0, <1>3, <1>5, <1>6, TypeIsNext DEF CallsTyped, RunTyped, QueueTyped, local
<1>8. ASSUME NEW d \in Calls
      PROVE  CallOK(d)'
  BY <1>0, <1>3, <1>5, <1>6 DEF CallOK, local
<1>9. LateOK'
  BY <1>0, <1>3, <1>5 DEF LateOK
<1> QED
  BY <1>5, <1>7, <1>8, <1>9 DEF ContextInv

LEMMA CrashKeepsContext ==
  ASSUME ContextInv, Crash
  PROVE  ContextInv'
<1>0. /\ TypeOK /\ LoadsOK
      /\ CallsTyped /\ GraphTyped /\ QueueTyped /\ LoadsTyped /\ RunTyped
  BY TypeIs DEF ContextInv
<1>1. /\ QueueOK' /\ inside' = {} /\ landed' = FALSE /\ late' = {}
  BY LostQueueIsOK DEF Crash, QueueLost
<1>2. \A c \in Calls : pc'[c] \in Places /\ pc'[c] \notin Awaiting \cup {"find"}
  BY <1>0 DEF Crash, InFlight, CallsTyped, Places, Ended, Awaiting, RepoAwaiting,
     RouteAwaiting, LoadAwaiting
<1>3. CallsTyped'
  <2>1. pc' \in [Calls -> Places]
    BY <1>2 DEF Crash
  <2>2. repo' \subseteq Calls /\ quest' \in [Calls -> QuestIds \cup {None}]
    BY DEF Crash
  <2>3. put' \in [Calls -> RoutedOK]
    BY DEF Crash, Nothing, Routed, RoutedOK, States
  <2>4. /\ warms' \in [Calls -> SUBSET Nodes] /\ todo' \in [Calls -> SUBSET Nodes]
        /\ node' \in [Calls -> Nodes \cup {None}] /\ hit' \in [Calls -> Nat]
    BY <1>0 DEF Crash, CallsTyped
  <2> QED
    BY <2>1, <2>2, <2>3, <2>4 DEF CallsTyped
<1>4. RunTyped'
  BY <1>0, FailsCounts DEF Crash
<1>5. GraphTyped' /\ LoadsTyped' /\ LoadsOK'
  BY <1>0 DEF Crash, graph, direct, history, GraphTyped, LoadsTyped, LoadsOK, Exists, Loaded
<1>6. QueueTyped'
  BY <1>1, <1>2 DEF QueueTyped
<1>7. \A c \in Calls : CallOK(c)'
  BY <1>1, <1>2 DEF CallOK, Awaiting, RepoAwaiting, RouteAwaiting, LoadAwaiting
<1> QED
  BY <1>1, <1>3, <1>4, <1>5, <1>6, <1>7, TypeIsNext DEF ContextInv, LateOK

LEMMA LoopKeepsContext ==
  ASSUME ContextInv, NEW n \in Nodes, LoopActivates(n)
  PROVE  ContextInv'
<1>0. /\ CallsTyped /\ GraphTyped /\ QueueTyped /\ LoadsTyped /\ RunTyped
      /\ LoadsOK /\ LateOK /\ \A d \in Calls : CallOK(d)
  BY TypeIs DEF ContextInv
<1> USE DEF LoopActivates, local, queue, graph, history
<1>1. CallsTyped' /\ RunTyped'
  BY <1>0 DEF CallsTyped, RunTyped
<1>2. GraphTyped'
  BY <1>0 DEF GraphTyped, Exists
<1>3. LoadsTyped' /\ LoadsOK'
  BY <1>0 DEF LoadsTyped, LoadsOK, Loaded
<1>4. QueueTyped'
  BY <1>0 DEF QueueTyped, QueueOK, Holds
<1>5. LateOK' /\ \A d \in Calls : CallOK(d)'
  BY <1>0 DEF LateOK, CallOK, Exists, Loaded, Holds
<1> QED
  BY <1>1, <1>2, <1>3, <1>4, <1>5, TypeIsNext DEF ContextInv

LEMMA StutterKeepsContext ==
  ASSUME ContextInv, UNCHANGED vars
  PROVE  ContextInv'
<1>0. /\ CallsTyped /\ GraphTyped /\ QueueTyped /\ LoadsTyped /\ RunTyped
      /\ LoadsOK /\ LateOK /\ \A d \in Calls : CallOK(d)
  BY TypeIs DEF ContextInv
<1> USE DEF vars, local, queue, graph, direct, history
<1>1. CallsTyped' /\ GraphTyped' /\ RunTyped'
  BY <1>0 DEF CallsTyped, GraphTyped, RunTyped, Exists
<1>2. LoadsTyped' /\ LoadsOK'
  BY <1>0 DEF LoadsTyped, LoadsOK, Loaded
<1>3. QueueTyped'
  BY <1>0 DEF QueueTyped, QueueOK, Holds
<1>4. LateOK' /\ \A d \in Calls : CallOK(d)'
  BY <1>0 DEF LateOK, CallOK, Exists, Loaded, Holds
<1> QED
  BY <1>1, <1>2, <1>3, <1>4, TypeIsNext DEF ContextInv

LEMMA InitContextInv == Init => ContextInv
<1> SUFFICES ASSUME Init PROVE ContextInv
  OBVIOUS
<1>1. QueueOK /\ inside = {} /\ late = {} /\ landed = FALSE
  BY InitQueueIsOK DEF Init, QueueInit
<1>2. CallsTyped
  BY DEF Init, CallsTyped, Places, Nothing, Routed, RoutedOK, States
<1>3. GraphTyped
  BY DEF Init, GraphTyped, NoRows, Routed, Exists
<1>4. LoadsTyped /\ LoadsOK
  <2>1. /\ copies = [n \in Nodes |-> 0] /\ loads = [n \in Nodes |-> 0]
        /\ hits = [n \in Nodes |-> {}] /\ early = {}
    BY DEF Init
  <2>2. Loaded = {}
    BY <2>1 DEF Loaded
  <2>3. /\ copies \in [Nodes -> Nat] /\ loads \in [Nodes -> Nat]
        /\ hits \in [Nodes -> SUBSET Nat] /\ early \subseteq Nodes
    BY <2>1
  <2>4. \A n \in Nodes : hits[n] = {} /\ copies[n] <= 1
    BY <2>1
  <2>5. LoadsTyped
    BY <2>2, <2>3, <2>4 DEF LoadsTyped
  <2>6. LoadsOK
    BY <2>4 DEF LoadsOK
  <2> QED
    BY <2>5, <2>6
<1>5. RunTyped
  <2>1. 0 \in 0 .. MaxFailures
    BY SessionContextAssumption
  <2> QED
    BY <2>1 DEF Init, RunTyped
<1>6. QueueTyped
  BY <1>1 DEF Init, QueueTyped, Awaiting, RepoAwaiting, RouteAwaiting, LoadAwaiting
<1>7. \A c \in Calls : CallOK(c)
  BY DEF Init, CallOK
<1> QED
  BY <1>1, <1>2, <1>3, <1>4, <1>5, <1>6, <1>7, TypeIs DEF ContextInv, LateOK

LEMMA NextKeepsContext ==
  ASSUME ContextInv, [Next]_vars
  PROVE  ContextInv'
BY StepKeepsContext, LandKeepsContext, LandLateKeepsContext, CrashKeepsContext,
   LoopKeepsContext, StutterKeepsContext DEF Next

\* What is true of every call and of every statement given up.
THEOREM ContextSafety == Spec => []ContextInv
BY InitContextInv, NextKeepsContext, PTL DEF Spec

\* Every variable keeps its type: in particular only quests that exist are
\* indexed or worked on, and what is loaded has hits (SessionContext's calls).
THEOREM ContextTyped == Spec => []TypeOK
<1>1. ContextInv => TypeOK
  BY DEF ContextInv
<1> QED
  BY <1>1, ContextSafety, PTL

-----------------------------------------------------------------------------
(***************************************************************************)
(* As long as nothing has failed, although calls overlap: what a turn      *)
(* writes is chosen from what it read of a Session that is there, and only *)
(* the turn that holds the lock has cleared the frontier and not written   *)
(* its own.                                                                *)
(***************************************************************************)

Sent == {"sent", "strength", "answered"}

\* Only a turn that stored its message has warmed anything.
WarmsOK == \A c \in Calls : pc[c] \in {"clear"} \cup Sent \/ warms[c] = {}

UnfailedCall(c) ==
  /\ put[c].state = "consolidated" => put[c].confidence >= 85
  /\ pc[c] \in {"link", "join", "message", "clear", "sent", "strength"} => SessionExists
  /\ pc[c] \in {"bind", "lock"} /\ landed /\ Holds(c) => SessionExists
  /\ pc[c] = "clear" => warms[c] # {}
  /\ pc[c] = "clear" /\ landed /\ Holds(c) => frontier = added

Unfailed ==
  /\ late = {}
  /\ works # {} => SessionExists
  /\ ConsolidatedIsConfident
  /\ FrontierOfOneTurn
  /\ \A c \in Calls : UnfailedCall(c)

UnfailedInv == WarmsOK /\ (failures = 0 => Unfailed)

\* What the step of a call is to WarmsOK and to the frontier.
LEMMA WarmsStep ==
  ASSUME TypeOK, WarmsOK, NEW c \in Calls, Turn(c) \/ Retrieval(c)
  PROVE  pc'[c] \in {"clear"} \cup Sent \/ warms'[c] = {}
<1>0. CallsTyped
  BY TypeIs
<1>1. CASE \/ BeginTurn(c) \/ QuestCreated(c) \/ SessionBound(c) \/ SessionLinked(c)
           \/ RouteFails(c) \/ BeginRepoTurn(c) \/ QuestLookedUp(c) \/ QuestWritten(c)
           \/ SessionLocked(c) \/ SessionJoined(c)
           \/ LoadsCounted(c)
  <2>1. warms' = warms /\ pc[c] \notin {"clear"} \cup Sent
    BY <1>1 DEF BeginTurn, QuestCreated, SessionBound, SessionLinked, RouteFails,
       BeginRepoTurn, QuestLookedUp, QuestWritten, SessionLocked, SessionJoined, LoadsCounted,
       Arrives, local, Sent, RouteAwaiting
  <2> QED
    BY <2>1 DEF WarmsOK
<1>2. CASE BeginRetrieval(c) \/ HitCounted(c)
  <2>1. PICK S \in SUBSET Nodes : Tracks(c, S)
    BY <1>0, <1>2 DEF BeginRetrieval, HitCounted, CallsTyped
  <2>2. warms' = warms
    BY <2>1 DEF Tracks
  <2>3. pc[c] \notin {"clear"} \cup Sent
    BY <1>2 DEF BeginRetrieval, HitCounted, Arrives, Sent
  <2> QED
    BY <2>2, <2>3 DEF WarmsOK
<1>3. CASE MessageStored(c) \/ FrontierCleared(c)
  BY <1>0, <1>3 DEF MessageStored, FrontierCleared, GoesTo, CallsTyped, Sent
<1>4. CASE MessageSent(c) \/ StrengthStored(c)
  BY <1>0, <1>4 DEF MessageSent, StrengthStored, Ends, GoesTo, CallsTyped, Sent
<1>5. CASE TurnFails(c)
  BY <1>0, <1>5 DEF TurnFails, CallsTyped
<1> QED
  BY <1>1, <1>2, <1>3, <1>4, <1>5 DEF Turn, Retrieval

\* What a step that nothing fails in is: either it leaves the frontier and what
\* the turn warmed alone, or the turn stores its message, or it writes all that
\* it warmed.
UnfailedStep(c) ==
  /\ put'[c].state = "consolidated" => put'[c].confidence >= 85
  /\ pc'[c] \in {"link", "join", "message", "clear", "sent", "strength"} => SessionExists
  /\ pc'[c] = "clear" => warms'[c] # {}
  /\ \/ /\ UNCHANGED <<frontier, added>>
        /\ pc[c] \in Sent => pc'[c] \in Sent /\ warms'[c] = warms[c]
        /\ pc[c] \notin Sent /\ pc'[c] \in Sent => warms'[c] = {}
        /\ pc[c] # "clear"
     \/ /\ pc[c] = "clear" /\ pc'[c] = "sent" /\ UNCHANGED <<warms, added>>
        /\ frontier' = frontier \cup warms[c]

LEMMA RoutedUnfailed ==
  ASSUME TypeOK, WarmsOK, failures = 0, Unfailed, NEW c \in Calls, NEW next, Goes(c, next),
         failures' = 0,
         \/ BeginTurn(c) \/ QuestCreated(c) \/ SessionBound(c) \/ SessionLinked(c)
         \/ RouteFails(c)
         \/ BeginRepoTurn(c) \/ QuestLookedUp(c) \/ QuestWritten(c)
         \/ SessionLocked(c) \/ SessionJoined(c)
  PROVE  UnfailedStep(c)
<1>0. CallsTyped /\ UnfailedCall(c) /\ (works # {} => SessionExists)
  BY TypeIs DEF Unfailed
<1>1. pc[c] \in Awaiting => Holds(c) /\ landed
  BY DEF Goes
<1> DEFINE Loose == UNCHANGED <<frontier, added>> /\ pc[c] \notin {"clear"} \cup Sent
           Safe == put'[c].state = "consolidated" => put'[c].confidence >= 85
           There == pc'[c] \in {"link", "join", "message", "clear", "sent", "strength"}
                      => SessionExists
<1>2. SUFFICES Loose /\ Safe /\ There /\ pc'[c] \notin {"clear"} \cup Sent
  BY DEF UnfailedStep
<1> USE DEF Sent
<1>3. CASE BeginTurn(c)
  <2>1. Loose
    BY <1>3 DEF BeginTurn, direct, Arrives
  <2>2. CASE RouteNew(c)
    BY <1>0, <2>1, <2>2 DEF RouteNew, GoesTo, CallsTyped, Routed
  <2>3. CASE RouteBest(c)
    BY <1>0, <2>1, <2>3 DEF RouteBest, GoesTo, CallsTyped, Routed
  <2>4. CASE works # {} /\ Bound(c)
    BY <1>0, <2>1, <2>4 DEF Bound, GoesTo, CallsTyped, UnfailedCall
  <2> QED
    BY <1>3, <2>2, <2>3, <2>4 DEF BeginTurn
<1>4. CASE QuestCreated(c) \/ SessionBound(c) \/ SessionLinked(c) \/ SessionLocked(c)
           \/ SessionJoined(c)
  <2>1. Loose /\ put' = put
    BY <1>4 DEF QuestCreated, SessionBound, SessionLinked, SessionLocked, SessionJoined,
       direct, local
  <2>2. pc[c] \in Awaiting
    BY <1>4 DEF QuestCreated, SessionBound, SessionLinked, SessionLocked, SessionJoined,
       Awaiting, RepoAwaiting, RouteAwaiting
  <2>3. There
    BY <1>0, <1>1, <1>4, <2>2 DEF QuestCreated, SessionBound, SessionLinked, SessionLocked,
       SessionJoined, UnfailedCall, GoesTo, CallsTyped
  <2>4. pc'[c] \notin {"clear"} \cup Sent
    BY <1>0, <1>4 DEF QuestCreated, SessionBound, SessionLinked, SessionLocked,
       SessionJoined, GoesTo, CallsTyped
  <2> QED
    BY <1>0, <2>1, <2>3, <2>4 DEF UnfailedCall
<1>5. CASE BeginRepoTurn(c) \/ QuestLookedUp(c)
  <2>1. Loose /\ put' = put
    BY <1>5 DEF BeginRepoTurn, QuestLookedUp, direct, local, Arrives
  <2>2. There /\ pc'[c] \notin {"clear"} \cup Sent
    BY <1>0, <1>5 DEF BeginRepoTurn, QuestLookedUp, GoesTo, CallsTyped
  <2> QED
    BY <1>0, <2>1, <2>2 DEF UnfailedCall
<1>6. CASE QuestWritten(c)
  <2>1. Loose
    BY <1>6 DEF QuestWritten
  <2>2. There /\ pc'[c] \notin {"clear"} \cup Sent /\ put'[c].state # "consolidated"
    BY <1>0, <1>6 DEF QuestWritten, GoesTo, CallsTyped, Routed
  <2> QED
    BY <2>1, <2>2
<1>7. CASE RouteFails(c)
  <2>1. Fails(1) /\ RunTyped
    BY <1>7, TypeIs DEF RouteFails, Raised
  <2>2. failures' = 0 + 1
    BY <2>1 DEF Fails
  <2> QED
    BY <2>2
<1> QED
  BY <1>3, <1>4, <1>5, <1>6, <1>7

LEMMA MessageUnfailed ==
  ASSUME TypeOK, WarmsOK, failures = 0, Unfailed, NEW c \in Calls, NEW next, Goes(c, next),
         failures' = 0,
         \/ MessageStored(c) \/ FrontierCleared(c) \/ MessageSent(c)
         \/ StrengthStored(c) \/ TurnFails(c) \/ LoadsCounted(c)
         \/ BeginRetrieval(c) \/ HitCounted(c)
  PROVE  UnfailedStep(c)
<1>0. CallsTyped /\ GraphTyped /\ UnfailedCall(c)
  BY TypeIs DEF Unfailed
<1> DEFINE Safe == put'[c].state = "consolidated" => put'[c].confidence >= 85
<1> USE DEF Sent
<1>1. CASE MessageStored(c)
  <2>1. PICK S \in SUBSET Nodes :
          /\ warms' = [warms EXCEPT ![c] = S]
          /\ GoesTo(c, IF S = {} THEN "sent" ELSE "clear")
    BY <1>1 DEF MessageStored
  <2>2. UNCHANGED <<frontier, added, put>> /\ pc[c] = "message" /\ warms'[c] = S
    BY <1>0, <1>1, <2>1 DEF MessageStored, direct, CallsTyped
  <2>3. pc'[c] = IF S = {} THEN "sent" ELSE "clear"
    BY <1>0, <2>1 DEF GoesTo, CallsTyped
  <2> QED
    BY <1>0, <2>2, <2>3 DEF UnfailedStep, UnfailedCall
<1>2. CASE FrontierCleared(c)
  <2>1. PICK S \in SUBSET warms[c] :
          Settles(c, Cardinality(warms[c] \ S)) /\ frontier' = frontier \cup S
    BY <1>2 DEF FrontierCleared
  <2>2. IsFiniteSet(warms[c] \ S)
    <3>1. warms[c] \ S \in SUBSET Nodes
      BY <1>0 DEF CallsTyped
    <3> QED
      BY <3>1, FS_Subset, SessionContextAssumption
  <2>3. PICK n \in Nat : n = Cardinality(warms[c] \ S)
    BY <2>2, FS_CardinalityType
  <2>4. Fails(n) \/ Fails(n + 1)
    BY <2>1, <2>3 DEF Settles
  <2>5. n = 0
    BY <2>4 DEF Fails
  <2>6. S = warms[c]
    BY <2>1, <2>2, <2>3, <2>5, FS_EmptySet
  <2>7. pc[c] = "clear" /\ UNCHANGED <<warms, put, added>>
    BY <1>2 DEF FrontierCleared, local
  <2>8. pc'[c] = "sent"
    BY <1>0, <1>2 DEF FrontierCleared, GoesTo, CallsTyped
  <2> QED
    BY <1>0, <2>1, <2>6, <2>7, <2>8 DEF UnfailedStep, UnfailedCall
<1>3. CASE MessageSent(c)
  <2>1. UNCHANGED <<frontier, added, warms>> /\ pc[c] = "sent"
    BY <1>3 DEF MessageSent, direct
  <2>2. CASE Ends(c, "answered")
    <3>1. pc'[c] = "answered" /\ put'[c] = Nothing
      BY <1>0, <2>2 DEF Ends, GoesTo, CallsTyped
    <3> QED
      BY <2>1, <3>1 DEF UnfailedStep, Nothing, Routed
  <2>3. CASE ~ Ends(c, "answered")
    <3>1. PICK k \in routing.confidence, s \in routing.state, confirms \in BOOLEAN :
            put' = [put EXCEPT ![c] = Strengthened(k, s, confirms)]
      BY <1>3, <2>3 DEF MessageSent
    <3>2. k \in 0 .. 115 /\ s \in States /\ (s = "consolidated" => k >= 85)
      BY <1>0, <3>1 DEF GraphTyped, Unfailed, ConsolidatedIsConfident
    <3>3. Safe
      <4>1. put'[c] = Strengthened(k, s, confirms)
        BY <1>0, <3>1 DEF CallsTyped
      <4> QED
        BY <3>2, <4>1, StrengthenedOK
    <3>4. SessionExists /\ pc'[c] = "strength"
      BY <1>0, <1>3, <2>3 DEF MessageSent, GoesTo, CallsTyped
    <3> QED
      BY <2>1, <3>3, <3>4 DEF UnfailedStep
  <2> QED
    BY <2>2, <2>3
<1>4. CASE StrengthStored(c) \/ LoadsCounted(c)
  <2>1. UNCHANGED <<frontier, added, warms>>
    BY <1>4 DEF StrengthStored, LoadsCounted, direct
  <2>2. /\ put'[c] = Nothing
        /\ \/ pc[c] = "strength" /\ pc'[c] = "answered"
           \/ pc[c] = "count" /\ pc'[c] = "loaded"
    BY <1>0, <1>4 DEF StrengthStored, LoadsCounted, Ends, GoesTo, CallsTyped
  <2> QED
    BY <2>1, <2>2 DEF UnfailedStep, Nothing, Routed, WarmsOK
<1>5. CASE TurnFails(c)
  <2>1. Fails(1)
    BY <1>5 DEF TurnFails, Raised
  <2>2. failures' = 0 + 1
    BY <2>1 DEF Fails
  <2> QED
    BY <2>2
<1>6. CASE BeginRetrieval(c) \/ HitCounted(c)
  <2>1. PICK S \in SUBSET Nodes : Tracks(c, S)
    BY <1>0, <1>6 DEF BeginRetrieval, HitCounted, CallsTyped
  <2>2. UNCHANGED <<frontier, added, put, warms>>
    BY <2>1 DEF Tracks
  <2>3. pc'[c] \in {"hit", "count"}
    <3>1. \E n \in Nodes \cup {None} : GoesTo(c, IF n = None THEN "count" ELSE "hit")
      BY <2>1 DEF Tracks, Found, Loaded
    <3> QED
      BY <1>0, <3>1 DEF GoesTo, CallsTyped
  <2>4. pc[c] \in {"idle", "hit"}
    BY <1>6 DEF BeginRetrieval, HitCounted, Arrives
  <2> QED
    BY <1>0, <2>2, <2>3, <2>4 DEF UnfailedStep, UnfailedCall
<1> QED
  BY <1>1, <1>2, <1>3, <1>4, <1>5, <1>6

LEMMA StepKeepsUnfailed ==
  ASSUME ContextInv, UnfailedInv, NEW c \in Calls, Turn(c) \/ Retrieval(c)
  PROVE  UnfailedInv'
<1>0. TypeOK /\ LoadsOK /\ WarmsOK /\ CallsTyped /\ RunTyped
  BY TypeIs DEF ContextInv, UnfailedInv
<1>1. PICK next \in Places : Goes(c, next)
  BY <1>0, StepIsKnown DEF KnownAt
<1>2. OthersKept(c) /\ CallsTyped'
  BY <1>0, StepIsKnown DEF KnownAt
<1>3. \A d \in Calls \ {c} :
        pc'[d] = pc[d] /\ put'[d] = put[d] /\ warms'[d] = warms[d]
  BY <1>0, <1>1, <1>2 DEF OthersKept, Goes, CallsTyped
<1>4. WarmsOK'
  <2>1. pc'[c] \in {"clear"} \cup Sent \/ warms'[c] = {}
    BY <1>0, WarmsStep
  <2> QED
    BY <1>0, <1>3, <2>1 DEF WarmsOK
<1>5. ASSUME failures' = 0
      PROVE  Unfailed'
  <2>1. failures = 0
    BY <1>0, <1>1, <1>5 DEF Goes, RunTyped
  <2>2. Unfailed
    BY <2>1 DEF UnfailedInv
  <2>3. UnfailedStep(c)
    BY <1>0, <1>1, <1>5, <2>1, <2>2, RoutedUnfailed, MessageUnfailed DEF Turn, Retrieval
  <2>4. \A d \in Calls : landed' /\ Holds(d)' => d # c /\ landed /\ Holds(d)
    BY <1>0, <1>1, StepQueue
  <2>5. late' = {} /\ UNCHANGED <<routing, works>>
    BY <1>1, <1>5, <2>1, <2>2 DEF Goes, Unfailed
  <2>6. ConsolidatedIsConfident' /\ (works' # {} => SessionExists')
    BY <2>1, <2>2, <2>5 DEF Unfailed, ConsolidatedIsConfident, SessionExists
  <2>7. pc[c] \in Awaiting => Holds(c) /\ landed
    BY <1>1, <1>5, <2>1 DEF Goes
  <2>8. QueueOK
    BY <1>0, TypeIs DEF QueueTyped
  <2>9. ASSUME NEW d \in Calls
        PROVE  UnfailedCall(d)'
    <3>1. CASE d = c
      BY <2>3, <2>4, <2>5, <3>1 DEF UnfailedStep, UnfailedCall, SessionExists
    <3>2. CASE d # c
      <4>1. UnfailedCall(d)
        BY <2>2 DEF Unfailed
      <4>2. landed' /\ Holds(d)' => UNCHANGED <<frontier, added>>
        BY <2>3, <2>4, <2>7, <2>8, <3>2, OneHolder
           DEF UnfailedStep, Awaiting
      <4> QED
        BY <1>3, <2>4, <2>5, <3>2, <4>1, <4>2 DEF UnfailedCall, SessionExists
    <3> QED
      BY <3>1, <3>2
  <2>10. FrontierOfOneTurn'
    <3>1. FrontierOfOneTurn
      BY <2>2 DEF Unfailed
    <3>2. CASE /\ pc[c] = "clear" /\ pc'[c] = "sent" /\ UNCHANGED <<warms, added>>
               /\ frontier' = frontier \cup warms[c]
      <4>1. frontier = added /\ warms[c] # {}
        BY <2>2, <2>7, <3>2 DEF Unfailed, UnfailedCall, Awaiting
      <4> QED
        BY <3>2, <4>1 DEF FrontierOfOneTurn
    <3>3. CASE /\ UNCHANGED <<frontier, added>>
               /\ pc[c] \in Sent => pc'[c] \in Sent /\ warms'[c] = warms[c]
               /\ pc[c] \notin Sent /\ pc'[c] \in Sent => warms'[c] = {}
               /\ pc[c] # "clear"
      <4>1. CASE \E d \in Calls :
                   pc[d] \in Sent /\ warms[d] # {} /\ frontier = warms[d] \cup added
        <5>1. PICK d \in Calls :
                pc[d] \in Sent /\ warms[d] # {} /\ frontier = warms[d] \cup added
          BY <4>1
        <5>2. pc'[d] \in Sent /\ warms'[d] = warms[d]
          BY <1>3, <3>3, <5>1
        <5> QED
          BY <3>3, <5>1, <5>2 DEF FrontierOfOneTurn, Sent
      <4>2. CASE \E d \in Calls : frontier = added /\ pc[d] = "clear" /\ Holds(d) /\ landed
        <5>1. PICK d \in Calls : frontier = added /\ pc[d] = "clear" /\ Holds(d) /\ landed
          BY <4>2
        <5>2. d # c
          BY <3>3, <5>1
        <5>3. pc[c] \notin Awaiting
          BY <2>7, <2>8, <5>1, <5>2, OneHolder
        <5>4. Holds(d)' /\ landed' /\ pc'[d] = "clear"
          BY <1>1, <1>3, <5>1, <5>2, <5>3 DEF Goes, Moves, Holds
        <5> QED
          BY <3>3, <5>1, <5>4 DEF FrontierOfOneTurn
      <4>3. CASE frontier = added /\ \A d \in Calls : pc[d] \in Sent => warms[d] = {}
        <5>1. \A d \in Calls : pc'[d] \in Sent => warms'[d] = {}
          BY <1>3, <3>3, <4>3
        <5> QED
          BY <3>3, <4>3, <5>1 DEF FrontierOfOneTurn, Sent
      <4> QED
        BY <2>1, <3>1, <4>1, <4>2, <4>3 DEF FrontierOfOneTurn, Sent
    <3> QED
      BY <2>3, <3>2, <3>3 DEF UnfailedStep
  <2> QED
    BY <2>5, <2>6, <2>9, <2>10 DEF Unfailed
<1> QED
  BY <1>4, <1>5 DEF UnfailedInv

\* With the Session there, a commit replaces all that its statement selects.
LEMMA LandKeepsUnfailed ==
  ASSUME ContextInv, UnfailedInv, NEW c \in Calls, Land(c)
  PROVE  UnfailedInv'
<1>0. TypeOK /\ CallsTyped /\ QueueTyped /\ WarmsOK
  BY TypeIs DEF ContextInv, UnfailedInv
<1>1. PICK w : w = Statement(c)
  OBVIOUS
<1>2. PICK on : on = Selects(w)
  OBVIOUS
<1>3. /\ Writes(w, on) /\ Lands(c)
      /\ UNCHANGED <<pc, put, warms, failures>>
  BY <1>1, <1>2 DEF Land, local
<1>4. w.kind = pc[c] /\ w.put = put[c]
  BY <1>1 DEF Statement
<1>5. QueueOK' /\ \A d \in Calls : Holds(d)' => d = c
  BY <1>0, <1>3, LandsKeepsQueue DEF QueueTyped
<1>6. ~ landed /\ late' = late
  BY <1>3 DEF Lands
<1>7. WarmsOK'
  BY <1>0, <1>3 DEF WarmsOK
<1>8. ASSUME failures' = 0
      PROVE  Unfailed'
  <2>1. Unfailed /\ failures = 0
    BY <1>3, <1>8 DEF UnfailedInv
  <2>2. \/ routing' = routing
        \/ /\ pc[c] \in {"bind", "lock", "strength"}
           /\ routing' = Routed({put[c].confidence}, {put[c].state})
    <3>1. CASE routing' = routing
      BY <3>1
    <3>2. CASE routing' # routing
      <4>1. /\ w.kind \in {"bind", "lock", "strength"}
            /\ routing' = Routed((routing.confidence \ on.rows.confidence) \cup {w.put.confidence},
                                 (routing.state \ on.rows.state) \cup {w.put.state})
        BY <1>3, <3>2 DEF Writes
      <4>2. on.rows = routing
        BY <1>2, <4>1 DEF Selects
      <4>3. routing.confidence \ on.rows.confidence = {} /\ routing.state \ on.rows.state = {}
        BY <4>2
      <4> QED
        BY <1>4, <4>1, <4>3
    <3> QED
      BY <3>1, <3>2
  <2>3. SessionExists => SessionExists'
    BY <2>2 DEF SessionExists, NoRows, Routed
  <2>4. pc[c] \in {"bind", "lock"} => SessionExists'
    BY <1>3, <1>4 DEF Writes, SessionExists, NoRows, Routed
  <2>5. works' # {} => SessionExists'
    <3>1. CASE works' = works
      BY <2>1, <2>3, <3>1 DEF Unfailed
    <3>2. CASE works' # works
      <4>1. w.kind \in {"link", "join"} /\ on.items # {}
        BY <1>3, <3>2 DEF Writes
      <4>2. SessionExists
        BY <1>2, <4>1 DEF Selects
      <4> QED
        BY <2>3, <4>2
    <3> QED
      BY <3>1, <3>2
  <2>6. ConsolidatedIsConfident'
    <3>1. UnfailedCall(c) /\ ConsolidatedIsConfident
      BY <2>1 DEF Unfailed
    <3>2. CASE routing' = routing
      BY <2>1, <3>1, <3>2 DEF ConsolidatedIsConfident
    <3>3. CASE routing' = Routed({put[c].confidence}, {put[c].state})
      <4>1. routing'.confidence = {put[c].confidence} /\ routing'.state = {put[c].state}
        BY <3>3 DEF Routed
      <4>2. put[c].state = "consolidated" => put[c].confidence >= 85
        BY <3>1 DEF UnfailedCall
      <4> QED
        BY <4>1, <4>2 DEF ConsolidatedIsConfident
    <3> QED
      BY <2>2, <3>2, <3>3
  <2>7. UNCHANGED <<frontier, added>> \/ (pc[c] = "clear" /\ frontier' = {} /\ added' = {})
    <3>1. CASE pc[c] # "clear"
      BY <1>3, <1>4, <3>1 DEF Writes
    <3>2. CASE pc[c] = "clear"
      <4>1. SessionExists
        BY <2>1, <3>2 DEF Unfailed, UnfailedCall
      <4>2. on.items = frontier /\ added \subseteq frontier
        BY <1>0, <1>2, <1>4, <3>2, <4>1 DEF Selects, TypeOK
      <4> QED
        BY <1>3, <1>4, <3>2, <4>2 DEF Writes
    <3> QED
      BY <3>1, <3>2
  <2>8. Holds(c)' /\ landed'
    BY <1>3 DEF Lands, Holds
  <2>9. FrontierOfOneTurn'
    <3>1. CASE pc[c] = "clear" /\ frontier' = {} /\ added' = {}
      BY <1>3, <2>8, <3>1 DEF FrontierOfOneTurn
    <3>2. CASE UNCHANGED <<frontier, added>>
      BY <1>3, <1>6, <2>1, <3>2 DEF FrontierOfOneTurn, Unfailed
    <3> QED
      BY <2>7, <3>1, <3>2
  <2>10. ASSUME NEW d \in Calls
         PROVE  UnfailedCall(d)'
    <3>1. UnfailedCall(d)
      BY <2>1 DEF Unfailed
    <3>2. pc[d] = "clear" /\ Holds(d)' => frontier' = added'
      <4>1. CASE d # c
        BY <1>5, <4>1
      <4>2. CASE d = c /\ pc[c] = "clear"
        <5>1. SessionExists
          BY <2>1, <4>2 DEF Unfailed, UnfailedCall
        <5>2. on.items = frontier /\ added \subseteq frontier
          BY <1>0, <1>2, <1>4, <4>2, <5>1 DEF Selects, TypeOK
        <5> QED
          BY <1>3, <1>4, <4>2, <5>2 DEF Writes
      <4> QED
        BY <4>1, <4>2
    <3> QED
      BY <1>3, <1>5, <2>3, <2>4, <3>1, <3>2 DEF UnfailedCall
  <2> QED
    BY <1>6, <2>1, <2>5, <2>6, <2>9, <2>10 DEF Unfailed
<1> QED
  BY <1>7, <1>8 DEF UnfailedInv

LEMMA OthersKeepUnfailed ==
  ASSUME ContextInv, UnfailedInv,
         \/ \E w \in late : LandLate(w)
         \/ \E n \in Nodes : LoopActivates(n)
         \/ Crash \/ UNCHANGED vars
  PROVE  UnfailedInv'
<1>0. CallsTyped /\ RunTyped /\ WarmsOK
  BY TypeIs DEF ContextInv, UnfailedInv
<1>1. CASE \E w \in late : LandLate(w)
  <2>1. late # {} /\ UNCHANGED <<pc, warms, failures>>
    BY <1>1 DEF LandLate, local
  <2> QED
    BY <1>0, <2>1 DEF UnfailedInv, Unfailed, WarmsOK
<1>2. CASE Crash
  <2>1. WarmsOK'
    BY <1>0, <1>2 DEF Crash, WarmsOK, CallsTyped
  <2>2. failures' # 0
    BY <1>0, <1>2 DEF Crash, Fails, RunTyped
  <2> QED
    BY <2>1, <2>2 DEF UnfailedInv
<1>3. CASE UNCHANGED vars
  BY <1>3 DEF vars, local, queue, graph, direct, history, UnfailedInv, WarmsOK, Unfailed,
     UnfailedCall, ConsolidatedIsConfident, FrontierOfOneTurn, SessionExists, Holds
\* What the Loop adds to the frontier it has added.
<1>4. CASE \E n \in Nodes : LoopActivates(n)
  <2>1. PICK n \in Nodes : frontier' = frontier \cup {n} /\ added' = added \cup {n}
    BY <1>4 DEF LoopActivates
  <2>2. UNCHANGED <<pc, put, warms, queue, routing, works, failures>>
    BY <1>4 DEF LoopActivates, local, graph
  <2>3. /\ frontier = added => frontier' = added'
        /\ \A c \in Calls : frontier = warms[c] \cup added => frontier' = warms[c] \cup added'
    BY <2>1
  <2>4. FrontierOfOneTurn => FrontierOfOneTurn'
    BY <2>2, <2>3 DEF FrontierOfOneTurn, queue, Holds
  <2>5. \A c \in Calls : UnfailedCall(c) => UnfailedCall(c)'
    BY <2>2, <2>3 DEF UnfailedCall, SessionExists, queue, Holds
  <2>6. (Unfailed => Unfailed') /\ WarmsOK'
    BY <1>0, <2>2, <2>4, <2>5 DEF Unfailed, WarmsOK, ConsolidatedIsConfident, SessionExists, queue
  <2> QED
    BY <2>2, <2>6 DEF UnfailedInv
<1> QED
  BY <1>1, <1>2, <1>3, <1>4

LEMMA InitUnfailed == Init => UnfailedInv
<1> SUFFICES ASSUME Init PROVE UnfailedInv
  OBVIOUS
<1>1. /\ \A c \in Calls : warms[c] = {} /\ pc[c] = "idle" /\ put[c] = Nothing
      /\ late = {} /\ works = {} /\ routing = NoRows /\ frontier = {} /\ added = {} /\ landed = FALSE
  BY DEF Init, QueueInit
<1>2. \A c \in Calls : UnfailedCall(c)
  BY <1>1 DEF UnfailedCall, Nothing, Routed
<1>3. ConsolidatedIsConfident /\ FrontierOfOneTurn
  BY <1>1 DEF ConsolidatedIsConfident, FrontierOfOneTurn, NoRows, Routed
<1> QED
  BY <1>1, <1>2, <1>3 DEF UnfailedInv, Unfailed, WarmsOK

LEMMA NextKeepsUnfailed ==
  ASSUME ContextInv, UnfailedInv, [Next]_vars
  PROVE  UnfailedInv'
BY StepKeepsUnfailed, LandKeepsUnfailed, OthersKeepUnfailed DEF Next

LEMMA UnfailedSafety == Spec => []UnfailedInv
BY ContextSafety, InitUnfailed, NextKeepsUnfailed, PTL DEF Spec

\* A session is consolidated only with the confidence for it, however the
\* turns that read the two fields and write them overlap
\* (update_routing_strength, _bind_session).
THEOREM ConsolidatedWithConfidence == Spec => []ConsolidatedIsConfident
<1>1. UnfailedInv => ConsolidatedIsConfident
  BY DEF UnfailedInv, Unfailed, ConsolidatedIsConfident
<1> QED
  BY <1>1, UnfailedSafety, PTL

\* The warm frontier is what one turn warmed and what the Loop has added to it,
\* or is between two turns', however turns and the Loop overlap
\* (compute_warm_frontier, activate_warm_node).
THEOREM FrontierIsOneTurns == Spec => []FrontierOfOneTurn
<1>1. UnfailedInv => FrontierOfOneTurn
  BY DEF UnfailedInv, Unfailed, FrontierOfOneTurn
<1> QED
  BY <1>1, UnfailedSafety, PTL

-----------------------------------------------------------------------------
(***************************************************************************)
(* As long as calls come one at a time and nothing fails: at most one is   *)
(* under way, it has the lock whenever it is at the write gate, and how    *)
(* far its first writes have come says how the quests, the Session and the *)
(* edges between them differ.                                              *)
(***************************************************************************)

\* Between two calls, the Session works on all the quests there are.
Settled == Exists = works /\ (SessionExists => works # {})

Binding == {"quest", "bind", "link"}
Joining == {"create", "lock", "join"}

SequentialCall(c) ==
  /\ pc[c] \in Awaiting => Holds(c)
  /\ pc[c] = "quest" =>
       works = {} /\ routing = NoRows /\ Exists = IF landed THEN {c} ELSE {}
  /\ pc[c] = "bind" => works = {} /\ Exists = {c} /\ quest[c] = c
  /\ pc[c] = "link" =>
       Exists = {c} /\ quest[c] = c /\ works = IF landed THEN {c} ELSE {}
  /\ pc[c] = "create" =>
       RepoQuest \notin works /\ Exists = works \cup IF landed THEN {RepoQuest} ELSE {}
  /\ pc[c] = "touch" => RepoQuest \in works
  /\ pc[c] \in {"lock", "join"} => Exists = works \cup {RepoQuest} /\ quest[c] = RepoQuest
  /\ pc[c] = "join" /\ landed => RepoQuest \in works
  /\ pc[c] = "create" => (SessionExists => works # {})
  /\ pc[c] \notin Binding \cup Joining => Settled
  /\ pc[c] \in {"bind", "lock", "strength"} =>
       \A s \in routing.state : Rank(s) <= Rank(put[c].state)

Sequential ==
  /\ failures = 0
  /\ \A c, d \in InFlight : c = d
  /\ \A c \in InFlight : SequentialCall(c)
  /\ InFlight = {} => Settled
  /\ \A q, r \in works \ {RepoQuest} : q = r
  /\ \A q \in QuestIds : quests[q] <= 1
  /\ \A s, t \in routing.state : s = t

SequentialInv == ~ disturbed => Sequential

\* A call that has moved has nothing committed, and the lock if it asked for it.
LEMMA AloneAtTheGate ==
  ASSUME TypeOK, NEW c \in Calls, NEW next \in Places, Goes(c, next),
         \A d \in InFlight' : d = c
  PROVE  /\ ~ landed'
         /\ pc'[c] \in Awaiting => Holds(c)'
<1>1. /\ QueueTyped'
      /\ \A d \in Calls : landed' /\ Holds(d)' => d # c /\ landed /\ Holds(d)
  BY StepQueue
<1>2. inside' \subseteq {c}
  BY <1>1 DEF QueueTyped, InFlight
<1>3. ~ landed'
  <2>1. SUFFICES ASSUME landed' PROVE FALSE
    BY <1>1 DEF QueueTyped, QueueOK
  <2>2. PICK d \in inside' : Holds(d)'
    BY <1>1, <2>1 DEF QueueTyped, QueueOK
  <2>3. d = c
    BY <1>2, <2>2
  <2> QED
    BY <1>1, <2>1, <2>2, <2>3
<1>4. pc'[c] \in Awaiting => Holds(c)'
  BY <1>1, <1>2 DEF QueueTyped, QueueOK, Holds
<1> QED
  BY <1>3, <1>4

\* What the step of a call that nothing else disturbs leads to.
SequentialStep(c) ==
  /\ pc[c] = "idle" \/ c \in InFlight
  /\ pc'[c] = "quest" => works = {} /\ routing = NoRows /\ Exists = {}
  /\ pc'[c] \in {"bind", "link"} => works = {} /\ Exists = {c} /\ quest'[c] = c
  /\ pc'[c] = "create" => RepoQuest \notin works /\ Exists = works
  /\ pc'[c] = "touch" => RepoQuest \in works
  /\ pc'[c] \in {"lock", "join"} => Exists = works \cup {RepoQuest} /\ quest'[c] = RepoQuest
  /\ pc'[c] \notin Binding \cup {"lock", "join"} => Settled
  /\ pc'[c] \in {"bind", "lock", "strength"} =>
       \A s \in routing.state : Rank(s) <= Rank(put'[c].state)

LEMMA StepKeepsSequential ==
  ASSUME ContextInv, UnfailedInv, SequentialInv, NEW c \in Calls, NEW next \in Places,
         Goes(c, next), OthersKept(c), ~ disturbed', SequentialStep(c)
  PROVE  Sequential'
<1>0. TypeOK /\ CallsTyped /\ RunTyped
  BY TypeIs DEF ContextInv
<1>1. /\ Sequential /\ failures' = failures /\ (pc[c] = "idle" => InFlight = {})
      /\ UNCHANGED <<routing, quests, works>>
  BY DEF Goes, SequentialInv, Quiet
<1>2. \A d \in Calls \ {c} : pc'[d] = pc[d]
  BY <1>0 DEF Goes, CallsTyped
<1>3. \A d \in InFlight' : d = c
  <2>1. ASSUME NEW d \in InFlight', d # c
        PROVE  FALSE
    <3>1. d \in InFlight
      BY <1>2, <2>1 DEF InFlight
    <3> QED
      BY <1>1, <2>1, <3>1 DEF Sequential, SequentialStep
  <2> QED
    BY <2>1
<1>4. ~ landed' /\ (pc'[c] \in Awaiting => Holds(c)')
  BY <1>0, <1>3, AloneAtTheGate
<1>5. Exists' = Exists /\ (Settled => Settled') /\ (SessionExists' <=> SessionExists)
  BY <1>1 DEF Exists, Settled, SessionExists
<1>6. SequentialCall(c)'
  BY <1>1, <1>4, <1>5 DEF SequentialStep, SequentialCall, Binding, Joining, Settled
<1>7. InFlight' = {} => Settled'
  <2>1. SUFFICES ASSUME InFlight' = {} PROVE Settled
    BY <1>5
  <2>2. pc'[c] \notin Awaiting
    BY <2>1 DEF InFlight
  <2> QED
    BY <2>2 DEF SequentialStep, Binding, Awaiting, RepoAwaiting, RouteAwaiting
<1> QED
  BY <1>1, <1>3, <1>6, <1>7 DEF Sequential

LEMMA RoutingIsSequential ==
  ASSUME ContextInv, UnfailedInv, SequentialInv, NEW c \in Calls, NEW next,
         Goes(c, next), ~ disturbed',
         \/ BeginTurn(c) \/ QuestCreated(c) \/ SessionBound(c) \/ SessionLinked(c)
         \/ RouteFails(c)
  PROVE  SequentialStep(c)
<1>0. CallsTyped /\ RunTyped /\ CallOK(c) /\ GraphTyped
  BY TypeIs DEF ContextInv
<1>1. /\ Sequential /\ failures' = failures /\ (pc[c] = "idle" => Quiet)
      /\ pc[c] \in Awaiting => landed
  BY DEF Goes, SequentialInv
<1>2. Unfailed
  BY <1>1 DEF UnfailedInv, Sequential
<1>3. pc[c] \in Awaiting => c \in InFlight /\ SequentialCall(c)
  BY <1>1 DEF Sequential, InFlight
<1> USE DEF Binding, Joining
<1>4. CASE BeginTurn(c)
  <2>1. pc[c] = "idle" /\ Settled
    BY <1>1, <1>4 DEF BeginTurn, Arrives, Sequential, Quiet
  <2>2. ~ (works # {} /\ Meets(1))
    <3>1. SUFFICES ASSUME Meets(1) PROVE FALSE
      OBVIOUS
    <3>2. failures' = failures + 1
      BY <3>1 DEF Meets
    <3> QED
      BY <1>0, <1>1, <3>2 DEF RunTyped
  <2>3. CASE works # {} /\ Bound(c)
    <3>1. pc'[c] = "message"
      BY <1>0, <2>3 DEF Bound, GoesTo, CallsTyped
    <3> QED
      BY <2>1, <3>1 DEF SequentialStep
  <2>4. CASE works = {} /\ RouteNew(c)
    <3>1. pc'[c] = "quest"
      BY <1>0, <2>4 DEF RouteNew, GoesTo, CallsTyped
    <3> QED
      BY <2>1, <2>4, <3>1 DEF SequentialStep, Settled, SessionExists
  <2>5. ~ (works = {} /\ RouteBest(c))
    BY <2>1 DEF Settled, RouteBest, Matched
  <2> QED
    BY <1>4, <2>2, <2>3, <2>4, <2>5 DEF BeginTurn
<1>5. CASE QuestCreated(c)
  <2>1. pc[c] = "quest" /\ pc'[c] = "bind" /\ quest' = quest
    BY <1>0, <1>5 DEF QuestCreated, GoesTo, CallsTyped, local
  <2>2. works = {} /\ routing = NoRows /\ Exists = {c} /\ quest[c] = c
    BY <1>0, <1>1, <1>3, <2>1 DEF SequentialCall, CallOK, Awaiting, RouteAwaiting
  <2> QED
    BY <1>3, <2>1, <2>2 DEF SequentialStep, NoRows, Routed, Awaiting, RouteAwaiting
<1>6. CASE SessionBound(c)
  <2>1. pc[c] = "bind" /\ pc'[c] = "link" /\ quest' = quest
    BY <1>0, <1>6 DEF SessionBound, GoesTo, CallsTyped, local
  <2> QED
    BY <1>3, <2>1 DEF SequentialStep, SequentialCall, Awaiting, RouteAwaiting
<1>7. CASE SessionLinked(c)
  <2>1. pc[c] = "link" /\ pc'[c] = "message"
    BY <1>0, <1>7 DEF SessionLinked, GoesTo, CallsTyped
  <2>2. works = {c} /\ Exists = {c}
    BY <1>1, <1>3, <2>1 DEF SequentialCall, Awaiting, RouteAwaiting
  <2> QED
    BY <1>3, <2>1, <2>2 DEF SequentialStep, Settled, Awaiting, RouteAwaiting
<1>8. CASE RouteFails(c)
  <2>1. failures' = failures + 1
    BY <1>8 DEF RouteFails, Raised, Fails
  <2> QED
    BY <1>0, <1>1, <2>1 DEF RunTyped
<1> QED
  BY <1>4, <1>5, <1>6, <1>7, <1>8

LEMMA RepoIsSequential ==
  ASSUME ContextInv, UnfailedInv, SequentialInv, NEW c \in Calls, NEW next,
         Goes(c, next), ~ disturbed',
         \/ BeginRepoTurn(c) \/ QuestLookedUp(c) \/ QuestWritten(c)
         \/ SessionLocked(c) \/ SessionJoined(c)
  PROVE  SequentialStep(c)
<1>0. CallsTyped /\ RunTyped /\ CallOK(c) /\ GraphTyped
  BY TypeIs DEF ContextInv
<1>1. /\ Sequential /\ failures' = failures /\ (pc[c] = "idle" => Quiet)
      /\ pc[c] \in Awaiting => landed
  BY DEF Goes, SequentialInv
<1>3. pc[c] \in Awaiting \cup {"find"} => c \in InFlight /\ SequentialCall(c)
  BY <1>1 DEF Sequential, InFlight
<1> USE DEF Binding, Joining
<1>4. CASE BeginRepoTurn(c)
  <2>1. pc[c] = "idle" /\ pc'[c] = "find"
    BY <1>0, <1>4 DEF BeginRepoTurn, Arrives, GoesTo, CallsTyped
  <2>2. Settled
    BY <1>1, <2>1 DEF Sequential, Quiet
  <2> QED
    BY <2>1, <2>2 DEF SequentialStep
<1>5. CASE QuestLookedUp(c)
  <2>1. pc[c] = "find" /\ pc'[c] = IF RepoQuest \in Exists THEN "touch" ELSE "create"
    BY <1>0, <1>5 DEF QuestLookedUp, GoesTo, CallsTyped
  <2>2. Settled
    BY <1>3, <2>1 DEF SequentialCall
  <2> QED
    BY <1>3, <2>1, <2>2 DEF SequentialStep, Settled
<1>6. CASE QuestWritten(c)
  <2>1. /\ pc[c] \in {"create", "touch"} /\ pc'[c] = "lock" /\ quest' = quest
        /\ put'[c] = Routed(95, "locked")
    BY <1>0, <1>6 DEF QuestWritten, GoesTo, CallsTyped, local
  <2>2. Exists = works \cup {RepoQuest} /\ quest[c] = RepoQuest /\ c \in InFlight
    BY <1>0, <1>1, <1>3, <2>1 DEF SequentialCall, CallOK, Settled, Awaiting, RepoAwaiting
  <2>3. \A s \in routing.state : Rank(s) <= Rank("locked")
    BY <1>0 DEF GraphTyped, Rank, States
  <2> QED
    BY <2>1, <2>2, <2>3 DEF SequentialStep, Routed
<1>7. CASE SessionLocked(c) \/ SessionJoined(c)
  <2>1. ~ Raised(c)
    <3>1. SUFFICES ASSUME Raised(c) PROVE FALSE
      OBVIOUS
    <3>2. failures' = failures + 1
      BY <3>1 DEF Raised, Fails
    <3> QED
      BY <1>0, <1>1, <3>2 DEF RunTyped
  <2>2. /\ quest' = quest
        /\ \/ pc[c] = "lock" /\ pc'[c] = "join"
           \/ pc[c] = "join" /\ pc'[c] = "message"
    BY <1>0, <1>7, <2>1 DEF SessionLocked, SessionJoined, GoesTo, CallsTyped, local
  <2>3. /\ pc[c] \in Awaiting /\ landed /\ c \in InFlight
        /\ Exists = works \cup {RepoQuest} /\ quest[c] = RepoQuest
        /\ pc[c] = "join" => RepoQuest \in works
    BY <1>1, <1>3, <2>2 DEF SequentialCall, Awaiting, RepoAwaiting
  <2> QED
    BY <2>2, <2>3 DEF SequentialStep, Settled
<1> QED
  BY <1>4, <1>5, <1>6, <1>7

LEMMA MessageIsSequential ==
  ASSUME ContextInv, UnfailedInv, SequentialInv, NEW c \in Calls, NEW next,
         Goes(c, next), ~ disturbed',
         \/ MessageStored(c) \/ FrontierCleared(c) \/ MessageSent(c)
         \/ StrengthStored(c) \/ TurnFails(c) \/ LoadsCounted(c)
         \/ BeginRetrieval(c) \/ HitCounted(c)
  PROVE  SequentialStep(c)
<1>0. CallsTyped /\ RunTyped /\ GraphTyped
  BY TypeIs DEF ContextInv
<1>1. Sequential /\ failures' = failures /\ (pc[c] = "idle" => Quiet)
  BY DEF Goes, SequentialInv
<1> DEFINE After == {"clear", "sent", "strength", "answered", "loaded", "failed", "hit", "count"}
<1>2. CASE TurnFails(c)
  <2>1. failures' = failures + 1
    BY <1>2 DEF TurnFails, Raised, Fails
  <2> QED
    BY <1>0, <1>1, <2>1 DEF RunTyped
<1>3. CASE ~ TurnFails(c)
  <2>1. pc'[c] \in After
    <3>1. CASE \/ MessageStored(c) \/ FrontierCleared(c) \/ MessageSent(c)
               \/ StrengthStored(c) \/ LoadsCounted(c)
      BY <1>0, <3>1 DEF MessageStored, FrontierCleared, MessageSent, StrengthStored,
         LoadsCounted, Ends, GoesTo, CallsTyped
    <3>2. CASE BeginRetrieval(c) \/ HitCounted(c)
      <4>1. PICK S \in SUBSET Nodes : Tracks(c, S)
        BY <1>0, <3>2 DEF BeginRetrieval, HitCounted, CallsTyped
      <4>2. \E n \in Nodes \cup {None} : GoesTo(c, IF n = None THEN "count" ELSE "hit")
        BY <4>1 DEF Tracks, Found, Loaded
      <4> QED
        BY <1>0, <4>2 DEF GoesTo, CallsTyped
    <3> QED
      BY <1>3, <3>1, <3>2
  <2>2. pc[c] \in {"idle", "message", "clear", "sent", "strength", "hit", "count"}
    BY <1>3 DEF MessageStored, FrontierCleared, MessageSent, StrengthStored, LoadsCounted,
       BeginRetrieval, HitCounted, Arrives
  <2>3. Settled /\ (pc[c] = "idle" \/ c \in InFlight)
    <3>1. CASE pc[c] = "idle"
      BY <1>1, <3>1 DEF Sequential, Quiet
    <3>2. CASE pc[c] # "idle"
      <4>1. c \in InFlight
        BY <2>2, <3>2 DEF InFlight, Awaiting, LoadAwaiting
      <4> QED
        BY <1>1, <2>2, <3>2, <4>1 DEF Sequential, SequentialCall, Binding, Joining
    <3> QED
      BY <3>1, <3>2
  <2>4. ASSUME pc'[c] = "strength", NEW t \in routing.state
        PROVE  Rank(t) <= Rank(put'[c].state)
    <3>1. MessageSent(c) /\ ~ Ends(c, "answered")
      <4>1. ~ Ends(c, "answered")
        BY <1>0, <2>4 DEF Ends, GoesTo, CallsTyped
      <4>2. CASE BeginRetrieval(c) \/ HitCounted(c)
        <5>1. PICK S \in SUBSET Nodes : Tracks(c, S)
          BY <1>0, <4>2 DEF BeginRetrieval, HitCounted, CallsTyped
        <5>2. \E n \in Nodes \cup {None} : GoesTo(c, IF n = None THEN "count" ELSE "hit")
          BY <5>1 DEF Tracks, Found, Loaded
        <5> QED
          BY <1>0, <2>4, <5>2 DEF GoesTo, CallsTyped
      <4>3. CASE MessageStored(c) \/ FrontierCleared(c)
        BY <1>0, <2>4, <4>3 DEF MessageStored, FrontierCleared, GoesTo, CallsTyped
      <4>4. CASE LoadsCounted(c)
        BY <1>0, <2>4, <4>4 DEF LoadsCounted, Ends, GoesTo, CallsTyped
      <4> QED
        BY <1>3, <4>1, <4>2, <4>3, <4>4 DEF StrengthStored
    <3>2. PICK k \in routing.confidence, s \in routing.state, confirms \in BOOLEAN :
            put' = [put EXCEPT ![c] = Strengthened(k, s, confirms)]
      BY <3>1 DEF MessageSent
    <3>3. k \in 0 .. 115 /\ s \in States /\ s = t
      BY <1>0, <1>1, <3>2 DEF GraphTyped, Sequential
    <3>4. put'[c] = Strengthened(k, s, confirms)
      BY <1>0, <3>2 DEF CallsTyped
    <3> QED
      BY <3>3, <3>4, StrengthenedOK
  <2> QED
    BY <2>1, <2>3, <2>4 DEF SequentialStep, Binding
<1> QED
  BY <1>2, <1>3

LEMMA StepIsSequential ==
  ASSUME ContextInv, UnfailedInv, SequentialInv, NEW c \in Calls, Turn(c) \/ Retrieval(c)
  PROVE  SequentialInv' /\ UNCHANGED routing
<1>0. TypeOK /\ LoadsOK
  BY DEF ContextInv
<1>1. PICK next \in Places : Goes(c, next) /\ OthersKept(c)
  BY <1>0, StepIsKnown DEF KnownAt
<1>2. ASSUME ~ disturbed'
      PROVE  SequentialStep(c)
  BY <1>1, <1>2, RoutingIsSequential, RepoIsSequential, MessageIsSequential
    DEF Turn, Retrieval
<1>3. SequentialInv'
  BY <1>1, <1>2, StepKeepsSequential DEF SequentialInv
<1> QED
  BY <1>1, <1>3 DEF Goes

\* The commit of the one call under way is the write that its place says.
LEMMA LandKeepsSequential ==
  ASSUME ContextInv, UnfailedInv, SequentialInv, NEW c \in Calls, Land(c), ~ disturbed'
  PROVE  /\ Sequential'
         /\ \A s \in routing.state, t \in routing'.state : Rank(s) <= Rank(t)
<1>0. TypeOK /\ CallsTyped /\ QueueTyped /\ GraphTyped /\ CallOK(c)
  BY TypeIs DEF ContextInv
<1>1. PICK w : w = Statement(c)
  OBVIOUS
<1>2. PICK on : on = Selects(w)
  OBVIOUS
<1>3. Writes(w, on) /\ Lands(c) /\ UNCHANGED <<pc, quest, put, failures, disturbed>>
  BY <1>1, <1>2 DEF Land, local
<1>4. w.kind = pc[c] /\ w.put = put[c] /\ w.quest = quest[c]
  BY <1>1 DEF Statement
<1>5. Sequential /\ Unfailed /\ UnfailedCall(c)
  BY <1>3 DEF SequentialInv, UnfailedInv, Sequential, Unfailed
<1>6. Holds(c) /\ ~ landed /\ landed' /\ Holds(c)' /\ UNCHANGED <<inside, ahead>>
  BY <1>3 DEF Lands, Holds
<1>7. pc[c] \in Awaiting /\ c \in InFlight /\ SequentialCall(c) /\ InFlight' = InFlight
  BY <1>0, <1>3, <1>5, <1>6 DEF QueueTyped, Holds, InFlight, Sequential
\* What the commit does to the quests, the edges and the fields.
<1>8. CASE pc[c] \in {"quest", "create"}
  <2>1. UNCHANGED <<works, routing>> /\ quests' = [quests EXCEPT ![quest[c]] = @ + 1]
    BY <1>3, <1>4, <1>8 DEF Writes
  <2>2. quest[c] \in QuestIds /\ quest[c] \notin Exists
    BY <1>0, <1>6, <1>7, <1>8 DEF CallOK, SequentialCall, QuestIds
  <2>3. quests[quest[c]] = 0
    BY <1>0, <2>2 DEF GraphTyped, Exists
  <2>4. \A q \in QuestIds : quests'[q] = IF q = quest[c] THEN 1 ELSE quests[q]
    BY <1>0, <2>1, <2>3 DEF GraphTyped
  <2>5. Exists' = Exists \cup {quest[c]}
    BY <2>2, <2>4 DEF Exists
  <2>6. SequentialCall(c)'
    BY <1>0, <1>3, <1>6, <1>7, <1>8, <2>1, <2>5
       DEF SequentialCall, CallOK, Binding, Joining, SessionExists
  <2>7. \A q \in QuestIds : quests'[q] <= 1
    BY <1>5, <2>4 DEF Sequential
  <2>8. \A s \in routing.state, t \in routing'.state : Rank(s) <= Rank(t)
    BY <1>0, <1>5, <2>1 DEF Sequential, GraphTyped, Rank, States
  <2> QED
    BY <1>3, <1>5, <1>7, <2>1, <2>6, <2>7, <2>8 DEF Sequential
<1>9. CASE pc[c] \in {"link", "join"}
  <2>1. UNCHANGED <<quests, routing>> /\ works' = works \cup on.items
    BY <1>3, <1>4, <1>9 DEF Writes
  <2>2. SessionExists
    BY <1>5, <1>9 DEF UnfailedCall
  <2>3. on.items = {quest[c]} \cap Exists
    BY <1>2, <1>4, <1>9, <2>2 DEF Selects
  <2>4. quest[c] \in Exists
    BY <1>7, <1>9 DEF SequentialCall
  <2>5. works' = works \cup {quest[c]} /\ Exists' = Exists
    BY <2>1, <2>3, <2>4 DEF Exists
  <2>6. SequentialCall(c)'
    BY <1>3, <1>6, <1>7, <1>9, <2>5 DEF SequentialCall, Binding, Joining
  <2>7. \A q, r \in works' \ {RepoQuest} : q = r
    BY <1>5, <1>6, <1>7, <1>9, <2>5 DEF Sequential, SequentialCall
  <2>8. \A s \in routing.state, t \in routing'.state : Rank(s) <= Rank(t)
    BY <1>0, <1>5, <2>1 DEF Sequential, GraphTyped, Rank, States
  <2> QED
    BY <1>3, <1>5, <1>7, <2>1, <2>6, <2>7, <2>8 DEF Sequential
<1>10. CASE pc[c] \notin {"quest", "create", "link", "join"}
  <2>1. UNCHANGED <<quests, works>>
    BY <1>3, <1>4, <1>10 DEF Writes
  <2>2. Exists' = Exists
    BY <2>1 DEF Exists
  <2>3. \/ routing' = routing
        \/ /\ pc[c] \in {"bind", "lock"} \/ (pc[c] = "strength" /\ SessionExists)
           /\ routing' = Routed({put[c].confidence}, {put[c].state})
    <3>1. CASE routing' = routing
      BY <3>1
    <3>2. CASE routing' # routing
      <4>1. /\ w.kind \in {"bind", "lock"} \/ (w.kind = "strength" /\ on.rows # NoRows)
            /\ routing' = Routed((routing.confidence \ on.rows.confidence) \cup {w.put.confidence},
                                 (routing.state \ on.rows.state) \cup {w.put.state})
        BY <1>3, <3>2 DEF Writes
      <4>2. on.rows = routing
        BY <1>2, <4>1 DEF Selects
      <4>3. routing.confidence \ on.rows.confidence = {} /\ routing.state \ on.rows.state = {}
        BY <4>2
      <4> QED
        BY <1>4, <4>1, <4>2, <4>3 DEF SessionExists
    <3> QED
      BY <3>1, <3>2
  <2>4. /\ \A s \in routing.state, t \in routing'.state : Rank(s) <= Rank(t)
        /\ \A s, t \in routing'.state : s = t
        /\ pc[c] \in {"bind", "lock", "strength"} =>
             \A s \in routing'.state : Rank(s) <= Rank(put[c].state)
        /\ SessionExists' => SessionExists \/ pc[c] \in {"bind", "lock"}
    <3>1. \A s \in States : Rank(s) \in Nat /\ Rank(s) <= Rank(s)
      BY DEF Rank, States
    <3>2. routing.state \subseteq States /\ put[c].state \in States
      BY <1>0 DEF GraphTyped, CallsTyped, RoutedOK
    <3>3. CASE routing' = routing
      <4>1. \A s, t \in routing.state : s = t
        BY <1>5 DEF Sequential
      <4> QED
        BY <1>7, <3>1, <3>2, <3>3, <4>1 DEF SequentialCall, SessionExists
    <3>4. CASE /\ pc[c] \in {"bind", "lock"} \/ (pc[c] = "strength" /\ SessionExists)
               /\ routing' = Routed({put[c].confidence}, {put[c].state})
      <4>1. routing'.state = {put[c].state}
        BY <3>4 DEF Routed
      <4>2. \A s \in routing.state : Rank(s) <= Rank(put[c].state)
        BY <1>7, <3>4 DEF SequentialCall
      <4> QED
        BY <3>1, <3>2, <3>4, <4>1, <4>2
    <3> QED
      BY <2>3, <3>3, <3>4
  <2>5. SequentialCall(c)'
    <3>1. Settled /\ pc[c] \notin Binding \cup Joining => Settled'
      BY <2>1, <2>2, <2>4 DEF Settled, Binding, Joining
    <3> QED
      BY <1>3, <1>6, <1>7, <1>10, <2>1, <2>2, <2>4, <3>1
         DEF SequentialCall, Binding, Joining
  <2> QED
    BY <1>3, <1>5, <1>7, <2>1, <2>4, <2>5 DEF Sequential
<1> QED
  BY <1>8, <1>9, <1>10

LEMMA InitSequential == Init => SequentialInv
<1> SUFFICES ASSUME Init PROVE Sequential
  BY DEF SequentialInv
<1>1. /\ \A c \in Calls : pc[c] = "idle"
      /\ works = {} /\ routing = NoRows /\ failures = 0
      /\ quests = [q \in QuestIds |-> 0]
  BY DEF Init
<1>2. InFlight = {}
  BY <1>1 DEF InFlight, Awaiting, RepoAwaiting, RouteAwaiting, LoadAwaiting
<1>3. Exists = {} /\ ~ SessionExists /\ routing.state = {}
  BY <1>1 DEF Exists, SessionExists, NoRows, Routed
<1>4. \A q \in QuestIds : quests[q] <= 1
  BY <1>1
<1> QED
  BY <1>1, <1>2, <1>3, <1>4 DEF Sequential, Settled

LEMMA NextIsSequential ==
  ASSUME ContextInv, UnfailedInv, SequentialInv, [Next]_vars
  PROVE  /\ SequentialInv'
         /\ ~ disturbed' =>
              \A s \in routing.state, t \in routing'.state : Rank(s) <= Rank(t)
<1>0. GraphTyped /\ RunTyped
  BY TypeIs DEF ContextInv
<1>1. ASSUME ~ disturbed, UNCHANGED routing
      PROVE  \A s \in routing.state, t \in routing'.state : Rank(s) <= Rank(t)
  BY <1>0, <1>1 DEF SequentialInv, Sequential, GraphTyped, Rank, States
<1>2. CASE \E c \in Calls : Turn(c) \/ Retrieval(c)
  <2>1. SequentialInv' /\ UNCHANGED routing
    BY <1>2, StepIsSequential
  <2>2. ~ disturbed' => ~ disturbed
    <3>1. PICK c \in Calls : Turn(c) \/ Retrieval(c)
      BY <1>2
    <3>2. TypeOK /\ LoadsOK
      BY DEF ContextInv
    <3>3. \E next \in Places : Goes(c, next)
      BY <3>1, <3>2, StepIsKnown DEF KnownAt
    <3> QED
      BY <3>3 DEF Goes
  <2> QED
    BY <1>1, <2>1, <2>2
<1>3. CASE \E c \in Calls : Land(c)
  BY <1>3, LandKeepsSequential DEF SequentialInv
<1>4. CASE \E w \in late : LandLate(w)
  <2>1. disturbed' = disturbed /\ late # {}
    BY <1>4 DEF LandLate
  <2>2. disturbed
    BY <2>1 DEF SequentialInv, Sequential, UnfailedInv, Unfailed
  <2> QED
    BY <2>1, <2>2 DEF SequentialInv
<1>5. CASE Crash
  <2>1. disturbed'
    <3>1. ~ disturbed' => ~ disturbed /\ 1 = 0
      BY <1>0, <1>5, FailsCounts DEF Crash
    <3> QED
      BY <3>1
  <2> QED
    BY <2>1 DEF SequentialInv
<1>6. CASE (\E n \in Nodes : LoopActivates(n)) \/ UNCHANGED vars
  <2>1. UNCHANGED <<pc, quest, put, inside, ahead, landed, failures, disturbed, routing, quests, works>>
    BY <1>6 DEF LoopActivates, vars, local, queue, graph
  <2>2. SequentialInv'
    BY <2>1 DEF SequentialInv, Sequential, SequentialCall, Settled, Exists, SessionExists,
       InFlight, Holds
  <2> QED
    BY <1>1, <2>1, <2>2
<1> QED
  BY <1>2, <1>3, <1>4, <1>5, <1>6 DEF Next

LEMMA SequentialSafety == Spec => []SequentialInv
<1>1. ContextInv /\ UnfailedInv /\ SequentialInv /\ [Next]_vars => SequentialInv'
  BY NextIsSequential
<1> QED
  BY <1>1, ContextSafety, UnfailedSafety, InitSequential, PTL DEF Spec

\* Turns that come one at a time, and do not fail, work on one quest and the
\* repository's, and leave no quest that nothing works on (route_session,
\* get_or_create_main_quest, get_or_create_session).
THEOREM SequentialQuest == Spec => []SequentialTurnsShareAQuest
<1>1. ASSUME SequentialInv
      PROVE  SequentialTurnsShareAQuest
  <2>1. SUFFICES ASSUME ~ disturbed PROVE
          /\ Cardinality(works \ {RepoQuest}) <= 1
          /\ \A q \in QuestIds : quests[q] <= 1
          /\ Quiet => Exists = works
    BY DEF SequentialTurnsShareAQuest
  <2>2. Sequential
    BY <1>1, <2>1 DEF SequentialInv
  <2>3. Cardinality(works \ {RepoQuest}) <= 1
    <3>1. CASE works \ {RepoQuest} = {}
      BY <3>1, FS_EmptySet
    <3>2. CASE works \ {RepoQuest} # {}
      <4>1. PICK q : works \ {RepoQuest} = {q}
        BY <2>2, <3>2 DEF Sequential
      <4> QED
        BY <4>1, FS_Singleton
    <3> QED
      BY <3>1, <3>2
  <2> QED
    BY <2>2, <2>3 DEF Sequential, Settled, Quiet
<1> QED
  BY <1>1, SequentialSafety, PTL

\* Turns that come one at a time never weaken the session's routing
\* (update_routing_strength, _bind_session, get_or_create_session).
THEOREM RoutingStrengthens == Spec => SequentialRoutingStrengthens
<1>1. ContextInv /\ UnfailedInv /\ SequentialInv /\ [Next]_vars =>
        [~ disturbed' => \A s \in routing.state, t \in routing'.state : Rank(s) <= Rank(t)]_vars
  BY NextIsSequential
<1> QED
  BY <1>1, ContextSafety, UnfailedSafety, SequentialSafety, PTL
     DEF Spec, SequentialRoutingStrengthens

-----------------------------------------------------------------------------
(***************************************************************************)
(* Retrievals that come one at a time, into a Session that was there: each *)
(* load is counted, but for the one whose count is being written.          *)
(***************************************************************************)

Pending(n) == \E c \in Calls : pc[c] = "hit" /\ node[c] = n /\ ~ landed

Counted ==
  /\ Loaded # {} => SessionExists
  /\ \A n \in Nodes :
       /\ loads[n] > 0 <=> n \in Loaded
       /\ n \in Loaded => hits[n] = {IF Pending(n) THEN loads[n] - 1 ELSE loads[n]}
  /\ \A c \in Calls :
       /\ pc[c] = "hit" => hit[c] = loads[node[c]]
       /\ pc[c] = "count" => SessionExists /\ hit[c] = Cardinality(Loaded)
       /\ pc[c] = "count" /\ landed => counted = {Cardinality(Loaded)}
  /\ (\A c \in Calls : pc[c] \notin LoadAwaiting) /\ Loaded # {} =>
       counted = {Cardinality(Loaded)}

CountedInv == ~ disturbed /\ early = {} => Counted

\* A turn loads nothing, and a retrieval that ends has counted what is loaded.
LEMMA TurnKeepsCounted ==
  ASSUME ContextInv, SequentialInv, Counted, NEW c \in Calls, NEW next,
         Goes(c, next), SequentialStep(c), ~ disturbed',
         Turn(c) \/ LoadsCounted(c)
  PROVE  Counted' /\ early' = early
<1>0. TypeOK /\ CallsTyped
  BY TypeIs DEF ContextInv
<1>1. /\ Sequential /\ failures' = failures /\ (pc[c] = "idle" => Quiet)
      /\ (pc[c] \in Awaiting => landed) /\ UNCHANGED <<routing, counted>>
  BY DEF Goes, SequentialInv
<1>2. UNCHANGED <<copies, hits, loads, early>>
  BY DEF Turn, BeginTurn, QuestCreated, SessionBound, SessionLinked, RouteFails,
     BeginRepoTurn, QuestLookedUp, QuestWritten, SessionLocked, SessionJoined, MessageStored,
     FrontierCleared, MessageSent, StrengthStored, TurnFails, LoadsCounted, graph, direct,
     history
<1>3. pc'[c] \notin LoadAwaiting /\ pc[c] # "hit"
  <2>1. CASE \/ BeginTurn(c) \/ QuestCreated(c) \/ SessionBound(c) \/ SessionLinked(c)
             \/ RouteFails(c) \/ BeginRepoTurn(c) \/ QuestLookedUp(c) \/ QuestWritten(c)
             \/ SessionLocked(c) \/ SessionJoined(c)
    BY <1>0, <2>1 DEF BeginTurn, RouteNew, RouteBest, Bound, QuestCreated, SessionBound,
       SessionLinked, RouteFails, BeginRepoTurn, QuestLookedUp, QuestWritten, SessionLocked,
       SessionJoined, Arrives, GoesTo, CallsTyped, LoadAwaiting, RouteAwaiting
  <2>2. CASE \/ MessageStored(c) \/ FrontierCleared(c) \/ MessageSent(c)
             \/ StrengthStored(c) \/ TurnFails(c) \/ LoadsCounted(c)
    BY <1>0, <2>2
      DEF MessageStored, FrontierCleared, MessageSent, StrengthStored, TurnFails,
       LoadsCounted, Ends, GoesTo, CallsTyped, LoadAwaiting
  <2> QED
    BY <2>1, <2>2 DEF Turn
<1>4. pc[c] = "count" => landed
  BY <1>1 DEF Awaiting, LoadAwaiting
<1>5. \A d \in Calls \ {c} :
        pc'[d] = pc[d] /\ pc[d] \notin LoadAwaiting
  <2>1. ASSUME NEW d \in Calls \ {c}
        PROVE  pc[d] \notin LoadAwaiting
    <3>1. SUFFICES ASSUME pc[d] \in LoadAwaiting PROVE FALSE
      OBVIOUS
    <3>2. d \in InFlight
      BY <3>1 DEF InFlight, Awaiting
    <3>3. c \in InFlight
      BY <1>1, <3>2 DEF SequentialStep, Quiet
    <3> QED
      BY <1>1, <3>2, <3>3 DEF Sequential
  <2>2. \A d \in Calls \ {c} : pc'[d] = pc[d]
    BY <1>0 DEF Goes, CallsTyped
  <2> QED
    BY <2>1, <2>2
<1>6. Loaded' = Loaded /\ (SessionExists' <=> SessionExists)
  BY <1>1, <1>2 DEF Loaded, SessionExists
<1>7. \A n \in Nodes : ~ Pending(n) /\ ~ Pending(n)'
  BY <1>3, <1>5 DEF Pending, LoadAwaiting
<1>8. \A d \in Calls : pc'[d] \notin LoadAwaiting
  BY <1>3, <1>5
<1>9. Loaded # {} => counted = {Cardinality(Loaded)}
  BY <1>3, <1>4, <1>5 DEF Counted, LoadAwaiting
<1> QED
  BY <1>1, <1>2, <1>6, <1>7, <1>8, <1>9 DEF Counted, LoadAwaiting

\* A retrieval tracks some results.
LEMMA TracksKeepsCounted ==
  ASSUME ContextInv, UnfailedInv, SequentialInv, Counted, NEW c \in Calls, NEW next \in Places,
         Goes(c, next), SequentialStep(c), ~ disturbed', early' = {},
         BeginRetrieval(c) \/ HitCounted(c)
  PROVE  Counted'
<1>0. TypeOK /\ CallsTyped /\ LoadsTyped /\ CallOK(c)
  BY TypeIs DEF ContextInv
<1>1. /\ Sequential /\ failures' = failures /\ (pc[c] = "idle" => Quiet)
      /\ (pc[c] \in Awaiting => landed) /\ UNCHANGED <<routing, counted>>
  BY DEF Goes, SequentialInv
<1>2. PICK S \in SUBSET Nodes :
        Tracks(c, S) /\ ((pc[c] = "idle" /\ S # {}) \/ (pc[c] = "hit" /\ landed))
  <2>1. CASE BeginRetrieval(c)
    BY <2>1 DEF BeginRetrieval, Arrives
  <2>2. CASE HitCounted(c)
    BY <1>0, <1>1, <2>2 DEF HitCounted, CallsTyped, Awaiting, LoadAwaiting
  <2> QED
    BY <2>1, <2>2
<1>3. PICK fresh \in SUBSET (S \ Found(S)), n \in Found(S) \cup {None} :
        /\ n = None => Found(S) = {} /\ fresh = S
        /\ copies' = [m \in Nodes |-> copies[m] + IF m \in fresh THEN 1 ELSE 0]
        /\ hits' = [m \in Nodes |-> hits[m] \cup (IF m \in fresh THEN {1} ELSE {})]
        /\ loads' = [m \in Nodes |-> loads[m] + IF m \in fresh \cup {n} THEN 1 ELSE 0]
        /\ early' = early \cup IF SessionExists THEN {} ELSE fresh
        /\ node' = [node EXCEPT ![c] = n]
        /\ IF n = None
             THEN hit' = [hit EXCEPT ![c] = IF SessionExists THEN Cardinality(Loaded \cup S) ELSE 0]
             ELSE \E h \in hits[n] : hit' = [hit EXCEPT ![c] = h + 1]
        /\ GoesTo(c, IF n = None THEN "count" ELSE "hit")
  BY <1>2 DEF Tracks
\* No other call is under way, and this one has nothing committed afterwards.
<1>4. \A d \in Calls \ {c} : pc'[d] = pc[d] /\ d \notin InFlight
  <2>1. ASSUME NEW d \in Calls \ {c}, d \in InFlight
        PROVE  FALSE
    BY <1>1, <2>1 DEF SequentialStep, Quiet, Sequential
  <2>2. \A d \in Calls \ {c} : pc'[d] = pc[d]
    BY <1>0 DEF Goes, CallsTyped
  <2> QED
    BY <2>1, <2>2
<1>5. ~ landed'
  <2>1. \A d \in InFlight' : d = c
    BY <1>4 DEF InFlight
  <2> QED
    BY <1>0, <2>1, AloneAtTheGate
<1>6. \A m \in Nodes : ~ Pending(m)
  <2>1. \A d \in Calls : pc[d] = "hit" => landed
    BY <1>2, <1>4 DEF InFlight, Awaiting, LoadAwaiting
  <2> QED
    BY <2>1 DEF Pending
<1>7. \A m \in Nodes : m \in Loaded => hits[m] = {loads[m]}
  BY <1>6 DEF Counted
\* The Session is there: else nothing were loaded, and the results were early.
<1>8. SessionExists
  <2>1. CASE pc[c] = "hit"
    <3>1. Loaded # {}
      BY <1>0, <2>1 DEF CallOK
    <3> QED
      BY <3>1 DEF Counted
  <2>2. CASE S # {}
    <3>1. SUFFICES ASSUME ~ SessionExists PROVE FALSE
      OBVIOUS
    <3>2. Found(S) = {} /\ None \notin Nodes
      BY <3>1, SessionContextAssumption DEF Found
    <3>3. n = None /\ fresh = S
      BY <1>3, <3>2
    <3> QED
      BY <1>3, <2>2, <3>1, <3>3
  <2> QED
    BY <1>2, <2>1, <2>2
<1>9. /\ fresh \subseteq Nodes /\ fresh \cap Loaded = {} /\ Found(S) = S \cap Loaded
      /\ n # None => n \in Nodes /\ n \in Loaded /\ n \notin fresh
      /\ None \notin Nodes
  BY <1>3, <1>8, SessionContextAssumption DEF Found, Loaded
<1>10. \A m \in Nodes : m \in Loaded' <=> m \in Loaded \/ m \in fresh
  BY <1>0, <1>3 DEF Loaded, LoadsTyped
<1>11. /\ \A m \in fresh : loads[m] = 0 /\ hits[m] = {}
       /\ \A m \in Nodes : loads[m] \in Nat
  BY <1>0, <1>9 DEF Counted, LoadsTyped
<1>12. /\ \A m \in fresh : loads'[m] = 1 /\ hits'[m] = {1}
       /\ \A m \in Nodes \ (fresh \cup {n}) : loads'[m] = loads[m] /\ hits'[m] = hits[m]
       /\ n # None => loads'[n] = loads[n] + 1 /\ hits'[n] = hits[n]
  <2>1. \A m \in Nodes :
          /\ hits'[m] = hits[m] \cup (IF m \in fresh THEN {1} ELSE {})
          /\ loads'[m] = loads[m] + IF m \in fresh \cup {n} THEN 1 ELSE 0
    BY <1>3
  <2>2. ASSUME NEW m \in fresh
        PROVE  loads'[m] = 1 /\ hits'[m] = {1}
    <3>1. m \in Nodes /\ loads[m] = 0 /\ hits[m] = {}
      BY <1>9, <1>11
    <3>2. hits'[m] = hits[m] \cup {1} /\ loads'[m] = loads[m] + 1
      BY <2>1, <3>1
    <3> QED
      BY <3>1, <3>2
  <2>3. ASSUME NEW m \in Nodes \ (fresh \cup {n})
        PROVE  loads'[m] = loads[m] /\ hits'[m] = hits[m]
    <3>1. hits'[m] = hits[m] \cup {} /\ loads'[m] = loads[m] + 0 /\ loads[m] \in Nat
      BY <1>11, <2>1
    <3> QED
      BY <3>1
  <2>4. n # None => loads'[n] = loads[n] + 1 /\ hits'[n] = hits[n]
    BY <1>9, <2>1
  <2> QED
    BY <2>2, <2>3, <2>4
<1>13. /\ pc'[c] = (IF n = None THEN "count" ELSE "hit") /\ node'[c] = n
       /\ \A d \in Calls \ {c} : pc'[d] \notin LoadAwaiting
  BY <1>0, <1>3, <1>4 DEF GoesTo, CallsTyped, InFlight, Awaiting
<1>14. \A m \in Nodes : Pending(m)' <=> m = n
  BY <1>5, <1>9, <1>13 DEF Pending, LoadAwaiting
<1>15. \A m \in Nodes :
         /\ loads'[m] > 0 <=> m \in Loaded'
         /\ m \in Loaded' => hits'[m] = {IF Pending(m)' THEN loads'[m] - 1 ELSE loads'[m]}
  <2>1. ASSUME NEW m \in fresh
        PROVE  loads'[m] > 0 /\ m \in Loaded' /\ ~ Pending(m)' /\ hits'[m] = {loads'[m]}
    <3>1. m \in Nodes /\ m # n
      BY <1>9
    <3> QED
      BY <1>10, <1>12, <1>14, <3>1
  <2>2. ASSUME NEW m \in Nodes, m = n
        PROVE  loads'[m] > 0 /\ m \in Loaded' /\ Pending(m)' /\ hits'[m] = {loads'[m] - 1}
    <3>1. m # None /\ m \in Loaded /\ loads[m] \in Nat
      BY <1>9, <1>11, <2>2
    <3>2. loads'[m] = loads[m] + 1 /\ hits'[m] = {loads[m]}
      BY <1>7, <1>12, <2>2, <3>1
    <3>3. loads'[m] > 0 /\ loads'[m] - 1 = loads[m]
      BY <3>1, <3>2
    <3> QED
      BY <1>10, <1>14, <2>2, <3>1, <3>2, <3>3
  <2>3. ASSUME NEW m \in Nodes, m \notin fresh, m # n
        PROVE  /\ loads'[m] > 0 <=> m \in Loaded'
               /\ ~ Pending(m)' /\ (m \in Loaded' => hits'[m] = {loads'[m]})
    <3>1. loads'[m] = loads[m] /\ hits'[m] = hits[m]
      BY <1>12, <2>3
    <3>2. m \in Loaded' <=> m \in Loaded
      BY <1>10, <2>3
    <3>3. loads[m] > 0 <=> m \in Loaded
      BY DEF Counted
    <3> QED
      BY <1>7, <1>14, <2>3, <3>1, <3>2, <3>3
  <2> QED
    BY <2>1, <2>2, <2>3
<1>16. pc'[c] = "hit" => hit'[c] = loads'[node'[c]]
  <2>1. SUFFICES ASSUME n # None PROVE hit'[c] = loads'[n]
    BY <1>13
  <2>2. PICK h \in hits[n] : hit'[c] = h + 1
    BY <1>0, <1>3, <2>1 DEF CallsTyped
  <2>3. h = loads[n]
    BY <1>7, <1>9, <2>1, <2>2
  <2> QED
    BY <1>12, <2>1, <2>2, <2>3
<1>17. pc'[c] = "count" => hit'[c] = Cardinality(Loaded')
  <2>1. SUFFICES ASSUME n = None PROVE hit'[c] = Cardinality(Loaded')
    BY <1>13
  <2>2. Loaded' = Loaded \cup S
    BY <1>3, <1>10, <2>1 DEF Loaded
  <2> QED
    BY <1>0, <1>3, <1>8, <2>1, <2>2 DEF CallsTyped
<1>18. SessionExists' /\ pc'[c] \in LoadAwaiting
  BY <1>1, <1>8, <1>13 DEF SessionExists, LoadAwaiting
<1> QED
  BY <1>5, <1>13, <1>15, <1>16, <1>17, <1>18 DEF Counted, LoadAwaiting

LEMMA LandKeepsCounted ==
  ASSUME ContextInv, UnfailedInv, SequentialInv, Counted, NEW c \in Calls, Land(c),
         ~ disturbed'
  PROVE  Counted' /\ early' = early
<1>0. TypeOK /\ CallsTyped /\ LoadsTyped /\ QueueTyped /\ CallOK(c)
  BY TypeIs DEF ContextInv
<1>1. PICK w : w = Statement(c)
  OBVIOUS
<1>2. PICK on : on = Selects(w)
  OBVIOUS
<1>3. /\ Writes(w, on) /\ Lands(c)
      /\ UNCHANGED <<pc, node, hit, loads, early, disturbed>>
  BY <1>1, <1>2 DEF Land, local, history
<1>4. w.kind = pc[c] /\ w.node = node[c] /\ w.hit = hit[c]
  BY <1>1 DEF Statement
<1>5. Sequential /\ Unfailed
  BY <1>3 DEF SequentialInv, UnfailedInv, Sequential
<1>6. ~ landed /\ landed' /\ c \in InFlight
  BY <1>0, <1>3 DEF Lands, QueueTyped, Holds, InFlight
<1>7. \A d \in Calls \ {c} : pc[d] \notin LoadAwaiting
  BY <1>5, <1>6 DEF Sequential, InFlight, Awaiting
<1>8. \A n \in Nodes : ~ Pending(n)' /\ (Pending(n) <=> pc[c] = "hit" /\ node[c] = n)
  BY <1>6, <1>7 DEF Pending, LoadAwaiting
<1>9. Loaded' = Loaded
  BY <1>3 DEF Writes, Loaded
<1>10. SessionExists => SessionExists'
  BY <1>3 DEF Writes, SessionExists, NoRows, Routed
<1>11. CASE pc[c] = "hit"
  <2>1. node[c] \in Nodes /\ node[c] \in Loaded /\ SessionExists
    BY <1>0, <1>11 DEF CallOK, Loaded, Counted
  <2>2. PICK n \in Nodes : n = node[c]
    BY <2>1
  <2>3. on.items = hits[n]
    BY <1>2, <1>4, <1>11, <2>1, <2>2 DEF Selects
  <2>4. hits[n] # {} /\ hit[c] = loads[n]
    BY <1>0, <1>11, <2>1, <2>2 DEF LoadsTyped, Counted
  <2>5. hits' = [hits EXCEPT ![n] = {loads[n]}] /\ counted' = counted
    <3>1. hits' = [hits EXCEPT ![n] = (@ \ on.items) \cup {hit[c]}] /\ counted' = counted
      BY <1>3, <1>4, <1>11, <2>2, <2>3, <2>4 DEF Writes
    <3> QED
      BY <2>3, <2>4, <3>1
  <2>6. /\ hits'[n] = {loads[n]}
        /\ \A m \in Nodes \ {n} : hits'[m] = hits[m]
    BY <1>0, <2>5 DEF LoadsTyped
  <2>7. \A m \in Nodes : m \in Loaded => hits'[m] = {loads[m]}
    BY <1>8, <2>2, <2>6 DEF Counted
  <2> QED
    BY <1>3, <1>7, <1>8, <1>9, <1>10, <1>11, <2>7 DEF Counted, LoadAwaiting
<1>12. CASE pc[c] = "count"
  <2>1. SessionExists /\ hit[c] = Cardinality(Loaded)
    BY <1>12 DEF Counted
  <2>2. on.rows # NoRows /\ on.items = counted
    BY <1>2, <1>4, <1>12, <2>1 DEF Selects, SessionExists
  <2>3. counted' = {Cardinality(Loaded)} /\ hits' = hits
    BY <1>3, <1>4, <1>12, <2>1, <2>2 DEF Writes
  <2> QED
    BY <1>3, <1>7, <1>8, <1>9, <1>10, <1>12, <2>1, <2>3 DEF Counted, LoadAwaiting
<1>13. CASE pc[c] \notin LoadAwaiting
  <2>1. hits' = hits /\ counted' = counted
    BY <1>3, <1>4, <1>13 DEF Writes, LoadAwaiting
  <2>2. \A n \in Nodes : ~ Pending(n)
    BY <1>8, <1>13 DEF LoadAwaiting
  <2> QED
    BY <1>3, <1>7, <1>8, <1>9, <1>10, <1>13, <2>1, <2>2 DEF Counted, LoadAwaiting
<1> QED
  BY <1>3, <1>11, <1>12, <1>13 DEF LoadAwaiting

\* Nothing is ever taken back from what was loaded too early.
LEMMA EarlyGrows ==
  ASSUME ContextInv, [Next]_vars
  PROVE  early \subseteq early'
<1>0. CallsTyped
  BY TypeIs DEF ContextInv
<1>1. ASSUME NEW c \in Calls, BeginRetrieval(c) \/ HitCounted(c)
      PROVE  early \subseteq early'
  BY <1>0, <1>1 DEF BeginRetrieval, HitCounted, Tracks, CallsTyped
<1>2. ASSUME NEW c \in Calls, Turn(c) \/ LoadsCounted(c)
      PROVE  early' = early
  BY <1>2 DEF Turn, BeginTurn, QuestCreated, SessionBound, SessionLinked, RouteFails,
     BeginRepoTurn, QuestLookedUp, QuestWritten, SessionLocked, SessionJoined, MessageStored,
     FrontierCleared, MessageSent, StrengthStored, TurnFails, LoadsCounted, history
<1> QED
  BY <1>1, <1>2 DEF Next, Retrieval, Land, LandLate, LoopActivates, Crash, vars, history

LEMMA NextKeepsCounted ==
  ASSUME ContextInv, UnfailedInv, SequentialInv, CountedInv, [Next]_vars
  PROVE  CountedInv'
<1> SUFFICES ASSUME ~ disturbed', early' = {} PROVE Counted'
  BY DEF CountedInv
<1>0. TypeOK /\ LoadsOK /\ RunTyped
  BY TypeIs DEF ContextInv
<1>1. early = {}
  BY EarlyGrows
<1>2. CASE \E c \in Calls : Turn(c) \/ Retrieval(c)
  <2>1. PICK c \in Calls : Turn(c) \/ Retrieval(c)
    BY <1>2
  <2>2. PICK next \in Places : Goes(c, next)
    BY <1>0, <2>1, StepIsKnown DEF KnownAt
  <2>3. SequentialStep(c)
    BY <2>1, <2>2, RoutingIsSequential, RepoIsSequential, MessageIsSequential
       DEF Turn, Retrieval
  <2>4. Counted
    BY <1>1, <2>2 DEF Goes, CountedInv
  <2> QED
    BY <2>1, <2>2, <2>3, <2>4, TurnKeepsCounted, TracksKeepsCounted DEF Retrieval
<1>3. CASE \E c \in Calls : Land(c)
  <2>1. disturbed' = disturbed
    BY <1>3 DEF Land
  <2>2. Counted
    BY <1>1, <2>1 DEF CountedInv
  <2> QED
    BY <1>3, <2>2, LandKeepsCounted
<1>4. CASE \E w \in late : LandLate(w)
  BY <1>4 DEF LandLate, SequentialInv, Sequential, UnfailedInv, Unfailed
<1>5. CASE Crash
  <2>1. ~ disturbed' => ~ disturbed /\ 1 = 0
    BY <1>0, <1>5, FailsCounts DEF Crash
  <2> QED
    BY <2>1
<1>6. CASE (\E n \in Nodes : LoopActivates(n)) \/ UNCHANGED vars
  <2>1. UNCHANGED <<pc, node, hit, landed, routing, copies, hits, counted, loads, early, disturbed>>
    BY <1>6 DEF LoopActivates, vars, local, queue, graph, direct, history
  <2>2. Counted
    BY <1>1, <2>1 DEF CountedInv
  <2> QED
    BY <2>1, <2>2 DEF Counted, Pending, Loaded, SessionExists
<1> QED
  BY <1>2, <1>3, <1>4, <1>5, <1>6 DEF Next

LEMMA InitCounted == Init => CountedInv
<1> SUFFICES ASSUME Init PROVE Counted
  BY DEF CountedInv
<1>1. /\ \A c \in Calls : pc[c] = "idle"
      /\ \A n \in Nodes : copies[n] = 0 /\ loads[n] = 0
  BY DEF Init
<1>2. Loaded = {}
  BY <1>1 DEF Loaded
<1> QED
  BY <1>1, <1>2 DEF Counted

LEMMA CountedSafety == Spec => []CountedInv
<1>1. ContextInv /\ UnfailedInv /\ SequentialInv /\ CountedInv /\ [Next]_vars => CountedInv'
  BY NextKeepsCounted
<1> QED
  BY <1>1, ContextSafety, UnfailedSafety, SequentialSafety, InitCounted, PTL DEF Spec

\* Hits never exceed loads, however retrievals overlap or fail; those that come
\* one at a time miss none (track_loaded).
THEOREM HitsAreLoads == Spec => []HitsCountLoads
<1>1. ASSUME ContextInv, CountedInv
      PROVE  HitsCountLoads
  <2>1. LoadsOK
    BY <1>1 DEF ContextInv
  <2>2. ASSUME NEW n \in Nodes, ~ disturbed, Quiet, early = {}, loads[n] > 0
        PROVE  hits[n] = {loads[n]} /\ counted = {Cardinality(Loaded)}
    <3>1. Counted
      BY <1>1, <2>2 DEF CountedInv
    <3>2. \A c \in Calls : pc[c] \notin LoadAwaiting
      BY <2>2 DEF Quiet, InFlight, Awaiting
    <3>3. n \in Loaded /\ ~ Pending(n)
      BY <2>2, <3>1, <3>2 DEF Counted, Pending, LoadAwaiting
    <3> QED
      BY <3>1, <3>2, <3>3 DEF Counted
  <2> QED
    BY <2>1, <2>2 DEF HitsCountLoads, LoadsOK
<1> QED
  BY <1>1, ContextSafety, CountedSafety, PTL

=============================================================================
