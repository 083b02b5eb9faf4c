----------------------------- MODULE IngestProofs -----------------------------
(***************************************************************************)
(* Proofs about DocumentIngest: its types, that the Loop is never handed   *)
(* an extract that is not stored, and that of calls that overlap without a *)
(* failure the one that came last wins. The first two rest on what a call  *)
(* has done by the time it awaits its next write (CallsOK, StoredFirst),   *)
(* the last on the order of the write lock: whoever may still archive is   *)
(* ahead of the latest call while that has no extract yet (ArchivesFirst). *)
(*                                                                         *)
(* A call that nothing disturbs replaces what earlier calls left, though   *)
(* they may have failed: AloneOK says what is in the graph at each of its  *)
(* writes, and LateKeepsOK that the statements given up before it came     *)
(* have changed nothing it relies on.                                      *)
(***************************************************************************)
EXTENDS DocumentIngest, WriteQueueProofs

Chunking == {"extract", "derive"}

\* What a call has computed.
CallsOK ==
  \A c \in Calls :
    /\ pc[c] \in Awaiting => hash[c] \in Contents
    /\ pc[c] \in {"idle", "upsert", "archive"} => text[c] = None
    /\ pc[c] \in Chunking => text[c] \in Contents /\ chunk[c] \in 1 .. Size[text[c]]
    /\ pc[c] = "answered" => text[c] \in Contents

\* What it has stored.
StoredFirst ==
  \A c \in Calls :
    /\ pc[c] = "derive" => <<c, chunk[c]>> \in extracts
    /\ pc[c] = "extract" /\ landed /\ Holds(c) => <<c, chunk[c]>> \in extracts

\* What a statement that was given up may still do.
LateOK ==
  \A w \in late :
    /\ w.statement.kind = "upsert" => w.statement.value \in Contents
    /\ w.statement.kind = "derive" => w.on \subseteq extracts

IngestInv == TypeOK /\ CallsOK /\ StoredFirst /\ LateOK /\ QueuedAreStored

\* Call c has not linked an extract yet.
Unlinked(c) ==
  \/ pc[c] \in {"upsert", "archive"}
  \/ pc[c] = "extract" /\ chunk[c] = 1
  \/ pc[c] = "answered" /\ Size[text[c]] = 0

\* Whoever may still archive does so before the latest call links an extract: it
\* is ahead of that call in the queue, or will be when that call has stored the
\* Document's hash.
ArchivesFirst(l) ==
  /\ pc[l] \in Awaiting \cup {"answered"}
  /\ \A d \in Calls \ {l} : pc[d] = "upsert" => pc[l] = "upsert" /\ d \in ahead[l]
  /\ \A d \in Calls \ {l} : pc[d] = "archive" =>
       Unlinked(l) /\ (pc[l] \in {"archive", "extract"} => d \in ahead[l])
  /\ \A e \in derived : e[1] = l => ~ Unlinked(l)

\* What the latest call has written.
WritesAll(l) ==
  /\ pc[l] = "upsert" => (landed /\ Holds(l) => hashes # {})
  /\ pc[l] # "upsert" => hashes # {}
  /\ pc[l] \in Chunking => \A i \in 1 .. (chunk[l] - 1) : <<l, i>> \in derived \cap queued
  /\ pc[l] = "derive" /\ landed /\ Holds(l) => <<l, chunk[l]>> \in derived
  /\ pc[l] = "answered" => \A i \in 1 .. Size[text[l]] : <<l, i>> \in derived \cap queued
  /\ \A e \in archived : e[1] # l

\* What is stored is of calls that have come, and what is archived was linked.
StoresOK ==
  /\ \A e \in extracts : e[1] \in Calls /\ pc[e[1]] # "idle"
  /\ archived \subseteq derived

\* Of calls that overlap, and have not failed.
OverlapOK ==
  /\ late = {}
  /\ StoresOK
  /\ latest # None => ArchivesFirst(latest) /\ WritesAll(latest)

OverlapInv == failures = 0 => OverlapOK

\* Nothing is linked to a Document that was never stored; and what a statement
\* that was given up may still do keeps that, and StoresOK.
LateKeepsOK ==
  /\ hashes = {} => derived = {}
  /\ \A w \in late :
       /\ w.statement.extract[1] \in Calls /\ pc[w.statement.extract[1]] # "idle"
       /\ w.statement.kind = "archive" => w.on \subseteq derived
       /\ w.statement.kind = "extract" => w.on \subseteq {w.statement.extract}
       /\ w.statement.kind = "derive" => w.on = {} \/ hashes # {}

\* The old extracts are archived once the latest call has come to the new text.
OldAreArchived(l) ==
  \/ pc[l] = "upsert" /\ (known[l] = None => derived = {})
  \/ pc[l] = "archive" /\ (landed => derived \subseteq archived)
  \/ pc[l] \in Chunking \cup {"answered"} /\ \A e \in derived \ archived : e[1] = l

\* The latest call runs alone, on the file as it was when the call came.
AloneOK(l) ==
  /\ InFlight \subseteq {l}
  /\ pc[l] \in Awaiting => hash[l] = file
  /\ pc[l] \in Chunking \cup {"answered"} => text[l] = hash[l]
  /\ pc[l] # "upsert" \/ landed => hashes = {hash[l]}
  /\ OldAreArchived(l)
  /\ \A e \in derived : e[1] = l =>
       pc[l] \in Chunking \cup {"answered"} /\ e \in ExtractsOf(l)

UndisturbedInv ==
  /\ StoresOK /\ LateKeepsOK
  /\ latest # None => pc[latest] # "idle"
  /\ ~ disturbed /\ latest # None => OverlapOK /\ AloneOK(latest)

-----------------------------------------------------------------------------
(***************************************************************************)
(* Types, and what is stored.                                              *)
(***************************************************************************)

\* A call moves in the queue, and its place is what its pc says.
LEMMA CallMoves ==
  ASSUME QueueOK, inside = InFlight, pc \in [Calls -> {"idle"} \cup Awaiting \cup Ended],
         NEW c \in Calls, NEW next \in Awaiting \cup Ended, GoesTo(c, next),
         landed' \in BOOLEAN, landed' => landed /\ ~ Holds(c)
  PROVE  /\ QueueOK' /\ inside' = InFlight'
         /\ pc' = [pc EXCEPT ![c] = next]
         /\ pc' \in [Calls -> {"idle"} \cup Awaiting \cup Ended]
         /\ \A d \in Calls : landed' /\ Holds(d)' => d # c /\ Holds(d)
<1>1. pc' = [pc EXCEPT ![c] = next] /\ Moves(c, next \in Awaiting)
  BY DEF GoesTo
<1>2. PICK asks \in BOOLEAN : Moves(c, asks)
  <2>1. CASE next \in Awaiting
    <3>1. Moves(c, TRUE)
      BY <1>1, <2>1 DEF Moves
    <3> QED
      BY <3>1
  <2>2. CASE next \notin Awaiting
    <3>1. Moves(c, FALSE)
      BY <1>1, <2>2 DEF Moves
    <3> QED
      BY <3>1
  <2> QED
    BY <2>1, <2>2
<1>3. /\ QueueOK'
      /\ \A d \in Calls : landed' /\ Holds(d)' => d # c /\ Holds(d)
  BY <1>2, MovesKeepsQueue
<1>4. inside' = InFlight'
  BY <1>1 DEF Moves, InFlight
<1> QED
  BY <1>1, <1>3, <1>4

\* A statement commits: nothing that is stored or derived goes away.
LEMMA WritesGrow ==
  ASSUME NEW w, NEW on, Writes(w, on)
  PROVE  /\ extracts \subseteq extracts' /\ derived \subseteq derived'
         /\ w.kind # "derive" => derived' = derived
         /\ w.kind # "extract" => extracts' = extracts
         /\ w.kind = "extract" => extracts' = extracts \cup on
         /\ w.kind = "derive" => derived' = derived \cup on
         /\ w.kind # "archive" => archived' = archived
         /\ w.kind = "archive" => archived' = archived \cup on
BY DEF Writes

LEMMA CommitKeepsInv ==
  ASSUME IngestInv, NEW w, NEW on, Writes(w, on), QueueOK',
         w.kind = "upsert" => w.value \in Contents,
         w.kind = "derive" => on \subseteq extracts,
         UNCHANGED <<file, pc, local, inside, queued, latest, disturbed, failures>>,
         \A v \in late' : v \in late,
         \A c \in Calls : pc[c] = "extract" /\ landed' /\ Holds(c)' =>
           (landed /\ Holds(c)) \/ <<c, chunk[c]>> \in extracts'
  PROVE  IngestInv'
<1>1. /\ file' = file /\ pc' = pc /\ hash' = hash /\ known' = known /\ text' = text
      /\ chunk' = chunk /\ inside' = inside /\ queued' = queued /\ latest' = latest
      /\ disturbed' = disturbed /\ failures' = failures
  BY DEF local
<1>2. TypeOK'
  <2>1. InFlight' = InFlight
    BY <1>1 DEF InFlight
  <2>2. hashes' \subseteq Contents
    BY DEF IngestInv, TypeOK, Writes
  <2>3. derived' \subseteq extracts'
    BY WritesGrow DEF IngestInv, TypeOK
  <2> QED
    BY <1>1, <2>1, <2>2, <2>3 DEF IngestInv, TypeOK
<1>3. CallsOK'
  BY <1>1 DEF IngestInv, CallsOK
<1>4. StoredFirst'
  BY <1>1, WritesGrow DEF IngestInv, StoredFirst
<1>5. LateOK'
  BY WritesGrow DEF IngestInv, LateOK
<1>6. QueuedAreStored'
  BY <1>1, WritesGrow DEF IngestInv, QueuedAreStored
<1> QED
  BY <1>2, <1>3, <1>4, <1>5, <1>6 DEF IngestInv

LEMMA LandKeepsInv ==
  ASSUME IngestInv, NEW c \in Calls, Land(c)
  PROVE  IngestInv'
<1> DEFINE w == Statement(c)
<1>1. Lands(c) /\ Writes(w, Selects(w)) /\ late' = late /\ inside' = inside
  BY DEF Land, Lands
<1>2. QueueOK' /\ \A d \in Calls : Holds(d)' => d = c
  BY <1>1, LandsKeepsQueue DEF IngestInv, TypeOK
<1>3. c \in InFlight /\ w.kind = pc[c] /\ w.value = hash[c] /\ w.extract = <<c, chunk[c]>>
  BY <1>1 DEF IngestInv, TypeOK, Lands, Holds, Statement
<1>4. w.kind = "upsert" => w.value \in Contents
  BY <1>3 DEF IngestInv, CallsOK, InFlight
<1>5. w.kind = "derive" => Selects(w) \subseteq extracts
  BY DEF Selects
<1>6. pc[c] = "extract" => <<c, chunk[c]>> \in extracts'
  BY <1>1, <1>3 DEF Writes, Selects
<1> HIDE DEF w
<1> QED
  BY <1>1, <1>2, <1>4, <1>5, <1>6, CommitKeepsInv DEF Land

LEMMA LandLateKeepsInv ==
  ASSUME IngestInv, NEW w \in late, LandLate(w)
  PROVE  IngestInv'
<1>1. PICK on \in {w.on, Selects(w.statement)} : Writes(w.statement, on)
  BY DEF LandLate
<1>2. late' = late \ {w} /\ inside' = inside /\ ahead' = ahead /\ landed' = landed
  BY DEF LandLate, LandsLate
<1>3. QueueOK' /\ \A d \in Calls : Holds(d)' => Holds(d)
  BY <1>2 DEF IngestInv, TypeOK, QueueOK, Holds
<1>4. w.statement.kind = "upsert" => w.statement.value \in Contents
  BY DEF IngestInv, LateOK
<1>5. w.statement.kind = "derive" => on \subseteq extracts
  BY DEF IngestInv, LateOK, Selects
<1> QED
  BY <1>1, <1>2, <1>3, <1>4, <1>5, CommitKeepsInv DEF LandLate

\* A call goes on, and nothing in the graph changes.
LEMMA GoingOnKeepsInv ==
  ASSUME IngestInv, NEW c \in Calls, NEW next \in Awaiting \cup Ended, GoesTo(c, next),
         landed' \in BOOLEAN, landed' => landed /\ ~ Holds(c),
         late' \in {late, late \cup {[statement |-> Statement(c), on |-> Selects(Statement(c))]}},
         late' # late => pc[c] \in Awaiting,
         UNCHANGED <<file, graph>>,
         NEW h \in Contents \cup {None}, hash' = [hash EXCEPT ![c] = h],
         next \in Awaiting => h \in Contents,
         known' \in [Calls -> Contents \cup {None}],
         NEW x \in Contents \cup {None}, text' = [text EXCEPT ![c] = x],
         NEW k \in Nat, chunk' = [chunk EXCEPT ![c] = k],
         x = None => k = 0, x # None => k <= Size[x],
         next \in {"upsert", "archive"} => x = None,
         next \in Chunking => x # None /\ k >= 1,
         next = "answered" => x # None,
         next = "derive" => <<c, k>> \in extracts,
         queued' \subseteq extracts,
         latest' \in Calls \cup {None}, disturbed' \in BOOLEAN, failures' \in 0 .. MaxFailures
  PROVE  IngestInv'
<1>1. /\ QueueOK' /\ inside' = InFlight'
      /\ pc' = [pc EXCEPT ![c] = next]
      /\ pc' \in [Calls -> {"idle"} \cup Awaiting \cup Ended]
      /\ \A d \in Calls : landed' /\ Holds(d)' => d # c /\ Holds(d)
  BY CallMoves DEF IngestInv, TypeOK
<1>2. /\ file' = file /\ hashes' = hashes /\ extracts' = extracts /\ derived' = derived
      /\ archived' = archived
  BY DEF graph
<1>3. next # "idle"
  BY DEF Awaiting, Ended
<1>4. TypeOK'
  <2>1. {hash', known', text'} \subseteq [Calls -> Contents \cup {None}]
    BY DEF IngestInv, TypeOK
  <2>2. \A d \in Calls : /\ text'[d] # None => chunk'[d] <= Size[text'[d]]
                         /\ text'[d] = None => chunk'[d] = 0
    BY DEF IngestInv, TypeOK
  <2>3. chunk' \in [Calls -> Nat]
    BY DEF IngestInv, TypeOK
  <2> QED
    BY <1>1, <1>2, <2>1, <2>2, <2>3 DEF IngestInv, TypeOK, QueueOK
<1>5. CallsOK'
  <2>1. k \in Nat /\ (x # None => Size[x] \in Nat)
    BY DocumentIngestAssumption
  <2>2. /\ hash \in [Calls -> Contents \cup {None}] /\ text \in [Calls -> Contents \cup {None}]
        /\ chunk \in [Calls -> Nat] /\ pc \in [Calls -> {"idle"} \cup Awaiting \cup Ended]
    BY DEF IngestInv, TypeOK
  <2>3. ASSUME NEW d \in Calls, d # c
        PROVE  pc'[d] = pc[d] /\ hash'[d] = hash[d] /\ text'[d] = text[d] /\ chunk'[d] = chunk[d]
    BY <1>1, <2>2, <2>3
  <2>4. pc'[c] = next /\ hash'[c] = h /\ text'[c] = x /\ chunk'[c] = k
    BY <1>1, <2>2
  <2> QED
    BY <1>3, <2>1, <2>3, <2>4 DEF IngestInv, CallsOK
<1>6. StoredFirst'
  <2>1. ASSUME NEW d \in Calls, d # c
        PROVE  pc'[d] = pc[d] /\ chunk'[d] = chunk[d]
    BY <1>1, <2>1 DEF IngestInv, TypeOK
  <2>2. pc'[c] = next /\ chunk'[c] = k
    BY <1>1 DEF IngestInv, TypeOK
  <2> QED
    BY <1>1, <1>2, <2>1, <2>2 DEF IngestInv, StoredFirst
<1>7. LateOK'
  <2> DEFINE v == [statement |-> Statement(c), on |-> Selects(Statement(c))]
  <2>1. /\ v.statement.kind = pc[c] /\ v.statement.value = hash[c]
        /\ v.statement.kind = "derive" => v.on \subseteq extracts
    BY DEF Statement, Selects
  <2>2. late' # late => (v.statement.kind = "upsert" => v.statement.value \in Contents)
    BY <2>1 DEF IngestInv, CallsOK
  <2>3. late' = late \/ late' = late \cup {v}
    OBVIOUS
  <2> HIDE DEF v
  <2> QED
    BY <1>2, <2>1, <2>2, <2>3 DEF IngestInv, LateOK
<1> QED
  BY <1>2, <1>4, <1>5, <1>6, <1>7 DEF IngestInv, QueuedAreStored

\* The awaited write of call c returned or raised: what GoingOnKeepsInv asks.
LEMMA SettlesQueue ==
  ASSUME IngestInv, NEW c \in Calls, Returns(c) \/ Raised(c), pc[c] \in Awaiting
  PROVE  /\ landed' \in BOOLEAN /\ (landed' => landed /\ ~ Holds(c))
         /\ late' \in {late, late \cup {[statement |-> Statement(c),
                                         on |-> Selects(Statement(c))]}}
BY DEF IngestInv, TypeOK, QueueOK, Returns, Raised, Raises

\* The count of the failures stays in its range.
LEMMA FailsIsTyped ==
  ASSUME IngestInv, NEW n \in Nat, Fails(n)
  PROVE  disturbed' \in BOOLEAN /\ failures' \in 0 .. MaxFailures
<1> DEFINE some == n > 0
<1>1. disturbed \in BOOLEAN /\ failures \in 0 .. MaxFailures
  BY DEF IngestInv, TypeOK
<1>2. failures' \in 0 .. MaxFailures
  BY <1>1, DocumentIngestAssumption DEF Fails
<1>3. disturbed' = (disturbed \/ some)
  BY DEF Fails
<1> HIDE DEF some
<1> QED
  BY <1>2, <1>3

LEMMA SettlesFails ==
  ASSUME IngestInv, NEW c \in Calls, NEW n \in Nat, Settles(c, n)
  PROVE  /\ Returns(c) \/ Raised(c)
         /\ disturbed' \in BOOLEAN /\ failures' \in 0 .. MaxFailures
<1>1. CASE Returns(c) /\ Fails(n)
  BY <1>1, FailsIsTyped
<1>2. CASE Raised(c) /\ Fails(n + 1)
  BY <1>2, FailsIsTyped
<1> QED
  BY <1>1, <1>2 DEF Settles

\* A call arrives: nothing of it is in the queue.
LEMMA ArrivesKeepsInv ==
  ASSUME IngestInv, NEW c \in Calls, NEW found \in Contents \cup {None}, Arrives(c, found),
         disturbed' \in BOOLEAN, failures' \in 0 .. MaxFailures
  PROVE  IngestInv'
<1>1. /\ pc[c] = "idle" /\ hash' = [hash EXCEPT ![c] = file] /\ file \in Contents
      /\ known' = [known EXCEPT ![c] = found]
      /\ UNCHANGED <<file, text, chunk, landed, late, graph, queued>>
  BY DEF Arrives, IngestInv, TypeOK
<1>2. text[c] = None /\ chunk[c] = 0 /\ text' = [text EXCEPT ![c] = None]
      /\ chunk' = [chunk EXCEPT ![c] = 0]
  BY <1>1 DEF IngestInv, TypeOK, CallsOK
<1>3. ~ Holds(c) /\ landed \in BOOLEAN
  BY <1>1 DEF IngestInv, TypeOK, QueueOK, Holds, InFlight, Awaiting
<1>4. PICK next \in {"current", "upsert"} : GoesTo(c, next)
  BY DEF Arrives
<1>5. next \in Awaiting \cup Ended /\ next \notin {"answered", "archive", "extract", "derive"}
  BY <1>4 DEF Awaiting, Ended
<1>6. latest' \in Calls \cup {None} /\ known' \in [Calls -> Contents \cup {None}]
  BY <1>1 DEF Arrives, IngestInv, TypeOK
<1>7. queued' \subseteq extracts
  BY <1>1 DEF IngestInv, QueuedAreStored
<1>8. /\ late' \in {late, late \cup {[statement |-> Statement(c),
                                      on |-> Selects(Statement(c))]}}
      /\ late' # late => pc[c] \in Awaiting
      /\ landed' \in BOOLEAN /\ (landed' => landed /\ ~ Holds(c))
  BY <1>1, <1>3
<1>9. next \in Awaiting => file \in Contents
  BY <1>1
<1>10. UNCHANGED <<file, graph>> /\ file \in Contents \cup {None}
  BY <1>1
<1>11. 0 \in Nat /\ None \in Contents \cup {None} /\ ~ (next \in Chunking)
  BY <1>5 DEF Chunking
<1> HIDE DEF Chunking
<1> QED
  BY <1>1, <1>2, <1>4, <1>5, <1>6, <1>7, <1>8, <1>9, <1>10, <1>11, GoingOnKeepsInv

\* A call goes on with what it has computed, and its text as it was or as it is.
LEMMA ReadsTextKeepsInv ==
  ASSUME IngestInv, NEW c \in Calls, pc[c] \in {"upsert", "archive"},
         Returns(c) \/ Raised(c),
         disturbed' \in BOOLEAN, failures' \in 0 .. MaxFailures,
         UNCHANGED <<file, hash, known, graph, queued, latest>>,
         \/ ReadsText(c)
         \/ UNCHANGED <<text, chunk>> /\ (GoesTo(c, "archive") \/ GoesTo(c, "error"))
         \/ GoesTo(c, "raised") /\ text' = [text EXCEPT ![c] = file] /\ UNCHANGED chunk
  PROVE  IngestInv'
<1>1. /\ pc[c] \in Awaiting /\ hash[c] \in Contents /\ text[c] = None /\ chunk[c] = 0
      /\ file \in Contents /\ Size[file] \in Nat
  BY DocumentIngestAssumption DEF IngestInv, TypeOK, CallsOK, Awaiting
<1>2. /\ landed' \in BOOLEAN /\ (landed' => landed /\ ~ Holds(c))
      /\ late' \in {late, late \cup {[statement |-> Statement(c),
                                      on |-> Selects(Statement(c))]}}
  BY <1>1, SettlesQueue
<1>3. /\ hash' = [hash EXCEPT ![c] = hash[c]] /\ known' \in [Calls -> Contents \cup {None}]
      /\ latest' \in Calls \cup {None} /\ queued' \subseteq extracts
  BY DEF IngestInv, TypeOK, QueuedAreStored
<1>4. text \in [Calls -> Contents \cup {None}] /\ chunk \in [Calls -> Nat]
  BY DEF IngestInv, TypeOK
<1>5. PICK next \in {"archive", "error", "raised", "answered", "extract"},
           x \in {None, file}, k \in {0, 1} :
        /\ GoesTo(c, next)
        /\ text' = [text EXCEPT ![c] = x] /\ chunk' = [chunk EXCEPT ![c] = k]
        /\ x = None => k = 0
        /\ x = file => k <= Size[file]
        /\ next = "archive" => x = None
        /\ next = "extract" => x = file /\ k = 1
        /\ next = "answered" => x = file
  <2>1. CASE ReadsText(c)
    <3>1. CASE Size[file] = 0
      BY <1>1, <1>4, <2>1, <3>1 DEF ReadsText
    <3>2. CASE Size[file] # 0
      <4>1. /\ GoesTo(c, "extract") /\ text' = [text EXCEPT ![c] = file]
            /\ chunk' = [chunk EXCEPT ![c] = 1] /\ 1 <= Size[file]
        BY <1>1, <2>1, <3>2 DEF ReadsText
      <4>2. /\ 1 \in {0, 1} /\ file \in {None, file}
            /\ "extract" \in {"archive", "error", "raised", "answered", "extract"}
            /\ "extract" \notin {"archive", "answered"}
            /\ file # None
        BY <1>1, DocumentIngestAssumption
      <4> QED
        BY <1>1, <4>1, <4>2
    <3> QED
      BY <3>1, <3>2
  <2>2. CASE UNCHANGED <<text, chunk>> /\ (GoesTo(c, "archive") \/ GoesTo(c, "error"))
    BY <1>1, <1>4, <2>2
  <2>3. CASE GoesTo(c, "raised") /\ text' = [text EXCEPT ![c] = file] /\ UNCHANGED chunk
    BY <1>1, <1>4, <2>3
  <2> QED
    BY <2>1, <2>2, <2>3
<1>6. None \notin Contents
  BY DocumentIngestAssumption
<1>7. next \in Awaiting \cup Ended /\ k \in Nat /\ x \in Contents \cup {None}
  BY <1>1, <1>5 DEF Awaiting, Ended
<1>8. /\ next \in Awaiting => hash[c] \in Contents
      /\ x # None => k <= Size[x]
      /\ next \in {"upsert", "archive"} => x = None
      /\ next \in Chunking => x # None /\ k >= 1
      /\ next = "answered" => x # None
      /\ next = "derive" => <<c, k>> \in extracts
  BY <1>1, <1>5, <1>6 DEF Chunking
<1>9. UNCHANGED <<file, graph>> /\ hash[c] \in Contents \cup {None}
  BY <1>1
<1> QED
  BY <1>1, <1>2, <1>3, <1>5, <1>7, <1>8, <1>9, GoingOnKeepsInv

LEMMA ChunkKeepsInv ==
  ASSUME IngestInv, NEW c \in Calls, pc[c] \in Chunking,
         Returns(c) \/ Raised(c),
         disturbed' \in BOOLEAN, failures' \in 0 .. MaxFailures,
         UNCHANGED <<file, hash, known, text, graph, latest>>,
         queued' \subseteq extracts,
         \/ NextChunk(c)
         \/ GoesTo(c, "derive") /\ UNCHANGED chunk /\ <<c, chunk[c]>> \in extracts
  PROVE  IngestInv'
<1>1. /\ pc[c] \in Awaiting /\ hash[c] \in Contents /\ text[c] \in Contents
      /\ chunk[c] \in 1 .. Size[text[c]] /\ text[c] # None /\ Size[text[c]] \in Nat
  BY DocumentIngestAssumption DEF IngestInv, CallsOK, Awaiting, Chunking
<1>2. /\ landed' \in BOOLEAN /\ (landed' => landed /\ ~ Holds(c))
      /\ late' \in {late, late \cup {[statement |-> Statement(c),
                                      on |-> Selects(Statement(c))]}}
  BY <1>1, SettlesQueue
<1>3. /\ hash' = [hash EXCEPT ![c] = hash[c]] /\ text' = [text EXCEPT ![c] = text[c]]
      /\ known' \in [Calls -> Contents \cup {None}] /\ latest' \in Calls \cup {None}
  BY DEF IngestInv, TypeOK
<1>4. PICK next \in {"extract", "derive", "answered"}, k \in Nat :
        /\ GoesTo(c, next) /\ chunk' = [chunk EXCEPT ![c] = k]
        /\ k \in 1 .. Size[text[c]]
        /\ next = "derive" => <<c, k>> \in extracts
  <2>1. chunk = [chunk EXCEPT ![c] = chunk[c]]
    BY DEF IngestInv, TypeOK
  <2>2. CASE NextChunk(c) /\ chunk[c] < Size[text[c]]
    BY <1>1, <2>2 DEF NextChunk
  <2>3. CASE NextChunk(c) /\ ~ (chunk[c] < Size[text[c]])
    BY <1>1, <2>1, <2>3 DEF NextChunk
  <2>4. CASE GoesTo(c, "derive") /\ UNCHANGED chunk /\ <<c, chunk[c]>> \in extracts
    BY <1>1, <2>1, <2>4
  <2> QED
    BY <2>2, <2>3, <2>4
<1>5. next \in Awaiting \cup Ended /\ next \notin {"upsert", "archive"}
  BY <1>4 DEF Awaiting, Ended
<1>6. k >= 1 /\ k <= Size[text[c]]
  BY <1>1, <1>4
<1>7. UNCHANGED <<file, graph>>
  OBVIOUS
<1> QED
  BY <1>1, <1>2, <1>3, <1>4, <1>5, <1>6, <1>7, GoingOnKeepsInv

LEMMA CallKeepsInv ==
  ASSUME IngestInv, NEW c \in Calls, Call(c)
  PROVE  IngestInv'
<1>1. CASE Begin(c)
  <2>1. PICK found \in Contents \cup {None} : Arrives(c, found)
    BY <1>1 DEF Begin, IngestInv, TypeOK
  <2>2. disturbed' \in BOOLEAN /\ failures' \in 0 .. MaxFailures
    BY <1>1 DEF Begin, Quiet, IngestInv, TypeOK
  <2> QED
    BY <2>1, <2>2, ArrivesKeepsInv
<1>2. CASE BeginBlind(c)
  <2>1. disturbed' \in BOOLEAN /\ failures' \in 0 .. MaxFailures
    BY <1>2, FailsIsTyped DEF BeginBlind
  <2> QED
    BY <1>2, <2>1, ArrivesKeepsInv DEF BeginBlind
<1>3. CASE Upserted(c) \/ Archived(c)
  <2>1. Settles(c, 0)
    BY <1>3 DEF Upserted, Archived
  <2> QED
    BY <1>3, <2>1, SettlesFails, ReadsTextKeepsInv DEF Upserted, Archived
<1>4. CASE ReadingFails(c)
  <2>1. Settles(c, 1)
    BY <1>4 DEF ReadingFails
  <2> QED
    BY <1>4, <2>1, SettlesFails, ReadsTextKeepsInv DEF ReadingFails
<1>5. CASE ExtractCreated(c) \/ ExtractLinked(c) \/ ChunkFails(c)
  <2>1. /\ pc[c] \in Chunking /\ (Returns(c) \/ Raised(c))
        /\ UNCHANGED <<file, hash, known, text, graph, latest>>
    BY <1>5 DEF ExtractCreated, ExtractLinked, ChunkFails, Chunking, local
  <2>2. disturbed' \in BOOLEAN /\ failures' \in 0 .. MaxFailures
    BY <1>5, FailsIsTyped DEF ExtractCreated, ExtractLinked, ChunkFails
  <2>3. queued' \subseteq extracts
    BY <1>5 DEF ExtractCreated, ExtractLinked, ChunkFails, IngestInv, QueuedAreStored,
                StoredFirst
  <2>4. \/ NextChunk(c)
        \/ GoesTo(c, "derive") /\ UNCHANGED chunk /\ <<c, chunk[c]>> \in extracts
    BY <1>5 DEF ExtractCreated, ExtractLinked, ChunkFails, IngestInv, StoredFirst,
                Returns, local
  <2> QED
    BY <2>1, <2>2, <2>3, <2>4, ChunkKeepsInv
<1> QED
  BY <1>1, <1>2, <1>3, <1>4, <1>5 DEF Call

LEMMA CrashKeepsInv ==
  ASSUME IngestInv, Crash
  PROVE  IngestInv'
<1>1. /\ pc' = [c \in Calls |-> IF c \in InFlight THEN "lost" ELSE pc[c]]
      /\ inside' = {} /\ landed' = FALSE /\ late' = {} /\ QueueOK'
      /\ file' = file /\ hash' = hash /\ known' = known /\ text' = text /\ chunk' = chunk
      /\ hashes' = hashes /\ extracts' = extracts /\ derived' = derived
      /\ queued' = queued /\ latest' = latest
  BY LostQueueIsOK DEF Crash, QueueLost, local, graph
<1>2. InFlight' = {} /\ pc' \in [Calls -> {"idle"} \cup Awaiting \cup Ended]
  BY <1>1 DEF InFlight, Awaiting, Ended, IngestInv, TypeOK
<1>3. TypeOK'
  <2>1. failures' \in 0 .. MaxFailures /\ disturbed' \in BOOLEAN
    BY FailsIsTyped DEF Crash
  <2> QED
    BY <1>1, <1>2, <2>1 DEF IngestInv, TypeOK
<1>4. CallsOK'
  BY <1>1 DEF IngestInv, CallsOK, TypeOK, InFlight, Awaiting, Chunking
<1>5. StoredFirst' /\ LateOK'
  BY <1>1 DEF IngestInv, StoredFirst, LateOK, InFlight, Awaiting
<1> QED
  BY <1>1, <1>3, <1>4, <1>5 DEF IngestInv, QueuedAreStored

LEMMA EditKeepsInv ==
  ASSUME IngestInv, NEW v \in Contents, Edit(v)
  PROVE  IngestInv'
<1>1. /\ file' \in Contents /\ disturbed' \in BOOLEAN
      /\ pc' = pc /\ hash' = hash /\ known' = known /\ text' = text /\ chunk' = chunk
      /\ inside' = inside /\ ahead' = ahead /\ landed' = landed /\ late' = late
      /\ hashes' = hashes /\ extracts' = extracts /\ derived' = derived
      /\ queued' = queued /\ latest' = latest /\ failures' = failures
  BY DEF Edit, local, queue, graph, IngestInv, TypeOK
<1>2. TypeOK' /\ CallsOK'
  BY <1>1 DEF IngestInv, TypeOK, CallsOK, QueueOK, Holds, InFlight
<1> QED
  BY <1>1, <1>2 DEF IngestInv, StoredFirst, LateOK, QueuedAreStored, Holds

LEMMA StutterKeepsInv ==
  ASSUME IngestInv, UNCHANGED vars
  PROVE  IngestInv'
<1>1. /\ file' = file /\ disturbed' = disturbed
      /\ pc' = pc /\ hash' = hash /\ known' = known /\ text' = text /\ chunk' = chunk
      /\ inside' = inside /\ ahead' = ahead /\ landed' = landed /\ late' = late
      /\ hashes' = hashes /\ extracts' = extracts /\ derived' = derived
      /\ queued' = queued /\ latest' = latest /\ failures' = failures
  BY DEF vars, local, queue, graph
<1>2. TypeOK' /\ CallsOK'
  BY <1>1 DEF IngestInv, TypeOK, CallsOK, QueueOK, Holds, InFlight
<1> QED
  BY <1>1, <1>2 DEF IngestInv, StoredFirst, LateOK, QueuedAreStored, Holds

LEMMA InitIngestInv == Init => IngestInv
<1> SUFFICES ASSUME Init PROVE IngestInv
  OBVIOUS
<1>1. QueueOK /\ inside = {} /\ InFlight = {}
  BY InitQueueIsOK DEF Init, QueueInit, InFlight, Awaiting
<1>2. {hash, known, text} \subseteq [Calls -> Contents \cup {None}]
      /\ \A c \in Calls : text[c] = None /\ chunk[c] = 0
  BY DEF Init
<1>3. /\ file \in Contents /\ pc \in [Calls -> {"idle"} \cup Awaiting \cup Ended]
      /\ chunk \in [Calls -> Nat]
      /\ hashes \subseteq Contents /\ derived \subseteq extracts
      /\ latest \in Calls \cup {None} /\ disturbed \in BOOLEAN
  BY DEF Init
<1>4. failures \in 0 .. MaxFailures
  BY DocumentIngestAssumption DEF Init
<1>5. TypeOK
  BY <1>1, <1>2, <1>3, <1>4 DEF TypeOK
<1> QED
  BY <1>1, <1>2, <1>5
  DEF Init, QueueInit, IngestInv, CallsOK, StoredFirst, LateOK, QueuedAreStored, Awaiting, Chunking

LEMMA NextKeepsInv ==
  ASSUME IngestInv, [Next]_vars
  PROVE  IngestInv'
BY CallKeepsInv, LandKeepsInv, LandLateKeepsInv, EditKeepsInv, CrashKeepsInv, StutterKeepsInv
DEF Next

\* IngestInv is an invariant, and with it the types of the call's local
\* variables, of the queue for the lock and of the graph (ingest_document).
THEOREM IngestSafety == Spec => []IngestInv
<1>1. Init => IngestInv
  BY InitIngestInv
<1>2. IngestInv /\ [Next]_vars => IngestInv'
  BY NextKeepsInv
<1> QED
  BY <1>1, <1>2, PTL DEF Spec

\* The Loop is only handed extracts that are in the graph (push_to_loop_queue
\* follows the two writes of its chunk), for any calls, contents and failures.
THEOREM QueuedExtractsAreStored == Spec => []QueuedAreStored
<1>1. IngestInv => QueuedAreStored
  BY DEF IngestInv
<1> QED
  BY <1>1, IngestSafety, PTL

-----------------------------------------------------------------------------
(***************************************************************************)
(* The latest of calls that overlap and do not fail.                       *)
(***************************************************************************)

\* What the latest call has written is what is neither taken from it nor put in
\* doubt by a step that leaves its own variables alone.
LEMMA LandKeepsOverlap ==
  ASSUME IngestInv, OverlapOK, NEW c \in Calls, Land(c)
  PROVE  OverlapOK'
<1> DEFINE w == Statement(c)
<1>1. /\ Holds(c) /\ ~ landed /\ landed' = TRUE /\ Writes(w, Selects(w)) /\ late' = late
      /\ inside' = inside /\ ahead' = ahead /\ pc' = pc /\ text' = text /\ chunk' = chunk
      /\ queued' = queued /\ latest' = latest
  BY DEF Land, Lands, local
<1>2. c \in InFlight /\ pc[c] \in Awaiting
  BY <1>1 DEF Holds, IngestInv, TypeOK, InFlight
<1>3. \A d \in Calls : Holds(d)' => d = c
  BY <1>1, OneHolder DEF IngestInv, TypeOK, Holds
<1>4. w.kind = pc[c] /\ w.extract = <<c, chunk[c]>>
  BY DEF Statement
<1>5. extracts' = IF pc[c] = "extract" THEN extracts \cup {<<c, chunk[c]>>} ELSE extracts
  BY <1>1, <1>4 DEF Writes, Selects
<1>6. archived' = IF pc[c] = "archive" THEN archived \cup derived ELSE archived
  BY <1>1, <1>4 DEF Writes, Selects
<1>7. \/ derived' = derived
      \/ derived' = derived \cup {<<c, chunk[c]>>} /\ pc[c] = "derive"
  BY <1>1, <1>4 DEF Writes, Selects
<1>8. pc[c] = "derive" /\ hashes # {} => <<c, chunk[c]>> \in derived'
  BY <1>1, <1>4 DEF Writes, Selects, IngestInv, StoredFirst
<1>9. hashes # {} \/ pc[c] = "upsert" => hashes' # {}
  BY <1>1, <1>4 DEF Writes, Selects
<1> HIDE DEF w
<1>10. late' = {} /\ archived' \subseteq derived'
  BY <1>1, <1>6, <1>7 DEF OverlapOK, StoresOK
<1>11. \A e \in extracts' : e[1] \in Calls /\ pc'[e[1]] # "idle"
  <2>1. \A e \in extracts' : e \in extracts \/ e = <<c, chunk[c]>>
    BY <1>5
  <2> QED
    BY <1>1, <1>2, <2>1 DEF OverlapOK, StoresOK, Awaiting
<1>12. ASSUME latest # None
       PROVE  ArchivesFirst(latest)' /\ WritesAll(latest)'
  <2>1. latest \in Calls /\ latest' = latest /\ ArchivesFirst(latest) /\ WritesAll(latest)
    BY <1>1, <1>12 DEF OverlapOK, StoresOK, IngestInv, TypeOK
  <2>2. \A e \in derived' : e[1] = latest => ~ Unlinked(latest)
    <3>1. \A e \in derived' : e \in derived \/ (e = <<c, chunk[c]>> /\ pc[c] = "derive")
      BY <1>7
    <3> QED
      BY <2>1, <3>1 DEF ArchivesFirst, Unlinked
  <2>3. \A e \in archived' : e[1] # latest
    <3>1. pc[c] = "archive" => Unlinked(latest)
      BY <2>1 DEF ArchivesFirst, Unlinked
    <3>2. pc[c] = "archive" => \A e \in derived : e[1] # latest
      BY <2>1, <3>1 DEF ArchivesFirst
    <3> QED
      BY <1>6, <2>1, <3>2 DEF WritesAll
  <2>4. ArchivesFirst(latest)'
    BY <1>1, <2>1, <2>2 DEF ArchivesFirst, Unlinked
  <2>5. WritesAll(latest)'
    BY <1>1, <1>3, <1>7, <1>8, <1>9, <2>1, <2>3 DEF WritesAll, Holds
  <2> QED
    BY <2>4, <2>5
<1> QED
  BY <1>1, <1>10, <1>11, <1>12 DEF OverlapOK, StoresOK

\* A call's awaited write returned and it goes on.  Nothing changes in the graph.
LEMMA ReturnsFacts ==
  ASSUME IngestInv, OverlapOK, NEW c \in Calls, Returns(c),
         NEW next \in (Awaiting \cup Ended) \ {"upsert"}, GoesTo(c, next)
  PROVE  /\ pc[c] \in Awaiting /\ ahead[c] = {} /\ late' = {} /\ landed' = FALSE
         /\ pc' = [pc EXCEPT ![c] = next] /\ pc'[c] = next
         /\ \A d \in Calls \ {c} : pc'[d] = pc[d] /\ ahead'[d] = ahead[d] \ {c}
         /\ next \in Awaiting =>
              \A d \in Calls \ {c} : pc[d] \in Awaiting => d \in ahead'[c]
         /\ \A e \in extracts : e[1] \in Calls /\ pc'[e[1]] # "idle"
<1>1. /\ Holds(c) /\ landed' = FALSE /\ late' = late
      /\ pc' = [pc EXCEPT ![c] = next] /\ Moves(c, next \in Awaiting)
  BY DEF Returns, GoesTo
<1>2. pc[c] \in Awaiting /\ ahead[c] = {} /\ late' = {}
  BY <1>1 DEF Holds, IngestInv, TypeOK, InFlight, OverlapOK, StoresOK
<1>3. pc'[c] = next /\ \A d \in Calls \ {c} : pc'[d] = pc[d]
  BY <1>1 DEF IngestInv, TypeOK
<1>4. \A d \in Calls \ {c} : ahead'[d] = ahead[d] \ {c}
  BY <1>1 DEF Moves
<1>5. next \in Awaiting => ahead'[c] = inside \ {c}
  BY <1>1 DEF Moves
<1>6. \A d \in Calls \ {c} : pc[d] \in Awaiting => d \in inside \ {c}
  BY DEF IngestInv, TypeOK, InFlight
<1>7. next # "idle"
  BY DEF Awaiting, Ended
<1> QED
  BY <1>1, <1>2, <1>3, <1>4, <1>5, <1>6, <1>7 DEF OverlapOK, StoresOK

LEMMA OtherGoesOn ==
  ASSUME IngestInv, OverlapOK, NEW c \in Calls, c # latest, Returns(c),
         NEW next \in (Awaiting \cup Ended) \ {"upsert"}, GoesTo(c, next),
         next = "archive" => pc[c] = "upsert",
         UNCHANGED <<graph, latest>>, queued \subseteq queued',
         \A d \in Calls \ {c} : text'[d] = text[d] /\ chunk'[d] = chunk[d]
  PROVE  OverlapOK'
<1>1. /\ hashes' = hashes /\ extracts' = extracts /\ derived' = derived
      /\ archived' = archived /\ latest' = latest
  BY DEF graph
<1>2. ASSUME latest # None
      PROVE  ArchivesFirst(latest)' /\ WritesAll(latest)'
  <2>1. /\ latest \in Calls \ {c} /\ latest' = latest
        /\ ArchivesFirst(latest) /\ WritesAll(latest)
    BY <1>1, <1>2 DEF OverlapOK, StoresOK, IngestInv, TypeOK
  <2>2. /\ pc'[latest] = pc[latest] /\ text'[latest] = text[latest]
        /\ chunk'[latest] = chunk[latest] /\ ahead'[latest] = ahead[latest] \ {c}
        /\ landed' = FALSE
    BY <2>1, ReturnsFacts
  <2>3. Unlinked(latest)' <=> Unlinked(latest)
    BY <2>1, <2>2 DEF Unlinked
  <2>. pc'[c] = next /\ next # "upsert" /\ \A d \in Calls \ {c} : pc'[d] = pc[d]
    BY ReturnsFacts
  <2>4. \A d \in Calls \ {latest} : pc'[d] = "upsert" => d # c /\ pc[d] = "upsert"
    OBVIOUS
  <2>5. \A d \in Calls \ {latest} : pc'[d] = "archive" =>
          (d # c /\ pc[d] = "archive") \/ (d = c /\ pc[c] = "upsert")
    OBVIOUS
  <2>6. pc[c] = "upsert" => pc[latest] = "upsert"
    BY <2>1 DEF ArchivesFirst
  <2>7. ArchivesFirst(latest)'
    <3>1. \A d \in Calls \ {latest} : pc'[d] = "archive" =>
            Unlinked(latest) /\ (pc[latest] \in {"archive", "extract"} => d \in ahead[latest] \ {c})
      BY <2>1, <2>5, <2>6 DEF ArchivesFirst, Unlinked
    <3>2. \A d \in Calls \ {latest} : pc'[d] = "upsert" =>
            pc[latest] = "upsert" /\ d \in ahead[latest] \ {c}
      BY <2>1, <2>4 DEF ArchivesFirst
    <3> QED
      BY <1>1, <2>1, <2>2, <2>3, <3>1, <3>2 DEF ArchivesFirst
  <2>8. WritesAll(latest)'
    BY <1>1, <2>1, <2>2 DEF WritesAll
  <2> QED
    BY <2>7, <2>8
<1> QED
  BY <1>1, <1>2, ReturnsFacts DEF OverlapOK, StoresOK

\* The latest call has the lock, so nobody is ahead of it.
LEMMA LatestGoesOn ==
  ASSUME IngestInv, OverlapOK, NEW c \in Calls, c = latest, Returns(c),
         NEW next \in {"archive", "extract", "derive", "answered"}, GoesTo(c, next),
         UNCHANGED <<graph, latest>>, queued \subseteq queued',
         \/ /\ pc[c] \in {"upsert", "archive"}
            /\ next = "archive" => pc[c] = "upsert"
            /\ next # "derive"
            /\ next = "extract" => chunk'[c] = 1
            /\ next = "answered" => Size[text'[c]] = 0
         \/ /\ pc[c] = "extract" /\ next = "derive" /\ chunk'[c] = chunk[c]
         \/ /\ pc[c] = "derive" /\ <<c, chunk[c]>> \in queued'
            /\ \/ next = "extract" /\ chunk'[c] = chunk[c] + 1
               \/ next = "answered" /\ text'[c] = text[c] /\ chunk[c] = Size[text[c]]
  PROVE  OverlapOK'
<1>1. /\ hashes' = hashes /\ extracts' = extracts /\ derived' = derived
      /\ archived' = archived /\ latest' = c
  BY DEF graph
<1>2. next \in (Awaiting \cup Ended) \ {"upsert"}
  BY DEF Awaiting, Ended
<1>3. /\ ahead[c] = {} /\ late' = {} /\ landed' = FALSE /\ pc'[c] = next
      /\ \A d \in Calls \ {c} : pc'[d] = pc[d]
      /\ next \in Awaiting => \A d \in Calls \ {c} : pc[d] \in Awaiting => d \in ahead'[c]
      /\ \A e \in extracts : e[1] \in Calls /\ pc'[e[1]] # "idle"
  BY <1>2, ReturnsFacts
<1>4. ArchivesFirst(c) /\ WritesAll(c) /\ c # None /\ Holds(c) /\ landed
  BY DocumentIngestAssumption DEF OverlapOK, StoresOK, Returns
<1>5. \A d \in Calls \ {c} : pc[d] # "upsert"
  BY <1>3, <1>4 DEF ArchivesFirst
<1>6. \A d \in Calls \ {c} : pc[d] = "archive" => pc[c] = "upsert"
  BY <1>3, <1>4 DEF ArchivesFirst, Unlinked, IngestInv, CallsOK, TypeOK, Holds, InFlight, Awaiting
<1>7. pc[c] \in Chunking => chunk[c] \in Nat \ {0} /\ Size[text[c]] \in Nat
  BY DocumentIngestAssumption DEF IngestInv, CallsOK
<1>8. pc[c] = "upsert" => Unlinked(c)' /\ Unlinked(c)
  BY <1>3 DEF Unlinked
<1>9. Unlinked(c)' => Unlinked(c)
  BY <1>3, <1>7 DEF Unlinked, Chunking
<1>10. ArchivesFirst(c)'
  <2>1. pc'[c] \in Awaiting \cup {"answered"}
    BY <1>2, <1>3 DEF Awaiting
  <2>2. \A d \in Calls \ {c} : pc'[d] # "upsert"
    BY <1>3, <1>5
  <2>3. \A d \in Calls \ {c} : pc'[d] = "archive" =>
          Unlinked(c)' /\ (pc'[c] \in {"archive", "extract"} => d \in ahead'[c])
    BY <1>3, <1>6, <1>8 DEF Awaiting
  <2>4. \A e \in derived' : e[1] = c => ~ Unlinked(c)'
    BY <1>1, <1>4, <1>9 DEF ArchivesFirst
  <2> QED
    BY <2>1, <2>2, <2>3, <2>4 DEF ArchivesFirst
<1>11. WritesAll(c)'
  <2>1. hashes # {}
    BY <1>4 DEF WritesAll
  <2>2. CASE pc[c] \in {"upsert", "archive"}
    <3>1. pc'[c] \in Chunking => chunk'[c] = 1
      BY <1>3, <2>2 DEF Chunking
    <3>2. pc'[c] = "answered" => Size[text'[c]] = 0
      BY <1>3, <2>2
    <3>3. pc'[c] # "derive" /\ landed' = FALSE
      BY <1>3, <2>2
    <3> QED
      BY <1>1, <1>4, <2>1, <3>1, <3>2, <3>3 DEF WritesAll
  <2>3. CASE pc[c] = "extract"
    <3>1. pc'[c] = "derive" /\ chunk'[c] = chunk[c] /\ landed' = FALSE
      BY <1>3, <2>3
    <3>2. \A i \in 1 .. (chunk[c] - 1) : <<c, i>> \in derived \cap queued'
      BY <1>4, <2>3 DEF WritesAll, Chunking
    <3> QED
      BY <1>1, <1>4, <2>1, <3>1, <3>2 DEF WritesAll
  <2>4. CASE pc[c] = "derive"
    <3>1. <<c, chunk[c]>> \in derived \cap queued'
      BY <1>4, <2>4 DEF WritesAll
    <3>2. \A i \in 1 .. (chunk[c] - 1) : <<c, i>> \in derived \cap queued'
      BY <1>4, <2>4 DEF WritesAll, Chunking
    <3>3. \A i \in 1 .. chunk[c] : <<c, i>> \in derived \cap queued'
      <4> SUFFICES ASSUME NEW i \in 1 .. chunk[c] PROVE <<c, i>> \in derived \cap queued'
        OBVIOUS
      <4>1. i = chunk[c] \/ i \in 1 .. (chunk[c] - 1)
        BY <1>7, <2>4 DEF Chunking
      <4> QED
        BY <3>1, <3>2, <4>1
    <3>4. /\ pc'[c] = "extract" => chunk'[c] - 1 = chunk[c]
          /\ pc'[c] = "answered" => Size[text'[c]] = chunk[c]
          /\ pc'[c] \in {"extract", "answered"}
      BY <1>3, <1>7, <2>4 DEF Chunking
    <3> QED
      BY <1>1, <1>3, <1>4, <2>1, <3>3, <3>4 DEF WritesAll, Chunking
  <2> QED
    BY <2>2, <2>3, <2>4
<1> QED
  BY <1>1, <1>3, <1>10, <1>11 DEF OverlapOK, StoresOK

\* A call arrives that finds a change: it is the latest, and all others that
\* have a write to do are ahead of it.
LEMMA LatestArrives ==
  ASSUME IngestInv, StoresOK, late = {}, NEW c \in Calls, pc[c] = "idle", GoesTo(c, "upsert"),
         UNCHANGED <<text, chunk, landed, late, graph, queued>>, latest' = c
  PROVE  OverlapOK'
<1>1. /\ hashes' = hashes /\ extracts' = extracts /\ derived' = derived
      /\ archived' = archived /\ late' = {} /\ landed' = landed
  BY DEF graph, OverlapOK, StoresOK
<1>2. /\ pc' = [pc EXCEPT ![c] = "upsert"]
      /\ Moves(c, "upsert" \in Awaiting) /\ "upsert" \in Awaiting
  BY DEF GoesTo, Awaiting
<1>3. /\ pc'[c] = "upsert" /\ ahead'[c] = inside \ {c}
      /\ \A d \in Calls \ {c} : pc'[d] = pc[d] /\ ahead'[d] = ahead[d] \ {c}
  BY <1>2 DEF Moves, IngestInv, TypeOK, QueueOK
<1>4. \A e \in extracts : e[1] \in Calls /\ pc[e[1]] # "idle" /\ e[1] # c
  BY DEF OverlapOK, StoresOK
<1>5. \A d \in Calls \ {c} : pc[d] \in Awaiting => d \in ahead'[c]
  BY <1>3 DEF IngestInv, TypeOK, InFlight
<1>6. ArchivesFirst(c)'
  BY <1>1, <1>2, <1>3, <1>4, <1>5 DEF ArchivesFirst, Unlinked, Awaiting, IngestInv, TypeOK
<1>7. ~ (landed' /\ Holds(c)')
  <2>1. landed => inside \ {c} # {}
    BY DEF IngestInv, TypeOK, QueueOK, Holds, InFlight, Awaiting
  <2> QED
    BY <1>1, <1>3, <2>1 DEF Holds
<1>8. WritesAll(c)'
  <2>1. \A e \in archived : e[1] # c
    BY <1>4 DEF OverlapOK, StoresOK, IngestInv, TypeOK
  <2> QED
    BY <1>1, <1>3, <1>7, <2>1 DEF WritesAll, Chunking
<1>9. \A e \in extracts' : e[1] \in Calls /\ pc'[e[1]] # "idle"
  BY <1>1, <1>3, <1>4
<1> QED
  BY <1>1, <1>6, <1>8, <1>9 DEF OverlapOK, StoresOK

\* A call arrives that finds none, and does nothing.
LEMMA CurrentArrives ==
  ASSUME IngestInv, OverlapOK, NEW c \in Calls, pc[c] = "idle", GoesTo(c, "current"),
         UNCHANGED <<text, chunk, landed, late, graph, queued, latest>>
  PROVE  OverlapOK'
<1>1. /\ hashes' = hashes /\ extracts' = extracts /\ derived' = derived /\ text' = text
      /\ archived' = archived /\ late' = {} /\ landed' = landed /\ chunk' = chunk
      /\ queued' = queued /\ latest' = latest
  BY DEF graph, OverlapOK, StoresOK
<1>2. /\ pc' = [pc EXCEPT ![c] = "current"]
      /\ Moves(c, "current" \in Awaiting) /\ "current" \notin Awaiting
  BY DEF GoesTo, Awaiting
<1>3. c \notin inside /\ \A d \in Calls : c \notin ahead[d]
  BY DEF IngestInv, TypeOK, QueueOK, InFlight, Awaiting
<1>4. inside' = inside /\ \A d \in Calls \ {c} : pc'[d] = pc[d] /\ ahead'[d] = ahead[d]
  BY <1>2, <1>3 DEF Moves, IngestInv, TypeOK
<1>5. pc'[c] = "current"
  BY <1>2 DEF IngestInv, TypeOK
<1>6. ASSUME latest # None
      PROVE  ArchivesFirst(latest)' /\ WritesAll(latest)'
  <2>1. latest \in Calls /\ ArchivesFirst(latest) /\ WritesAll(latest)
    BY <1>6 DEF OverlapOK, StoresOK, IngestInv, TypeOK
  <2>2. latest # c
    BY <2>1 DEF ArchivesFirst, Awaiting
  <2>3. Unlinked(latest)' <=> Unlinked(latest)
    BY <1>1, <1>4, <2>1, <2>2 DEF Unlinked
  <2>4. ArchivesFirst(latest)'
    BY <1>1, <1>4, <1>5, <2>1, <2>2, <2>3 DEF ArchivesFirst
  <2>5. WritesAll(latest)'
    BY <1>1, <1>4, <2>1, <2>2 DEF WritesAll, Holds
  <2> QED
    BY <2>4, <2>5
<1>7. \A e \in extracts' : e[1] \in Calls /\ pc'[e[1]] # "idle"
  BY <1>1, <1>4, <1>5 DEF OverlapOK, StoresOK
<1> QED
  BY <1>1, <1>6, <1>7 DEF OverlapOK, StoresOK

LEMMA CallKeepsOverlap ==
  ASSUME IngestInv, OverlapOK, failures' = failures, NEW c \in Calls, Call(c)
  PROVE  OverlapOK'
<1>1. \A n \in Nat : Fails(n) => n = 0
  BY DEF Fails, IngestInv, TypeOK
<1>2. CASE Begin(c)
  <2>1. PICK found : Arrives(c, found)
    BY <1>2 DEF Begin
  <2>2. CASE found = file
    BY <2>1, <2>2, CurrentArrives DEF Arrives
  <2>3. CASE found # file
    BY <2>1, <2>3, LatestArrives DEF Arrives, OverlapOK
  <2> QED
    BY <2>2, <2>3
<1>3. ~ BeginBlind(c) /\ ~ ReadingFails(c) /\ ~ ChunkFails(c)
  BY <1>1 DEF BeginBlind, ReadingFails, ChunkFails, Settles
<1>4. Settles(c, 0) => Returns(c)
  BY <1>1 DEF Settles
<1>5. /\ text \in [Calls -> Contents \cup {None}] /\ chunk \in [Calls -> Nat]
  BY DEF IngestInv, TypeOK
<1>6. CASE Upserted(c) \/ Archived(c)
  <2>1. Returns(c) /\ UNCHANGED <<graph, latest>> /\ queued' = queued
    BY <1>4, <1>6 DEF Upserted, Archived
  <2>2. pc[c] \in {"upsert", "archive"}
    BY <1>6 DEF Upserted, Archived
  <2>3. PICK next \in {"archive", "extract", "answered"} :
          /\ GoesTo(c, next)
          /\ next = "archive" => pc[c] = "upsert"
          /\ next = "extract" => chunk'[c] = 1
          /\ next = "answered" => Size[text'[c]] = 0
          /\ \A d \in Calls \ {c} : text'[d] = text[d] /\ chunk'[d] = chunk[d]
    <3>1. CASE ReadsText(c) /\ Size[file] = 0
      BY <1>5, <3>1 DEF ReadsText
    <3>2. CASE ReadsText(c) /\ Size[file] # 0
      BY <1>5, <3>2 DEF ReadsText
    <3>3. CASE GoesTo(c, "archive") /\ UNCHANGED <<text, chunk>> /\ pc[c] = "upsert"
      BY <3>3
    <3> QED
      BY <1>6, <3>1, <3>2, <3>3 DEF Upserted, Archived
  <2>4. next \in (Awaiting \cup Ended) \ {"upsert"}
    BY <2>3 DEF Awaiting, Ended
  <2>5. CASE c = latest
    BY <2>1, <2>2, <2>3, <2>5, LatestGoesOn
  <2>6. CASE c # latest
    BY <2>1, <2>3, <2>4, <2>6, OtherGoesOn
  <2> QED
    BY <2>5, <2>6
<1>7. CASE ExtractCreated(c)
  <2>1. /\ Returns(c) /\ GoesTo(c, "derive") /\ pc[c] = "extract"
        /\ text' = text /\ chunk' = chunk /\ queued' = queued
        /\ UNCHANGED <<graph, latest>>
    BY <1>7 DEF ExtractCreated, local
  <2>2. "derive" \in (Awaiting \cup Ended) \ {"upsert"}
    BY DEF Awaiting
  <2>3. CASE c = latest
    BY <2>1, <2>3, LatestGoesOn
  <2>4. CASE c # latest
    BY <2>1, <2>2, <2>4, OtherGoesOn
  <2> QED
    BY <2>3, <2>4
<1>8. CASE ExtractLinked(c)
  <2>1. /\ Returns(c) /\ pc[c] = "derive" /\ text' = text
        /\ queued' = queued \cup {<<c, chunk[c]>>} /\ UNCHANGED <<graph, latest>>
    BY <1>8 DEF ExtractLinked
  <2>2. chunk[c] \in 1 .. Size[text[c]] /\ Size[text[c]] \in Nat
    BY <2>1, DocumentIngestAssumption DEF IngestInv, CallsOK, Chunking
  <2>3. PICK next \in {"extract", "answered"} :
          /\ GoesTo(c, next)
          /\ next = "extract" => chunk'[c] = chunk[c] + 1
          /\ next = "answered" => chunk[c] = Size[text[c]]
          /\ \A d \in Calls \ {c} : chunk'[d] = chunk[d]
    <3>1. CASE chunk[c] < Size[text[c]]
      BY <1>5, <1>8, <3>1 DEF ExtractLinked, NextChunk
    <3>2. CASE ~ (chunk[c] < Size[text[c]])
      BY <1>5, <1>8, <2>2, <3>2 DEF ExtractLinked, NextChunk
    <3> QED
      BY <3>1, <3>2
  <2>4. next \in (Awaiting \cup Ended) \ {"upsert"}
    BY <2>3 DEF Awaiting, Ended
  <2>5. CASE c = latest
    BY <2>1, <2>3, <2>5, LatestGoesOn
  <2>6. CASE c # latest
    BY <2>1, <2>3, <2>4, <2>6, OtherGoesOn
  <2> QED
    BY <2>5, <2>6
<1> QED
  BY <1>2, <1>3, <1>6, <1>7, <1>8 DEF Call

\* Nothing the calls and the lock have changes.
LEMMA OverlapStutters ==
  ASSUME OverlapOK, UNCHANGED <<pc, text, chunk, queue, graph, queued, latest>>
  PROVE  OverlapOK'
<1>1. /\ pc' = pc /\ text' = text /\ chunk' = chunk /\ queued' = queued /\ latest' = latest
      /\ inside' = inside /\ ahead' = ahead /\ landed' = landed /\ late' = late
      /\ hashes' = hashes /\ extracts' = extracts /\ derived' = derived
      /\ archived' = archived
  BY DEF queue, graph
<1>2. ASSUME latest # None
      PROVE  ArchivesFirst(latest)' /\ WritesAll(latest)'
  BY <1>1, <1>2 DEF OverlapOK, StoresOK, ArchivesFirst, WritesAll, Unlinked, Holds
<1> QED
  BY <1>1, <1>2 DEF OverlapOK, StoresOK

LEMMA NextKeepsOverlap ==
  ASSUME IngestInv, OverlapInv, [Next]_vars
  PROVE  OverlapInv'
<1> SUFFICES ASSUME failures' = 0
             PROVE  OverlapOK'
  BY DEF OverlapInv
<1>1. CASE \E c \in Calls : Call(c)
  <2>1. PICK c \in Calls : Call(c)
    BY <1>1
  <2>2. failures' = failures \/ \E n \in Nat : Fails(n)
    BY <2>1 DEF Call, Begin, BeginBlind, Upserted, Archived, ReadingFails, ExtractCreated,
                ExtractLinked, ChunkFails, Settles
  <2>3. failures = 0
    BY <2>2 DEF Fails, IngestInv, TypeOK
  <2> QED
    BY <2>1, <2>3, CallKeepsOverlap DEF OverlapInv
<1>2. CASE \E c \in Calls : Land(c)
  BY <1>2, LandKeepsOverlap DEF Land, OverlapInv
<1>3. CASE \E w \in late : LandLate(w)
  <2>1. failures = 0
    BY <1>3 DEF LandLate
  <2> QED
    BY <1>3, <2>1 DEF OverlapInv, OverlapOK, StoresOK
<1>4. CASE \E v \in Contents : Edit(v)
  BY <1>4, OverlapStutters DEF Edit, local, OverlapInv
<1>5. CASE Crash
  BY <1>5 DEF Crash, Fails, IngestInv, TypeOK
<1>6. CASE UNCHANGED vars
  BY <1>6, OverlapStutters DEF vars, local, OverlapInv
<1> QED
  BY <1>1, <1>2, <1>3, <1>4, <1>5, <1>6 DEF Next

\* Of calls for a file that overlap without a failure the one that came last
\* wins (ingest_document and the write gate's order): the number of calls, what
\* the file contains and its edits are arbitrary.
THEOREM LatestWins == Spec => []LatestIngestSurvives
<1>1. Init => OverlapInv
  BY DEF Init, QueueInit, OverlapInv, OverlapOK, StoresOK
<1>2. IngestInv /\ OverlapInv /\ [Next]_vars => OverlapInv'
  BY NextKeepsOverlap
<1>3. IngestInv /\ OverlapInv => LatestIngestSurvives
  <2> SUFFICES ASSUME IngestInv, OverlapInv, failures = 0, latest # None
               PROVE  /\ \A e \in archived : e[1] # latest
                      /\ pc[latest] = "answered" => ExtractsOf(latest) \subseteq Live \cap queued
    BY DEF LatestIngestSurvives
  <2>1. latest \in Calls /\ WritesAll(latest)
    BY DEF OverlapInv, OverlapOK, StoresOK, IngestInv, TypeOK
  <2> QED
    BY <2>1 DEF WritesAll, ExtractsOf, Live
<1> QED
  BY <1>1, <1>2, <1>3, IngestSafety, PTL DEF Spec

-----------------------------------------------------------------------------
(***************************************************************************)
(* A call that nothing disturbs, after whatever came before it.            *)
(***************************************************************************)

\* A statement commits.
LEMMA CommitKeepsStores ==
  ASSUME StoresOK, LateKeepsOK, NEW w, NEW on, Writes(w, on), pc' = pc, late' \subseteq late,
         w.kind = "archive" => on \subseteq derived,
         w.kind = "extract" => \A e \in on : e[1] \in Calls /\ pc[e[1]] # "idle",
         w.kind = "derive" => on = {} \/ hashes # {}
  PROVE  StoresOK' /\ LateKeepsOK'
<1>1. StoresOK'
  BY WritesGrow DEF StoresOK
<1>2. hashes # {} \/ w.kind = "upsert" => hashes' # {}
  BY DEF Writes
<1>3. hashes' = {} => derived' = {}
  BY <1>2, WritesGrow DEF LateKeepsOK
<1>4. ASSUME NEW v \in late'
      PROVE  /\ v.statement.extract[1] \in Calls /\ pc'[v.statement.extract[1]] # "idle"
             /\ v.statement.kind = "archive" => v.on \subseteq derived'
             /\ v.statement.kind = "extract" => v.on \subseteq {v.statement.extract}
             /\ v.statement.kind = "derive" => v.on = {} \/ hashes' # {}
  BY <1>2, WritesGrow DEF LateKeepsOK
<1> QED
  BY <1>1, <1>3, <1>4 DEF LateKeepsOK

\* A call goes on, and may leave its statement behind.
LEMMA GoingOnKeepsStores ==
  ASSUME IngestInv, StoresOK, LateKeepsOK, NEW c \in Calls,
         NEW next \in Awaiting \cup Ended, GoesTo(c, next), UNCHANGED graph,
         late' \in {late, late \cup {[statement |-> Statement(c), on |-> Selects(Statement(c))]}}
  PROVE  StoresOK' /\ LateKeepsOK'
<1> DEFINE v == [statement |-> Statement(c), on |-> Selects(Statement(c))]
<1>1. /\ hashes' = hashes /\ extracts' = extracts /\ derived' = derived
      /\ archived' = archived
  BY DEF graph
<1>2. \A d \in Calls : pc[d] # "idle" \/ d = c => pc'[d] # "idle"
  BY DEF GoesTo, Awaiting, Ended, IngestInv, TypeOK
<1>3. /\ v.statement.extract[1] = c
      /\ v.statement.kind = "archive" => v.on \subseteq derived
      /\ v.statement.kind = "extract" => v.on \subseteq {v.statement.extract}
      /\ v.statement.kind = "derive" => v.on = {} \/ hashes # {}
  BY DEF Statement, Selects
<1>4. \A w \in late' : w \in late \/ w = v
  OBVIOUS
<1> HIDE DEF v
<1>5. StoresOK'
  BY <1>1, <1>2 DEF StoresOK
<1>6. ASSUME NEW w \in late'
      PROVE  /\ w.statement.extract[1] \in Calls /\ pc'[w.statement.extract[1]] # "idle"
             /\ w.statement.kind = "archive" => w.on \subseteq derived'
             /\ w.statement.kind = "extract" => w.on \subseteq {w.statement.extract}
             /\ w.statement.kind = "derive" => w.on = {} \/ hashes' # {}
  <2>1. CASE w \in late
    BY <1>1, <1>2, <2>1 DEF LateKeepsOK
  <2>2. CASE w = v
    BY <1>1, <1>2, <1>3, <2>2
  <2> QED
    BY <1>4, <2>1, <2>2
<1> QED
  BY <1>1, <1>5, <1>6 DEF LateKeepsOK

\* What every step of a call is.
LEMMA CallGoesOn ==
  ASSUME IngestInv, NEW c \in Calls, Call(c)
  PROVE  /\ \E next \in Awaiting \cup Ended : GoesTo(c, next)
         /\ UNCHANGED graph
         /\ late' \in {late, late \cup {[statement |-> Statement(c),
                                         on |-> Selects(Statement(c))]}}
<1>1. CASE Begin(c) \/ BeginBlind(c)
  <2>1. PICK found : Arrives(c, found)
    BY <1>1 DEF Begin, BeginBlind
  <2> QED
    BY <2>1 DEF Arrives, Awaiting, Ended
<1>2. Returns(c) \/ Raised(c) =>
        late' \in {late, late \cup {[statement |-> Statement(c), on |-> Selects(Statement(c))]}}
  BY DEF Returns, Raised, Raises
<1>3. \A n : Settles(c, n) => Returns(c) \/ Raised(c)
  BY DEF Settles
<1>4. CASE Upserted(c) \/ Archived(c) \/ ReadingFails(c)
  BY <1>2, <1>3, <1>4 DEF Upserted, Archived, ReadingFails, ReadsText, Awaiting, Ended
<1>5. CASE ExtractCreated(c) \/ ExtractLinked(c) \/ ChunkFails(c)
  BY <1>2, <1>5 DEF ExtractCreated, ExtractLinked, ChunkFails, NextChunk, Awaiting, Ended
<1> QED
  BY <1>1, <1>4, <1>5 DEF Call

LEMMA NextKeepsStores ==
  ASSUME IngestInv, StoresOK, LateKeepsOK, [Next]_vars
  PROVE  StoresOK' /\ LateKeepsOK'
<1>1. ASSUME NEW c \in Calls, Call(c)
      PROVE  StoresOK' /\ LateKeepsOK'
  BY <1>1, CallGoesOn, GoingOnKeepsStores
<1>2. ASSUME NEW c \in Calls, Land(c)
      PROVE  StoresOK' /\ LateKeepsOK'
  <2> DEFINE w == Statement(c)
  <2>1. Writes(w, Selects(w)) /\ pc' = pc /\ late' \subseteq late /\ c \in InFlight
    BY <1>2 DEF Land, Lands, Holds, IngestInv, TypeOK
  <2>2. /\ w.kind = "archive" => Selects(w) \subseteq derived
        /\ w.kind = "extract" => \A e \in Selects(w) : e[1] \in Calls /\ pc[e[1]] # "idle"
        /\ w.kind = "derive" => Selects(w) = {} \/ hashes # {}
    BY <2>1 DEF Statement, Selects, InFlight, Awaiting
  <2> HIDE DEF w
  <2> QED
    BY <2>1, <2>2, CommitKeepsStores
<1>3. ASSUME NEW w \in late, LandLate(w)
      PROVE  StoresOK' /\ LateKeepsOK'
  <2> DEFINE s == w.statement
  <2>1. PICK on \in {w.on, Selects(s)} : Writes(s, on)
    BY <1>3 DEF LandLate
  <2>2. pc' = pc /\ late' \subseteq late
    BY <1>3 DEF LandLate, LandsLate
  <2>3. /\ s.kind = "archive" => on \subseteq derived
        /\ s.kind = "extract" => on \subseteq {s.extract}
        /\ s.kind = "derive" => on = {} \/ hashes # {}
        /\ s.extract[1] \in Calls /\ pc[s.extract[1]] # "idle"
    BY DEF LateKeepsOK, Selects
  <2> HIDE DEF s
  <2> QED
    BY <2>1, <2>2, <2>3, CommitKeepsStores
<1>4. ASSUME NEW v \in Contents, Edit(v)
      PROVE  StoresOK' /\ LateKeepsOK'
  BY <1>4 DEF Edit, queue, graph, StoresOK, LateKeepsOK
<1>5. CASE Crash
  BY <1>5 DEF Crash, QueueLost, graph, StoresOK, LateKeepsOK, IngestInv, TypeOK
<1>6. CASE UNCHANGED vars
  BY <1>6 DEF vars, queue, graph, StoresOK, LateKeepsOK
<1> QED
  BY <1>1, <1>2, <1>3, <1>4, <1>5, <1>6 DEF Next

\* The write of a call that runs alone commits.
LEMMA LandKeepsAlone ==
  ASSUME IngestInv, NEW l \in Calls, AloneOK(l), NEW c \in Calls, Land(c)
  PROVE  AloneOK(l)'
<1> DEFINE w == Statement(c)
<1>1. /\ Holds(c) /\ ~ landed /\ landed' = TRUE /\ Writes(w, Selects(w))
      /\ pc' = pc /\ file' = file /\ hash' = hash /\ known' = known /\ text' = text
  BY DEF Land, Lands, local
<1>2. c = l /\ pc[l] \in Awaiting
  BY <1>1 DEF Holds, IngestInv, TypeOK, InFlight, AloneOK
<1>3. w.kind = pc[l] /\ w.value = hash[l] /\ w.extract = <<l, chunk[l]>>
  BY <1>2 DEF Statement
<1>4. hashes' = IF pc[l] = "upsert" THEN {hash[l]} ELSE hashes
  BY <1>1, <1>3 DEF Writes, Selects
<1>5. archived' = IF pc[l] = "archive" THEN archived \cup derived ELSE archived
  BY <1>1, <1>3 DEF Writes, Selects
<1>6. \/ derived' = derived
      \/ derived' = derived \cup {<<l, chunk[l]>>} /\ pc[l] = "derive"
  BY <1>1, <1>3 DEF Writes, Selects
<1> HIDE DEF w
<1>7. hashes' = {hash[l]}
  BY <1>4 DEF AloneOK
<1>8. OldAreArchived(l)'
  <2>1. CASE pc[l] = "upsert"
    BY <1>1, <1>5, <1>6, <2>1 DEF AloneOK, OldAreArchived, Chunking
  <2>2. CASE pc[l] = "archive"
    BY <1>1, <1>5, <1>6, <2>2 DEF AloneOK, OldAreArchived, Chunking
  <2>3. CASE pc[l] \in Chunking
    <3>1. \A e \in derived' \ archived' : e[1] = l
      BY <1>5, <1>6, <2>3 DEF AloneOK, OldAreArchived, Chunking
    <3> QED
      BY <1>1, <2>3, <3>1 DEF OldAreArchived
  <2> QED
    BY <1>2, <2>1, <2>2, <2>3 DEF Awaiting, Chunking
<1>9. ASSUME NEW e \in derived', e[1] = l
      PROVE  pc[l] \in Chunking \cup {"answered"} /\ e \in ExtractsOf(l)
  <2>1. CASE e \in derived
    BY <1>9, <2>1 DEF AloneOK
  <2>2. CASE e = <<l, chunk[l]>> /\ pc[l] = "derive"
    BY <2>2 DEF IngestInv, CallsOK, Chunking, ExtractsOf
  <2> QED
    BY <1>6, <2>1, <2>2
<1> QED
  BY <1>1, <1>7, <1>8, <1>9 DEF AloneOK, InFlight, ExtractsOf

\* The write of a call that runs alone returned, and it goes on.
LEMMA AloneGoesOn ==
  ASSUME IngestInv, NEW l \in Calls, AloneOK(l), Returns(l),
         NEW next \in Awaiting \cup Ended, GoesTo(l, next),
         UNCHANGED <<file, hash, known, graph>>,
         \/ pc[l] = "upsert" /\ next = "archive"
         \/ /\ pc[l] = "archive" \/ (pc[l] = "upsert" /\ known[l] = None)
            /\ next \in {"extract", "answered"} /\ text'[l] = file
         \/ /\ pc[l] \in Chunking /\ next \in Chunking \cup {"answered"}
            /\ text'[l] = text[l]
  PROVE  AloneOK(l)'
<1>1. /\ hashes' = hashes /\ extracts' = extracts /\ derived' = derived
      /\ archived' = archived /\ file' = file /\ hash' = hash /\ known' = known
  BY DEF graph
<1>2. /\ landed /\ landed' = FALSE /\ pc[l] \in Awaiting /\ hash[l] = file
  BY DEF Returns, Holds, IngestInv, TypeOK, InFlight, AloneOK
<1>3. pc'[l] = next /\ \A d \in Calls \ {l} : pc'[d] = pc[d]
  BY DEF GoesTo, IngestInv, TypeOK
<1>4. InFlight' \subseteq {l}
  BY <1>3 DEF AloneOK, InFlight
<1>5. hashes' = {hash'[l]}
  BY <1>1, <1>2 DEF AloneOK
<1>6. next # "upsert" /\ next \in {"archive", "answered"} \cup Chunking
  BY DEF Chunking
<1>7. pc'[l] \in Chunking \cup {"answered"} => text'[l] = hash[l]
  BY <1>2, <1>3 DEF AloneOK, Chunking
<1>8. OldAreArchived(l)'
  <2>1. CASE next = "archive"
    BY <1>2, <1>3, <2>1 DEF OldAreArchived
  <2>2. CASE next # "archive"
    <3>1. \A e \in derived \ archived : e[1] = l
      BY <1>2, <2>2 DEF AloneOK, OldAreArchived, Chunking
    <3> QED
      BY <1>1, <1>3, <1>6, <2>2, <3>1 DEF OldAreArchived
  <2> QED
    BY <2>1, <2>2
<1>9. ASSUME NEW e \in derived, e[1] = l
      PROVE  pc'[l] \in Chunking \cup {"answered"} /\ e \in ExtractsOf(l)'
  <2>1. pc[l] \in Chunking /\ e \in ExtractsOf(l)
    BY <1>2, <1>9 DEF AloneOK, Awaiting, Chunking
  <2>2. next \in Chunking \cup {"answered"} /\ text'[l] = text[l]
    BY <2>1 DEF Chunking
  <2> QED
    BY <1>3, <2>1, <2>2 DEF ExtractsOf
<1> QED
  BY <1>1, <1>2, <1>3, <1>4, <1>5, <1>7, <1>8, <1>9 DEF AloneOK

\* A call comes that finds a change, when nothing runs.
LEMMA ArrivesAlone ==
  ASSUME IngestInv, StoresOK, LateKeepsOK, Quiet, NEW c \in Calls, pc[c] = "idle",
         NEW found \in IF hashes = {} THEN {None} ELSE hashes,
         Arrives(c, found), found # file
  PROVE  AloneOK(c)'
<1>1. /\ hashes' = hashes /\ extracts' = extracts /\ derived' = derived
      /\ archived' = archived /\ file' = file /\ landed' = landed
      /\ hash' = [hash EXCEPT ![c] = file] /\ known' = [known EXCEPT ![c] = found]
      /\ GoesTo(c, "upsert")
  BY DEF Arrives, graph
<1>2. /\ pc'[c] = "upsert" /\ \A d \in Calls \ {c} : pc'[d] = pc[d]
      /\ hash'[c] = file /\ known'[c] = found
  BY <1>1 DEF GoesTo, IngestInv, TypeOK
<1>3. InFlight' \subseteq {c}
  BY <1>2 DEF Quiet, InFlight
<1>4. ~ landed
  BY DEF Quiet, IngestInv, TypeOK, QueueOK
<1>5. found = None => derived = {}
  BY DocumentIngestAssumption DEF LateKeepsOK, IngestInv, TypeOK
<1>6. \A e \in derived : e[1] # c
  BY DEF StoresOK, IngestInv, TypeOK
<1> QED
  BY <1>1, <1>2, <1>3, <1>4, <1>5, <1>6 DEF AloneOK, OldAreArchived, Chunking

\* Another step than the latest call's: that of a call that does nothing, or an
\* edit when no call runs.
LEMMA AloneStutters ==
  ASSUME IngestInv, NEW l \in Calls, AloneOK(l), InFlight' \subseteq InFlight,
         pc'[l] = pc[l], hash'[l] = hash[l], known'[l] = known[l], text'[l] = text[l],
         UNCHANGED <<landed, graph>>,
         file' = file \/ InFlight = {}
  PROVE  AloneOK(l)'
BY DEF AloneOK, OldAreArchived, ExtractsOf, graph, InFlight

\* An exception disturbs.
LEMMA UndisturbedFailsNot ==
  ASSUME IngestInv, NEW n \in Nat, Fails(n), ~ disturbed'
  PROVE  n = 0 /\ failures' = failures
<1> DEFINE some == n > 0
<1>1. ~ some
  <2>1. disturbed' = (disturbed \/ some)
    BY DEF Fails
  <2> HIDE DEF some
  <2> QED
    BY <2>1
<1> QED
  BY <1>1 DEF Fails, IngestInv, TypeOK

LEMMA CallKeepsAlone ==
  ASSUME IngestInv, latest \in Calls, AloneOK(latest), latest' = latest, ~ disturbed',
         NEW c \in Calls, Call(c)
  PROVE  AloneOK(latest)' /\ failures' = failures
<1>1. \A n \in Nat : Fails(n) => n = 0 /\ failures' = failures
  BY UndisturbedFailsNot
<1>2. ~ BeginBlind(c) /\ ~ ReadingFails(c) /\ ~ ChunkFails(c)
  BY <1>1 DEF BeginBlind, ReadingFails, ChunkFails, Settles
<1>3. Settles(c, 0) => Returns(c) /\ failures' = failures
  BY <1>1 DEF Settles
<1>4. pc[c] \in Awaiting => c = latest
  BY DEF AloneOK, InFlight
<1>5. pc[latest] # "idle"
  BY DEF AloneOK, OldAreArchived, Chunking
<1>6. CASE Begin(c)
  <2>1. PICK found : Arrives(c, found)
    BY <1>6 DEF Begin
  <2>2. c # latest /\ found = file
    BY <1>5, <2>1 DEF Arrives
  <2>3. GoesTo(c, "current") /\ UNCHANGED <<file, text, landed, graph>>
    BY <2>1, <2>2 DEF Arrives
  <2>4. InFlight' \subseteq InFlight /\ pc'[latest] = pc[latest]
    BY <2>2, <2>3 DEF GoesTo, InFlight, Awaiting, IngestInv, TypeOK
  <2>5. hash'[latest] = hash[latest] /\ known'[latest] = known[latest]
    BY <2>1, <2>2 DEF Arrives, IngestInv, TypeOK
  <2>6. AloneOK(latest)'
    BY <2>3, <2>4, <2>5, AloneStutters
  <2> QED
    BY <1>6, <2>6 DEF Begin
<1>7. CASE Upserted(c) \/ Archived(c)
  <2>1. /\ Returns(c) /\ failures' = failures /\ c = latest
        /\ UNCHANGED <<file, hash, known, graph>>
    BY <1>3, <1>4, <1>7 DEF Upserted, Archived, Awaiting
  <2>2. ASSUME ReadsText(c)
        PROVE  /\ text'[c] = file
               /\ \E next \in {"extract", "answered"} : GoesTo(c, next)
    BY <2>2 DEF ReadsText, IngestInv, TypeOK
  <2>3. \/ pc[c] = "upsert" /\ GoesTo(c, "archive")
        \/ /\ pc[c] = "archive" \/ (pc[c] = "upsert" /\ known[c] = None)
           /\ ReadsText(c)
    <3>1. CASE Upserted(c)
      BY <3>1 DEF Upserted
    <3>2. CASE Archived(c)
      BY <3>2 DEF Archived
    <3> QED
      BY <1>7, <3>1, <3>2
  <2>4. {"archive", "extract", "answered"} \subseteq Awaiting \cup Ended
    BY DEF Awaiting, Ended
  <2>5. AloneOK(c)'
    BY <2>1, <2>2, <2>3, <2>4, AloneGoesOn
  <2> QED
    BY <2>1, <2>5
<1>8. CASE ExtractCreated(c) \/ ExtractLinked(c)
  <2>1. /\ Returns(c) /\ failures' = failures /\ c = latest /\ pc[c] \in Chunking
        /\ UNCHANGED <<file, hash, known, text, graph>>
    BY <1>1, <1>4, <1>8 DEF ExtractCreated, ExtractLinked, Awaiting, Chunking, local
  <2>2. PICK next \in Chunking \cup {"answered"} : GoesTo(c, next)
    BY <1>8 DEF ExtractCreated, ExtractLinked, NextChunk, Chunking
  <2>3. next \in Awaiting \cup Ended
    BY DEF Awaiting, Ended, Chunking
  <2>4. AloneOK(c)'
    BY <2>1, <2>2, <2>3, AloneGoesOn
  <2> QED
    BY <2>1, <2>4
<1> QED
  BY <1>2, <1>6, <1>7, <1>8 DEF Call

\* A call arrives, and is the latest, when nothing runs.
LEMMA BeginsUndisturbed ==
  ASSUME IngestInv, UndisturbedInv, NEW c \in Calls, Begin(c), latest' = c, ~ disturbed'
  PROVE  OverlapOK' /\ AloneOK(c)'
<1>1. PICK found \in IF hashes = {} THEN {None} ELSE hashes : Arrives(c, found)
  BY DEF Begin
<1>2. pc[c] = "idle" /\ Quiet /\ found # file
  BY <1>1, DocumentIngestAssumption DEF Begin, Arrives, UndisturbedInv
<1>3. GoesTo(c, "upsert") /\ UNCHANGED <<text, chunk, landed, late, graph, queued>>
  BY <1>1, <1>2 DEF Arrives
<1>4. AloneOK(c)'
  BY <1>1, <1>2, ArrivesAlone DEF UndisturbedInv
<1>5. OverlapOK'
  BY <1>2, <1>3, LatestArrives DEF Quiet, UndisturbedInv
<1> QED
  BY <1>4, <1>5

LEMMA LatestHasCome ==
  ASSUME IngestInv, UndisturbedInv, [Next]_vars
  PROVE  latest' # None => pc'[latest'] # "idle"
<1>1. ASSUME NEW c \in Calls, Call(c)
      PROVE  latest' # None => pc'[latest'] # "idle"
  <2>1. latest' \in {latest, c}
    BY <1>1 DEF Call, Begin, BeginBlind, Arrives, Upserted, Archived, ReadingFails,
                ExtractCreated, ExtractLinked, ChunkFails
  <2>2. PICK next \in Awaiting \cup Ended : GoesTo(c, next)
    BY <1>1, CallGoesOn
  <2>3. \A d \in Calls : pc[d] # "idle" \/ d = c => pc'[d] # "idle"
    BY <2>2 DEF GoesTo, Awaiting, Ended, IngestInv, TypeOK
  <2> QED
    BY <2>1, <2>3 DEF UndisturbedInv, IngestInv, TypeOK
<1>2. CASE \E c \in Calls : Land(c)
  BY <1>2 DEF Land, UndisturbedInv
<1>3. CASE \E w \in late : LandLate(w)
  BY <1>3 DEF LandLate, UndisturbedInv
<1>4. CASE \E v \in Contents : Edit(v)
  BY <1>4 DEF Edit, UndisturbedInv
<1>5. CASE Crash
  BY <1>5 DEF Crash, UndisturbedInv, IngestInv, TypeOK
<1>6. CASE UNCHANGED vars
  BY <1>6 DEF vars, UndisturbedInv
<1> QED
  BY <1>1, <1>2, <1>3, <1>4, <1>5, <1>6 DEF Next

\* A step of a call that does not become the latest by it.
LEMMA CallKeepsUndisturbed ==
  ASSUME IngestInv, UndisturbedInv, NEW c \in Calls, Call(c), ~ (Begin(c) /\ latest' = c),
         ~ disturbed', latest' # None
  PROVE  OverlapOK' /\ AloneOK(latest)'
<1>1. latest' = latest /\ ~ disturbed
  <2>1. CASE Begin(c)
    BY <2>1 DEF Begin, Arrives
  <2>2. CASE ~ Begin(c)
    <3>1. PICK n \in Nat : Fails(n) /\ (BeginBlind(c) => n = 1)
      BY <2>2 DEF Call, BeginBlind, Upserted, Archived, ReadingFails, ExtractCreated,
                  ExtractLinked, ChunkFails, Settles
    <3>2. ~ disturbed
      <4> DEFINE some == n > 0
      <4>1. disturbed' = (disturbed \/ some)
        BY <3>1 DEF Fails
      <4> HIDE DEF some
      <4> QED
        BY <4>1
    <3>3. ~ BeginBlind(c)
      BY <3>1, UndisturbedFailsNot
    <3>4. latest' = latest
      BY <2>2, <3>3 DEF Call, Upserted, Archived, ReadingFails, ExtractCreated,
                        ExtractLinked, ChunkFails
    <3> QED
      BY <3>2, <3>4
  <2> QED
    BY <2>1, <2>2
<1>2. latest \in Calls /\ OverlapOK /\ AloneOK(latest)
  BY <1>1 DEF UndisturbedInv, IngestInv, TypeOK
<1>3. AloneOK(latest)' /\ failures' = failures
  BY <1>1, <1>2, CallKeepsAlone
<1>4. OverlapOK'
  BY <1>2, <1>3, CallKeepsOverlap
<1> QED
  BY <1>1, <1>3, <1>4

\* The latest call goes on undisturbed, or becomes the latest undisturbed.
LEMMA NextKeepsUndisturbed ==
  ASSUME IngestInv, UndisturbedInv, [Next]_vars
  PROVE  UndisturbedInv'
<1>1. StoresOK' /\ LateKeepsOK' /\ (latest' # None => pc'[latest'] # "idle")
  BY NextKeepsStores, LatestHasCome DEF UndisturbedInv
<1> SUFFICES ASSUME ~ disturbed', latest' # None
             PROVE  OverlapOK' /\ AloneOK(latest)'
  BY <1>1 DEF UndisturbedInv
<1>2. ASSUME latest' = latest, ~ disturbed
      PROVE  latest \in Calls /\ OverlapOK /\ AloneOK(latest) /\ late = {}
  BY <1>2 DEF UndisturbedInv, OverlapOK, IngestInv, TypeOK
<1>3. ASSUME NEW c \in Calls, Call(c)
      PROVE  OverlapOK' /\ AloneOK(latest)'
  BY <1>3, BeginsUndisturbed, CallKeepsUndisturbed
<1>4. ASSUME NEW c \in Calls, Land(c)
      PROVE  OverlapOK' /\ AloneOK(latest)'
  <2>1. latest' = latest /\ ~ disturbed
    BY <1>4 DEF Land
  <2> QED
    BY <1>2, <1>4, <2>1, LandKeepsOverlap, LandKeepsAlone
<1>5. ASSUME NEW w \in late, LandLate(w)
      PROVE  OverlapOK' /\ AloneOK(latest)'
  BY <1>2, <1>5 DEF LandLate
<1>6. ASSUME NEW v \in Contents, Edit(v)
      PROVE  OverlapOK' /\ AloneOK(latest)'
  <2>1. /\ latest' = latest /\ ~ disturbed /\ InFlight = {}
        /\ UNCHANGED <<pc, hash, known, text, chunk, queue, graph, queued, landed>>
    BY <1>6 DEF Edit, local, queue
  <2>2. OverlapOK'
    BY <1>2, <2>1, OverlapStutters
  <2>3. AloneOK(latest)'
    BY <1>2, <2>1, AloneStutters DEF InFlight
  <2> QED
    BY <2>1, <2>2, <2>3
<1>7. ~ Crash
  BY UndisturbedFailsNot DEF Crash
<1>8. CASE UNCHANGED vars
  <2>1. /\ latest' = latest /\ ~ disturbed
        /\ UNCHANGED <<pc, hash, known, text, chunk, queue, graph, queued, landed, file>>
    BY <1>8 DEF vars, local, queue
  <2>2. OverlapOK'
    BY <1>2, <2>1, OverlapStutters
  <2>3. AloneOK(latest)'
    BY <1>2, <2>1, AloneStutters DEF InFlight
  <2> QED
    BY <2>1, <2>2, <2>3
<1> QED
  BY <1>3, <1>4, <1>5, <1>6, <1>7, <1>8 DEF Next

\* When nothing runs, the latest call has answered, and what it has written is
\* all there is that is not archived.
LEMMA AloneReplaces ==
  ASSUME IngestInv, NEW l \in Calls, AloneOK(l), WritesAll(l), pc[l] \in Awaiting \cup {"answered"},
         InFlight = {}
  PROVE  Live = ExtractsOf(l) /\ Live \subseteq queued /\ hashes = {text[l]}
<1>1. pc[l] = "answered"
  BY DEF InFlight
<1>2. \A e \in ExtractsOf(l) : e \in derived /\ e \in queued /\ e[1] = l
  BY <1>1 DEF WritesAll, ExtractsOf
<1>3. \A e \in Live : e[1] = l
  BY <1>1 DEF AloneOK, OldAreArchived, Live
<1>4. Live \subseteq ExtractsOf(l)
  BY <1>3 DEF AloneOK, Live
<1>5. ExtractsOf(l) \subseteq Live
  BY <1>2 DEF WritesAll, Live
<1> QED
  BY <1>1, <1>2, <1>4, <1>5 DEF AloneOK

\* An ingest of a changed file that nothing overlaps, and in which nothing
\* fails, puts the Document right (ingest_document), whatever crashes, failures
\* and overlaps the calls before it had, and whatever they left in the graph.
THEOREM UndisturbedIngestReplaces == Spec => []UndisturbedReplaces
<1>1. Init => UndisturbedInv
  BY DEF Init, QueueInit, UndisturbedInv, StoresOK, LateKeepsOK
<1>2. IngestInv /\ UndisturbedInv /\ [Next]_vars => UndisturbedInv'
  BY NextKeepsUndisturbed
<1>3. IngestInv /\ UndisturbedInv => UndisturbedReplaces
  <2> SUFFICES ASSUME IngestInv, UndisturbedInv, ~ disturbed, Quiet, latest # None
               PROVE  /\ Live = ExtractsOf(latest)
                      /\ Live \subseteq queued
                      /\ hashes = {text[latest]}
    BY DEF UndisturbedReplaces
  <2>1. latest \in Calls /\ OverlapOK /\ AloneOK(latest)
    BY DEF UndisturbedInv, IngestInv, TypeOK
  <2>2. WritesAll(latest) /\ pc[latest] \in Awaiting \cup {"answered"}
    BY <2>1 DEF OverlapOK, ArchivesFirst
  <2> QED
    BY <2>1, <2>2, AloneReplaces DEF Quiet
<1> QED
  BY <1>1, <1>2, <1>3, IngestSafety, PTL DEF Spec

=============================================================================
