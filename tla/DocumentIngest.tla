---------------------------- MODULE DocumentIngest ----------------------------
(***************************************************************************)
(* ingest_document (campy/brain/sensory_cortex/ingest.py) for one file: it *)
(* compares the file's hash with the one on the Document node, stores the  *)
(* new hash, archives the extracts of the old text, and stores, links and  *)
(* queues one DocumentExtract for every chunk of the new text.  Calls are  *)
(* coroutines, nothing keeps two of them for one file apart, and the file  *)
(* can be edited at any time.                                              *)
(*                                                                         *)
(* Every write goes through the write gate (module WriteQueue), and what a *)
(* call does up to its next write is one step.                             *)
(*                                                                         *)
(* No specification uses the definitions that state a plausible slip in    *)
(* the code of the definition right after them (ChunkFailsUnnoticed before *)
(* ChunkFails).                                                            *)
(***************************************************************************)
EXTENDS Naturals, FiniteSets, WriteQueue

\* Calls are the calls of ingest_document for the file.
CONSTANTS
  Contents,     \* what the file may contain, and the hash of that
  Size,         \* the number of chunks of each content
  MaxFailures,  \* bound: raised exceptions and crashes in a behaviour
  None

ASSUME DocumentIngestAssumption ==
  /\ Size \in [Contents -> Nat]
  /\ MaxFailures \in Nat
  /\ None \notin Contents \cup Calls

VARIABLES
  file,       \* the content of the file
  pc,         \* the write a call awaits, or how it ended
  hash,       \* content_hash, as the call computed it
  known,      \* existing_hash, as the call found it on the Document
  text,       \* the content the call has read and cut into chunks
  chunk,      \* the chunk it is at
  hashes,     \* the Document's content_hash values; {}: no such Document
  extracts,   \* DocumentExtract nodes, as call and chunk
  derived,    \* those with a DERIVED_FROM edge to the Document
  archived,   \* those with archived = true
  queued,     \* those that were put in the Loop's queue
  latest,     \* the last call that found a change, in order of arrival
  disturbed,  \* the latest ingest was overlapped, had a failure, or an edit
  failures    \* exceptions and crashes so far

graph == <<hashes, extracts, derived, archived>>
local == <<hash, known, text, chunk>>
vars == <<file, pc, local, queue, graph, queued, latest,
          disturbed, failures>>

Awaiting == {"upsert", "archive", "extract", "derive"}
Ended == {"current", "answered", "error", "raised", "lost"}

InFlight == {c \in Calls : pc[c] \in Awaiting}
ExtractsOf(c) == {<<c, i>> : i \in 1 .. Size[text[c]]}

\* Nothing runs for the file, in a coroutine or in an abandoned thread.
Quiet == InFlight = {} /\ late = {}

Init ==
  /\ file \in Contents
  /\ pc = [c \in Calls |-> "idle"]
  /\ hash = [c \in Calls |-> None]
  /\ known = [c \in Calls |-> None]
  /\ text = [c \in Calls |-> None]
  /\ chunk = [c \in Calls |-> 0]
  /\ QueueInit
  /\ hashes = {} /\ extracts = {} /\ derived = {} /\ archived = {}
  /\ queued = {}
  /\ latest = None
  /\ disturbed = FALSE /\ failures = 0

-----------------------------------------------------------------------------
\* The statement call c awaits.
Statement(c) == [kind |-> pc[c], value |-> hash[c], extract |-> <<c, chunk[c]>>]

\* What it selects in the store: an upsert the hashes it replaces, an archiving
\* the extracts that derive from the Document, an edge the two nodes it joins.
Selects(w) ==
  CASE w.kind = "upsert"  -> hashes
    [] w.kind = "archive" -> derived
    [] w.kind = "extract" -> {w.extract}
    [] w.kind = "derive"  -> IF hashes = {} THEN {} ELSE {w.extract} \cap extracts

\* What it changes when it commits, having selected `on`.
Writes(w, on) ==
  /\ hashes' = IF w.kind = "upsert" THEN (hashes \ on) \cup {w.value} ELSE hashes
  /\ archived' = IF w.kind = "archive" THEN archived \cup on ELSE archived
  /\ extracts' = IF w.kind = "extract" THEN extracts \cup on ELSE extracts
  /\ derived' = IF w.kind = "derive" THEN derived \cup on ELSE derived

\* A statement commits in its thread.
LandWithoutLock(c) ==
  /\ c \in inside /\ ~ landed /\ landed' = TRUE
  /\ ahead' = [d \in Calls |-> IF d \in inside \ {c} THEN ahead[d] \cup {c} ELSE {}]
  /\ Writes(Statement(c), Selects(Statement(c)))
  /\ UNCHANGED <<file, pc, local, inside, late, queued, latest, disturbed, failures>>
Land(c) ==
  /\ Lands(c)
  /\ Writes(Statement(c), Selects(Statement(c)))
  /\ UNCHANGED <<file, pc, local, queued, latest, disturbed, failures>>

\* A statement that was given up selects before that or when it commits.
LandLate(w) ==
  /\ LandsLate(w)
  /\ \E on \in {w.on, Selects(w.statement)} : Writes(w.statement, on)
  /\ UNCHANGED <<file, pc, local, queued, latest, disturbed, failures>>

\* Exceptions are counted, so that a behaviour has few of them.
Fails(n) ==
  /\ failures + n <= MaxFailures
  /\ failures' = failures + n
  /\ disturbed' = (disturbed \/ n > 0)

\* Call c's awaited write raises.
Raised(c) == Raises(c, [statement |-> Statement(c), on |-> Selects(Statement(c))])

\* It returns or it raises, where the code swallows the exception; in what the
\* call does next, n more exceptions are raised.
Settles(c, n) ==
  \/ Returns(c) /\ Fails(n)
  \/ Raised(c) /\ Fails(n + 1)

\* Then call c goes on: to its next write, or to its end.
GoesTo(c, next) ==
  /\ pc' = [pc EXCEPT ![c] = next]
  /\ Moves(c, next \in Awaiting)

-----------------------------------------------------------------------------
\* A call arrives: it hashes the file, asks for the Document's hash without
\* leaving the event loop, and either stops there or goes to store the new one.
Arrives(c, found) ==
  /\ pc[c] = "idle"
  /\ hash' = [hash EXCEPT ![c] = file]
  /\ known' = [known EXCEPT ![c] = found]
  /\ GoesTo(c, IF found = file THEN "current" ELSE "upsert")
  /\ latest' = IF found = file THEN latest ELSE c
  /\ UNCHANGED <<file, text, chunk, landed, late, graph, queued>>

Begin(c) ==
  /\ \E found \in IF hashes = {} THEN {None} ELSE hashes : Arrives(c, found)
  /\ disturbed' = IF latest' = c THEN ~ Quiet ELSE disturbed
  /\ UNCHANGED failures

\* The same, and the read of the Document's hash raised, which counts as none.
BeginBlind(c) ==
  /\ Arrives(c, None)
  /\ Fails(1)

\* The Document is stored and its old extracts are archived, or not: either
\* way the file is read, cut into chunks and embedded, and the first chunk's
\* extract is created.
ReadsText(c) ==
  /\ text' = [text EXCEPT ![c] = file]
  /\ IF Size[file] = 0
       THEN GoesTo(c, "answered") /\ UNCHANGED chunk
       ELSE GoesTo(c, "extract") /\ chunk' = [chunk EXCEPT ![c] = 1]

UpsertedThenReads(c) ==
  /\ pc[c] = "upsert"
  /\ Settles(c, 0)
  /\ ReadsText(c)
  /\ UNCHANGED <<file, hash, known, graph, queued, latest>>
Upserted(c) ==
  /\ pc[c] = "upsert"
  /\ Settles(c, 0)
  /\ IF known[c] = None
       THEN ReadsText(c)
       ELSE GoesTo(c, "archive") /\ UNCHANGED <<text, chunk>>
  /\ UNCHANGED <<file, hash, known, graph, queued, latest>>

Archived(c) ==
  /\ pc[c] = "archive"
  /\ Settles(c, 0)
  /\ ReadsText(c)
  /\ UNCHANGED <<file, hash, known, graph, queued, latest>>

\* The same, and read_text raises, which is answered as an error, or
\* embed_batch raises, which nothing in the call catches.
ReadingFails(c) ==
  /\ \/ pc[c] = "archive"
     \/ pc[c] = "upsert" /\ known[c] = None
  /\ Settles(c, 1)
  /\ \/ GoesTo(c, "error") /\ UNCHANGED text
     \/ Size[file] > 0 /\ GoesTo(c, "raised") /\ text' = [text EXCEPT ![c] = file]
  /\ UNCHANGED <<file, hash, known, chunk, graph, queued, latest>>

\* The loop goes to its next chunk, or the call answers.
NextChunk(c) ==
  IF chunk[c] < Size[text[c]]
    THEN GoesTo(c, "extract") /\ chunk' = [chunk EXCEPT ![c] = @ + 1]
    ELSE GoesTo(c, "answered") /\ UNCHANGED chunk

\* The chunk's extract is stored, and is linked to the Document next.
ExtractCreated(c) ==
  /\ pc[c] = "extract"
  /\ Returns(c) /\ Fails(0)
  /\ GoesTo(c, "derive")
  /\ UNCHANGED <<file, local, graph, queued, latest>>

\* It is linked, or there was no Document to link it to, and is queued.
ExtractLinked(c) ==
  /\ pc[c] = "derive"
  /\ Returns(c) /\ Fails(0)
  /\ queued' = queued \cup {<<c, chunk[c]>>}
  /\ NextChunk(c)
  /\ UNCHANGED <<file, hash, known, text, graph, latest>>

\* Either write raises: the loop leaves this chunk as it is.
ChunkFailsUnnoticed(c) ==
  /\ pc[c] \in {"extract", "derive"}
  /\ Raised(c) /\ Fails(1)
  /\ queued' = queued \cup {<<c, chunk[c]>>}
  /\ NextChunk(c)
  /\ UNCHANGED <<file, hash, known, text, graph, latest>>
ChunkFails(c) ==
  /\ pc[c] \in {"extract", "derive"}
  /\ Raised(c) /\ Fails(1)
  /\ NextChunk(c)
  /\ UNCHANGED <<file, hash, known, text, graph, queued, latest>>

-----------------------------------------------------------------------------
\* The file is edited, whatever the daemon does meanwhile.
Edit(v) ==
  /\ v # file
  /\ file' = v
  /\ disturbed' = (disturbed \/ InFlight # {})
  /\ UNCHANGED <<pc, local, queue, graph, queued, latest, failures>>

\* The process ends and is started again: calls and abandoned threads are gone.
Crash ==
  /\ InFlight # {}
  /\ pc' = [c \in Calls |-> IF c \in InFlight THEN "lost" ELSE pc[c]]
  /\ QueueLost
  /\ Fails(1)
  /\ UNCHANGED <<file, local, graph, queued, latest>>

Call(c) ==
  \/ Begin(c) \/ BeginBlind(c)
  \/ Upserted(c) \/ Archived(c) \/ ReadingFails(c)
  \/ ExtractCreated(c) \/ ExtractLinked(c) \/ ChunkFails(c)

Next ==
  \/ \E c \in Calls : Call(c) \/ Land(c)
  \/ \E w \in late : LandLate(w)
  \/ \E v \in Contents : Edit(v)
  \/ Crash

Spec == Init /\ [][Next]_vars

-----------------------------------------------------------------------------
(***************************************************************************)
(* Properties.                                                             *)
(***************************************************************************)

TypeOK ==
  /\ file \in Contents
  /\ pc \in [Calls -> {"idle"} \cup Awaiting \cup Ended]
  /\ {hash, known, text} \subseteq [Calls -> Contents \cup {None}]
  /\ chunk \in [Calls -> Nat]
  /\ \A c \in Calls :
       /\ text[c] # None => chunk[c] <= Size[text[c]]
       /\ text[c] = None => chunk[c] = 0
  /\ QueueOK
  /\ inside = InFlight
  /\ hashes \subseteq Contents
  /\ derived \subseteq extracts
  /\ latest \in Calls \cup {None}
  /\ disturbed \in BOOLEAN
  /\ failures \in 0 .. MaxFailures

\* The extracts the Document has.  One whose link failed is not among them, and
\* the query that archives by that link never finds it.
Live == derived \ archived

\* The Loop is never handed an extract that is not in the graph: whatever
\* failed, timed out or crashed, only a chunk whose own writes returned is
\* queued.
QueuedAreStored == queued \subseteq extracts

\* The call that last found a change wins, although nothing serialises calls
\* for one file: its extracts are never archived by a call that began before it,
\* and once it has answered all of them are live and queued.
LatestIngestSurvives ==
  failures = 0 /\ latest # None =>
    /\ \A e \in archived : e[1] # latest
    /\ pc[latest] = "answered" => ExtractsOf(latest) \subseteq Live \cap queued

\* An ingest of a changed file that nothing disturbs puts the Document right,
\* whatever crashes, failures and overlaps came before it: its extracts are the
\* live ones, once each, and its hash is the one the next call will find.
UndisturbedReplaces ==
  ~ disturbed /\ Quiet /\ latest # None =>
    /\ Live = ExtractsOf(latest)
    /\ Live \subseteq queued
    /\ hashes = {text[latest]}

\* "Hash change -> all old DocumentExtract nodes archived, new ones created":
\* once nothing runs, the live extracts are the chunks of the content that the
\* Document's hash names, once each.  It does not hold: the hash is stored first,
\* so a call that fails later leaves a document that counts as current; and two
\* calls that overlap, or an edit between hashing and reading, part the two.
LiveMatchesHash ==
  Quiet => \A h \in hashes :
    /\ {<<text[e[1]], e[2]>> : e \in Live} = {h} \X (1 .. Size[h])
    /\ Cardinality(Live) = Size[h]

=============================================================================
