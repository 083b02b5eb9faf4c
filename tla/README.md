# HippoCampy in TLA+

HippoCampy is a local-first memory for language-model agents: a daemon keeps a
knowledge graph (an Oxigraph store beside a sqlite vector index), agents send it
conversation turns and ask it for context. `src/campy` is about 82,500 lines of
Python, most of it queries, ranking and language-model prompts. What is hard to
get right is the rest: one asyncio event loop, a pool of threads, two background
workers, one lock per database, timeouts that abandon native transactions,
best-effort writes whose failure is swallowed, and queues that live in memory.
That rest is what these modules model.

Paths below are relative to `src/campy/brain` unless they start with `src/`; the
daemon is `src/campy/brain_daemon.py`, called D here (`src/brain_daemon.py` only
re-exports it).

## Inventory

| Component | State | Operations | Interacts with | Correct when |
|---|---|---|---|---|
| Workspace router (`hippocampus/graph/router.py`) | cached clients in LRU order, borrow counts, a lock per workspace | `get`, `release`, `_evict_if_needed`, `close_all_sync` | called by every request; opens clients | one client per directory, none closed while in use, counts exact, cache bounded |
| Request dispatch (D 910-1051, `src/web/server.py` 1007-1101) | one coroutine per call | `_dispatch`, `_dispatch_mcp`, `route_tool_call` | router, tool handlers | every `get` is matched by one `release` |
| Graph gateway (`hippocampus/graph/gateway.py`) | query registry | `run`, `run_sync`, handler queries, timeout, vector insertion | Oxigraph client, vector store | a call is answered, "ok" means stored |
| Oxigraph client (`hippocampus/graph/oxigraph_client.py`) | store, write lock | `execute_write`, `execute_read`, `ping`, `write_node`, `write_edge` | default thread pool, RocksDB | one live write at a time; a star edge has one set of properties |
| Turn capture (`thalamus/tools/capture.py`) | Message, Session, FOLLOWED_BY, estimates | `notify_turn` | gateway, quests, Loop queue | turns stored before queued, chained in order, counted once |
| Consolidation workers (D 618-636, 1053-1164) | two queues and their counters | `_loop_worker`, `_observation_worker`, `_enqueue_observation` | turn capture, `context_status` | pending is exact and settles, nothing strays |
| Gated Consolidation Loop (`temporal_lobe/loop/`) | concepts, relations, facts | `run_loop`'s steps | gateway, language model, embeddings | re-running is idempotent, relations keep one reifier |
| Observations (`temporal_lobe/observations/`) | Observation nodes, their history | `process_turn` | language model, provenance | one live value per key |
| Working memory (`thalamus/working_memory.py`) | LOADED edges, token estimates | `track_loaded`, `update_token_estimate`, hand-over | capture, retrieval | hits and tokens never counted twice |
| Quests and routing (`hippocampus/quest.py`, `hippocampus/hippocampus.py`) | quests, a session's routing state | `get_or_create_*`, `route_session`, `update_routing_strength` | capture | one quest per repository; state only moves forward |
| Plans and provenance (`thalamus/tools/lessons.py`, `hippocampus/provenance.py`) | Plan, PlanStep, dedupe keys | `_create_plan_graph`, `find_live_by_dedupe_key` | capture | a plan is whole or absent, one live plan per key |
| Document ingest (`sensory_cortex/ingest.py`) | Document hash, extracts | `ingest_document` | gateway, Loop queue | a current hash means current extracts |
| Tabular ingest (`sensory_cortex/tabular_*.py`) | sqlite tables, dataset nodes | ingest, query | gateway | tables and nodes agree |
| Session file capture (`sensory_cortex/capture.py`) | journal, offsets, seen ids | `scan_once` | notify_turn | each event ingested once |
| Adapters, transport (`src/campy/adapters`, `src/campy/brain_transport.py`) | offline queue, online flag | `call_brain`, replay | daemon | a turn is delivered, once |
| Warm frontier (`temporal_lobe/warm_frontier.py`) | WARM_NODE edges | clear, write | capture | one frontier at a time |
| Sweep (`brainstem/sweep*.py`) | pathway strengths, archived flags | decay, archive, resurrect | daemon.db | bounded scores, nothing archived twice |
| Periodic tasks (D 1206-1462) | breach counter, stale projects | sweep, checkpoint, restart, watchdog, regeneration | daemon.db, signals | restarts only after consecutive breaches |
| Web panel, REST (`src/web/server.py`, `brainstem/rest_api.py`) | none | tool calls, read-only pages | router or daemon.db | as dispatch |
| Retrieval, derived files, configuration, identity, scrubber, logs, basal ganglia, model providers | little or none | pure functions, text, scores | | |

The behaviours that are hard to test are listed as hazards in `PROJECT.json`,
each at its line; those no property covers say why.

## Modules

```
WorkspaceRouter        WriteService   <- implemented by -  WriteGate
   |  borrowed by                                             |  implements
   |  requests                                                v
   |                            WriteQueue (EXTENDS) <- PlanCreation <- TurnDelivery
   |                                       (EXTENDS) <- SessionContext
   |                                       (EXTENDS) <- DocumentIngest
   |        Consolidation              (EXTENDS) <- TurnCapture
   |              \ EXTENDS                          / EXTENDS
   |               TurnPipeline ---------------------       CaptureJournal
```

Each specification has an `MC` module with the small instance TLC checks, and
those proved about have a `...Proofs` module (`DeliveryProofs` covers
`TurnDelivery` and `PlanCreation`, `TurnCaptureProofs` covers `TurnCapture`,
`Consolidation` and `TurnPipeline`). An action is what one coroutine
does between two suspension points, since asyncio switches nowhere else, or what
one thread does.

**WorkspaceRouter** has an action for each way through `get()`: cached
(`GetCached`), wait for the lock (`GetWaits`), then under the lock found
(`LockedHit`), refused (`LockedReject`) or opened (`LockedOpen`, `OpenDone`,
`OpenFailed`); then `Release`, `Shutdown` and `Restart`. `get()` suspends only
on the lock and in `schema_init`. The cache's order is a relation `older`
rather than a sequence, so that eviction, a loop in the code, is a set: `Victims`
are the idle clients with fewer idle predecessors than the cache has excess
entries. `path` is what the code has no variable for: which directory each
client has open. A client that is dropped after `OpenFailed` is taken to be
closed at once, as CPython's reference counting does. `BackgroundBegin` and
`BackgroundEnd` are the Loop worker, the sweep and the checkpoint task, which
use `daemon.db` without `get()`.

**WriteGate** follows a write from `run()` through the lock (`CallTakesLock`,
`CallWaits`, `TakeLock`), the pool (`StartWrite`, `EndWrite`) and back to the
event loop (`Return`, which also inserts the vector), or through `wait_for`'s
`Timeout`. Waiters are served first come, first served, as `asyncio.Lock`'s deque
does: `before` has who came before whom. Indexing is best effort
(`AnswersCommitted`): without an embedding, a vector store or the node it is a
no-op and the call answers "ok"; only sqlite raising shows. `Embedded` are the
calls that have a vector and a store for it. A handler query or `run_sync`
(`HandlerCall`, `HandlerUpdate`, `HandlerReturn`) keeps the event loop until it
returns (`LoopFree`), while the pool's threads go on. Those in `Many` make several
updates, as `write_edge` and `unwind_co_occurs_with` do, and raise, or die with
the process, between two of them, which leaves the first ones in the store. `Read`, `StartRead` and
`EndRead` are `execute_read` and so `ping`. A cancelled job leaves the pool's
queue if it has not started, and goes on if it has, as `asyncio.to_thread` does.
A `Crash` takes the jobs with it; a transaction that commits just before is an
`EndWrite`.
The pool's threads, the transactional `Store.update` and sqlite are external.
**WriteService** says what callers are promised, with two variables: a query of one
update (`Atomic`) lands entirely or not at all, one of several can stay half done
("partial"), and then its caller was told of an error or of nothing.

**TurnCapture** is `notify_turn` for a turn with a session and a repository, and
what `current_truth` does to the same session: it reads the token estimate and
awaits the write of the estimate plus the tokens of what it found (`Retrievals`,
"inject"), which does nothing where there is no Session.
`pc` names the write a turn is going to or awaits; `Issues` asks for the write
lock (WriteQueue) with the value it has read; `Land` commits the statement of
the turn that holds it; `Passes` and `Breaks` resume the coroutine. Between two
of its writes any time may pass, which stands for the awaited writes other turns
cannot see. A statement selects when it commits (`Selects`) and then changes
the graph (`Writes`); one abandoned by the timeout commits late or never, with
what it had selected or what it finds then (`LandLate`).
`disturbed` remembers the sessions that saw two turns at once or a failure, so
that properties can say what an orderly session may rely on.

**Consolidation** has the two workers of the daemon, the counters of unfinished
tasks as variables of their own (`loopOpen`, `obsOpen`), as `asyncio.Queue` has,
and the outcome of each item. `run_loop` and `process_turn` return or raise.

**TurnPipeline** composes the two: it extends both modules, with the turns for
the workers' items (`TurnPipelineAssumption`). The step of `notify_turn` that
links the message is also the step that puts it in the Loop's queue
(`HandOver`), and one `ProcessEnds` ends both.

**DocumentIngest** is `ingest_document` for one file that `validate_path`
accepts. Its calls go through the WriteQueue and await nothing else, so what
a call does between two writes is one step: `Upserted` and
`Archived` go on, also when their write raised, to read and cut the text and ask
for the first chunk's write. `text` is the content a call read, which need not
be the one it hashed (`hash`), for the owner may `Edit` the file at any time.
`hashes` is a set because an abandoned upsert that commits late replaces what it
saw when it began. `disturbed` is about the latest call that found a change.

**WriteQueue** is the write gate as a caller's module needs it: which calls are
inside `execute_write`, who is `ahead` of whom, whether the holder's statement
has `landed`, and the statements that run on after the timeout (`late`). The
order is a relation, not a sequence, so that the lemmas about it
(`WriteQueueProofs`) hold without arithmetic and serve every module that extends
it. The module that extends it says what a statement selects and changes.
`QueueSpec` is the queue alone, a statement being named by its call, and
`WriteGate` implements it (`ImplementsWriteQueue`): inside are the writers that
wait or await their thread, ahead of a waiter are the holder and the earlier
waiters, landed is a committed job whose coroutine has not resumed, and late are
the jobs of writers that gave up. A job that gave up and then failed stays among
the late ones and never lands, which is how the callers' modules let an abandoned
statement come to nothing. In `QueueSpec`, as in the gate, whose writer is one
awaited write, a call leaves before it asks again; the tools do both in one step,
for nothing else runs on the event loop in between. (Were leaving and asking one
step there too, a lock that is not first come, first served would pass for one
with a waiter that goes to the back.) Handler queries and `run_sync` write outside
the queue.

**SessionContext** is what the calls of one session share besides messages.
A turn without a repository goes through `route_session` (`BeginTurn` to
`SessionLinked`), a turn with one through `get_or_create_main_quest` and
`get_or_create_session` (`BeginRepoTurn` to `SessionJoined`); both then store
their message, clear and write the warm frontier, and the routed one strengthens
its routing. `BeginRetrieval` to `LoadsCounted` is `track_loaded`. `LoopActivates` is
the Loop's `activate_warm_node`, which adds a node to the frontier and clears
nothing; `added` has what it added since the last clearing. Confidence is
in hundredths; the thresholds 60, 85 and 95 are the code's. Fields of the
session are sets of values, because RDF keeps two where a late statement
replaced what it had read before. What a call has in its Python variables is in
`put`, `warms`, `todo`, `hit`, forgotten when it ends.

**PlanCreation** is the daemon's execution of a turn that holds a plan: message,
search of the vector index (`Indexed`), lookup by dedupe key, then Plan, steps,
links, PLANNED_IN and NEXT_STEP one awaited write at a time, and the
compensating delete when one raises. Every execution has ids of its own, so an
execution stands for the plan it writes. **TurnDelivery** adds the other end:
adapter processes that call over the socket and then over HTTP, take a soft
failure for an offline daemon, append the turn to the file all adapters share,
and replay that file after the next success. The daemon stops and starts
(`Stop`, `Start`), clients end adapters (`Restarts`). A wait for an answer times
out (`TimesOut`); a request that is more than the socket's buffer holds (`Large`)
and that the daemon has not read is still being sent, which has no timeout over
the socket (`Unread`), and ends only when the daemon does (`Refused`, `CutOff`).
`told` is what the turn's client was answered; `dropped` records where the code
gives up a line, so that the property can say it is lost nowhere else.

**CaptureJournal** is `scan_once` for connectors on one event loop. A file's
length is in half lines, so that a reader can meet a line that is being written;
`Parsed` is what a parser reads from a position on and where it leaves the
cursor. `memory` is a connector's copy of cursors and seen ids, `state` the file
its `Saves` replaces. A seen id (`Id`) is the event and, if its row has no
timestamp (`Undated`), the time at which it was parsed, so that it is another id
each time it is read; the last `MaxSeen` ids are kept (`Latest`; 10000 in the
code), and `cut` has the events whose id a connector let go. `missed` has the
events the reader leaves behind by
design, `unsaved` counts ends of the process that forgot a seen event, `raised`
the scans an ingestion ended by raising. Files
grow (`Appends`) and are written anew (`Rewrites`).

Definitions that no specification uses, placed just before another one
(`ReleaseUnguarded` before `Release`), state a slip one could make in that code;
`PROJECT.json` pairs each property with one that violates it.

## What is checked

| Run | Instance | Question | Result |
|---|---|---|---|
| `router` | 3 requests, 4 workspaces (one refused), room for 2, 4 clients; 51,550 states | can racing, failing, evicting and shutting down close a client in use, open a directory twice, leak one, lose a count, or leave a waiter waiting? | no |
| `router_background` | 2 requests, a background coroutine | does eviction spare `daemon.db` while a background coroutine works on it? | **no** |
| `gate` | 3 writes, 2 handler queries (1 of several updates), 1 read, 2 threads; 47,655 states | mutual exclusion, durability, answers; is the gate the service and the queue the other modules rely on? | hold |
| `capture` | 2 turns of one session, versions of one memory, and a third turn or a retrieval; one failure or crash; 2.74 million states | what may overlap and failure break? | see below |
| `capture_order` | the same without failures | do FOLLOWED_BY edges go forward in time? | **no** |
| `consolidation` | 3 user turns, 1 answer, 1 extract, Observation queue of 1; 203,000 states | are the counters honest, does polling end, does the Loop ever wait? | yes, yes, never |
| `pipeline` | 2 turns of one session, Observation queue of 1, one failure; 243,223 states | does an answered turn count as pending until settled, does the Loop follow the chain, does capture depend on the Loop? | yes, yes, no |
| `ingest` | 3 calls for one file of two chunks or none, one failure or crash; 240,000 states | what may overlap, edits and failure break, and what repairs it? | see below |
| `ingest_failure` | 2 calls, one failure or crash | are the live extracts those of the stored hash? | **no** |
| `session` | 3 calls, each a turn or a retrieval, 2 nodes, an activation by the Loop, one failure or crash; 2.21 million states | what of quest, routing, frontier and load counts survives overlap, and what only order? | see below |
| `delivery` | 2 adapters with 2 turns, one of them too large for the socket, or 1 with a turn that holds a plan of 3 steps; 3 executions, one failure and a failing delete; 449,000 states | is a client told the truth, is a plan whole or absent, does a retry find it, is every request answered? | yes |
| `journal` | 2 connectors, 3 files, 3 events a scan, 3 seen ids kept, one file without timestamps, 2 failures; 1.17 million states | does an event fall between two scans, or is one journalled more often than failures explain? | no |

**router.** `BusyClientStaysOpen` is the class docstring's promise;
`BorrowsMatchUsers` is why it holds; `OneClientPerDirectory` is what the
double-check under the lock is for; `EvictsLeastRecentIdle` and `CacheBounded`
are about the eviction loop with busy clients in the way. Two requests are
enough for a race to open, the third fills the cache of two while the first two
hold clients; a fifth client object is never needed at once by three requests.

**gate.** Two threads and three writes let one abandoned write keep a thread,
another hold the lock and the third wait; the read then finds the pool full.
`ReadsReturnWhilePoolHasRoom` states the limit of `ping`'s comment that "a long
write can't make a healthy store look dead": it holds until as many writes as
the pool has threads never end. `ImplementsWriteQueue` is what the modules of the
tools take for granted of the gate; three writes are a holder and two waiters, so
that a lock which is not first come, first served would show.
`AckedIsStored` says that "ok" is never said of a write that
is not in the store, nor of a handler query half done, and that the index names no
node whose write did not commit; the converse, that what is stored is indexed, is
nothing the code promises. One writer and one handler have a vector to index. A
run makes one call of a handler or of a read beside the three writes, for those
meet only on the event loop.

**capture.** Overlap may lose tokens but never count them twice, whether turns or
`current_truth` add them (`EstimateCountsCalls`); it may chain a message to a later one
(`capture_order`) but never close a cycle (`ChainHasNoCycle`), because a link
commits under the lock and is followed, before the next link can commit, by the
search for the previous message. Whatever fails, the Loop is not handed a
message that was not stored. Turns that come one at a time without failure are
chained one to the next (`SequentialTurnsAreChained`), counted exactly, and
leave one live version of a memory (`SequentialVersionsSupersede`), also across
a restart between two of them. Three turns are needed for a chain with a
middle and for `Newest` to have a choice; one failure, for a timed-out statement
that lands among the writes of the others. A retrieval touches nothing but the
estimate, for which two turns beside it are enough: it stands in for the third one.

**consolidation.** `PollIsHonest` is what benchmarks rely on when they poll
`context_status`; it fails if `_enqueue_observation` came after `task_done`. The
Observation queue of one with three user turns is full while its worker is busy.

**pipeline.** `LoopFollowsTheChain` relates the graph to the queue: of two turns
with an edge between them the Loop takes the first one first, also when they
overlap.

**ingest.** Nothing keeps two calls for one file apart. Still the later one wins
(`LatestIngestSurvives`): its extracts are never archived by the earlier, since
both pass the write lock in order and the earlier one's archiving comes first.
`UndisturbedReplaces` says what repairs a document after a crash, a failure or
an overlap: an undisturbed ingest of a changed file. One extract is beyond it:
one whose DERIVED_FROM link failed stays unarchived for ever, because archiving
goes by that link; `Live` leaves it out. Three calls are a broken ingest or a
first version, and two that overlap; the content without chunks and the one
with two have different hashes, so an edit and its reversal are both there.

**session.** Three calls are two turns that overlap, or two retrievals, and a
third that shows what they left. `FrontierOfOneTurn` is the surprise: although
clearing and writing the warm frontier are separate awaits, the edges are
written on the event loop in the step that frees the lock, so a later clearing
removes all of them, and the frontiers of two turns never mix while no write
fails; what the Loop activated since then comes on top. The Loop activates one
node, and only in behaviours without retrievals, which do not touch the frontier.
`ConsolidatedIsConfident` says why lost updates of the routing strength are
harmless: both fields travel together. Only turns one at a time keep one quest
per session (`SequentialTurnsShareAQuest`) and never take the routing back
(`SequentialRoutingStrengthens`). `HitsCountLoads` bounds the hits whatever
overlaps. `Scores` is the one value 80, between the thresholds 60 and 85: one
confirming message lifts it to consolidated, an unconfirming one does not.
`MaxWarmNodes` is 1 of 2 nodes, so that two frontiers can differ.

**delivery.** `ToldIsTrue` follows a turn from its client over timeouts, the
offline file and its replay; two adapters are needed for the race between
reading and unlinking the file. `PlanIsAllOrNothing` and `RetriesShareAPlan` are
about executions of one turn: three of them are a first attempt, its retry, and
a replay. A plan of three steps, the fewest `notify_turn` accepts, has a first,
a middle and a last. `AdapterAnswers` is the adapter's promise never to hang
(`src/campy/adapters/mcp_server.py` 76), with its exception: `wait_for` covers
`readline`, not `drain` and `wait_closed`, so a turn too large for the socket's
buffer keeps the adapter as long as the daemon is there and does not read it. One
of the two turns is large. Requests of other tools are taken to fit.
`MCNext` sends turns and begins executions in one order, since they are
interchangeable, and lets a plan's turn meet one adapter only: what two adapters
add is in the file, not in the plan. A second failure is one of the deletes that
undo a plan (`DroppingFails`), which needs a first.

**journal.** One file holds two events a line, as VS Code's do, and is written
half a line at a time; one may be written anew; three events a scan end a scan
in the middle of things. Three seen ids are fewer than the first file's four events, so
that the oldest is let go; the file whose row has no timestamp is read again, under a new id,
after an ingestion raised (`JournalledOnce` allows for both and for nothing else).
Two failures are a raised ingestion and a restart, or
two restarts. A file
is read in one step, so `MCNext` lets files change only while no scan runs.

A turn is sent once, an item put once, a write called once: deadlock is off in
those runs, where all calls being answered is the end. It is on for the router
and for `ingest`, which can always go on: requests come, files are edited.
`MaxFailures` bounds exceptions and crashes in
`capture`, `pipeline`, `ingest`, `session`, `delivery` and `journal`; `Timeout`,
`Crash` and failures are unbounded elsewhere. Symmetry is used only without
liveness: the two versions of the memory in `capture`; the calls in `ingest`;
calls and nodes in `session`. In `router` and `delivery`, which have liveness,
the `MC` module's next-state relation takes interchangeable clients, executions
and turns in order instead.

### Fairness

* router: asyncio wakes a lock's waiters in FIFO order, which the model leaves
  open; strong fairness of a waiter's next step stands for it. `schema_init`
  (a thread running finite statements) and handlers end: weak fairness.
* gate: the timer of `wait_for` fires; the pool's FIFO queue is served while a
  thread is free (strong fairness of `StartWrite`, `StartRead`); a read ends, and so does a handler
  query, which is of one edge or a few.
  Nothing is assumed of a native write: one was seen to run for hours (B447).
* consolidation: the Loop's worker goes on, for the model clients have timeouts
  (`llm/provider.py` 81-90) and writes have 60 s. The Observation worker is
  assumed to go on only inside `SettleWaitEnds`; `LoopNeverWaitsForObservations`
  holds without it.
* delivery: the timer of an adapter that waits for an answer fires, its own steps
  are taken, and it notices a daemon that stays away. Nothing is
  assumed of the daemon, which may hang for good.
* pipeline: a call that has begun goes on and a running statement commits or is
  given up; nothing is assumed of the workers.

## What is proved

For every value of the constants that satisfies the modules' assumptions, which
are only that the sets are finite, the bounds positive and the distinguished
values distinct:

* **Router.** `RouterTyped` (types, in particular that counts never go below
  zero); `RouterSafety`: the inductive invariant `RouterInv`. `BusyClientStaysOpen`
  is not inductive alone: one must know that a count is the number of users
  (`BorrowsMatchUsers`, by counting lemmas on finite sets), that whoever opens
  holds the lock (`LockDiscipline`), owns its client alone (`OpenerOwnsClient`),
  and that cached clients are open on their own directory (`CachedIsOpen`). From
  it follow `BorrowAccounting`, `BusyClientSafety`, `DirectoryExclusion`,
  `ClientsAreReachable`. `CacheStaysBounded` and `EvictionInOrder` also need that
  the LRU order is a strict total order of what is cached (`CacheOrdered`): so
  what eviction closes is downward closed among the idle clients, and the first
  idle client it leaves (`FirstExists`, by the well-foundedness of strict
  inclusion) counts how many it closed (`VictimsInOrder`).
* **Write gate.** `GateSafety`: `WriteGateInv`, which says that awaiting a thread
  and holding the lock are the same thing and that jobs exist exactly from then
  on (`GateDiscipline`), and that waiters are in the order in which they came
  (`WaitersInOrder`). From it `LiveWritesExclude`, `AcknowledgedIsDurable`
  (`AckedIsStored`: "ok" means all of it is in the store, and the index may miss a
  node but names none that is not there),
  and `GateImplementsService`, with handler queries that stop between two
  updates: initial states map to initial states, every step
  to a `Move` of one call, a `Crash`, or a stutter. `GateImplementsQueue` is the
  other refinement: each action of the gate is one of the queue's under the
  mapping or leaves it alone, and a waiter that is served, or leaves, keeps the
  order of the rest (`LeavingKeepsOrder`). `QueueStaysOrdered` says that the order
  `QueueOK`, on which the proofs about the tools rest, is the queue's own.
* **Consolidation**, for any items. `ConsolidationSafety`: counters equal queue lengths plus what
  is in flight, and an unsettled item is in a queue or in flight (`NoneStrayed`);
  from it `PollHonesty`, since counters at zero leave no such place.
* **Delivery.** `DeliverySafety`: `DeliveryInv`. `ToldIsTrue` is about adapters,
  but rests on the daemon: an execution past its first await has stored its
  message (`MessageIsFirst`), a late statement belongs to an execution that began
  (`LateIsBegun`), and replaying follows a success (`ReplaysAfterSuccess`), for
  which the lock's order must be total (`WriteQueueProofs`). A queued turn is in
  the file, or with an adapter that is past unlinking it, or stored, or dropped
  (`QueuedIsKept`). From it `ClientsAreToldTheTruth` and, with what an adapter is
  at work on (`AskedOK`), `DeliveryTyped`.
* **Plans.** `PlanSafety`: `PlanInv`. By the write an execution awaits one knows
  which of the plan's triples are in the graph (`PlanAt`, `PlanLanded`), if none
  of its own statements is at large; those that gave one up are `strayed`, have
  failed, and are left out. From it `PlansAreAllOrNothing`. `RetriesShareThePlan`
  adds `QuietInv`: while executions of a turn neither overlap nor fail, the plans
  in the graph are of different turns and an execution comes to create one only
  where there is none.
* **Ingest.** `IngestSafety`: `IngestInv`, what a call has computed (`CallsOK`)
  and stored (`StoredFirst`) when it awaits its next write, and what an abandoned
  statement can still store (`LateOK`). From it `QueuedExtractsAreStored`.
  `LatestWins` needs the order of the lock: while nothing has failed, whoever may
  still archive is ahead of the latest call, and that has linked no extract yet
  (`ArchivesFirst`); from there `WritesAll` follows its chunks.
  `UndisturbedIngestReplaces` is about the call that runs alone after anything
  else, crashes and failures included: it needs `AloneOK`, the graph at each of
  its writes, and of what earlier calls left only that extracts hang on a
  Document with a hash (`LateKeepsOK`): no statement given up earlier still runs
  when such a call comes.
* **Capture.** `CaptureSafety`: `CaptureInv`. A turn past the write of its message
  has stored it (`StoredFirst`), and what an abandoned statement selected is
  stored when it is to be linked (`LateOK`); from it `HandedOverIsStored`.
  `ChainIsAcyclic` needs the lock: a message is linked to its session only while
  its turn holds the lock at that write, or after (`SentIsPast`), and what others
  follow is of a turn past it (`FollowedIsPast`). So a new edge leads from such a
  message to one that nothing follows yet, and that closes no cycle.
  `SequentialChain` and `LastVersionIsLive` are about sessions whose turns come
  one at a time, among any others: `SequentialInv` says that what the graph holds
  of such a session is a function of where its turns are (`EffectsOK`), by the
  order in which they came, counted by `born` (`ComingOK`). `EstimateIsHonest`:
  the estimate and every sum on its way to it, in a turn or a retrieval that has
  read the old one or in a statement given up, are at most the tokens of the calls
  that may have counted (`EstimatesOK`), and in an orderly session they are exactly
  that (`SumOK`). What it needs of sums over a set (`TokensAdd`, `TokensGrow`) is proved
  by unfolding the community modules' `MapThenSumSet` once and by the
  well-foundedness of strict inclusion (`SumIsAdditive`).
* **Pipeline.** `PipelineImplementsWorkers`: a step of the composition is a step
  of the workers' specification or leaves it alone, so the workers' theorems hold
  in it, and `CaptureInv` holds because it is also a step of `notify_turn` or
  leaves that alone. `PipelineInv` ties the two: a turn is put in the queue by the
  step in which its link returned (`PutAtLink`), once (`QueuedOnce`), and behind
  the message it follows (`QueueFollowsChain`). From it `AnsweredTurnsSettle` and
  `LoopKeepsTheChain`.
* **Session context.** `ContextSafety`: `ContextInv`, which holds whatever
  overlaps and fails (types, `ContextTyped`; what calls and abandoned statements
  are about to write, `CallOK`, `LateOK`; that hits lag behind loads, `LoadsOK`).
  Its other properties speak of sessions to which less happens, so each needs an
  invariant of those. While nothing fails, `UnfailedInv`: a turn past the write
  that made the Session knows it is there, so it has read the confidence that goes
  with the state it writes, and no abandoned statement is left to undo it
  (`ConsolidatedWithConfidence`); and a cleared frontier is the lock holder's, who
  writes its own in the step that frees the lock, the Loop's activations on top
  (`FrontierIsOneTurns`). If
  calls also come one at a time, `SequentialInv`: the place of the one call under
  way says how far quests, Session and edges are apart, and at rest they agree
  (`SequentialQuest`, and `RoutingStrengthens`, since what the call writes was
  computed from the routing it overwrites). For retrievals among these,
  `CountedInv`: every load is counted but the one whose hit is being written
  (`HitsAreLoads`).
* **Journal.** `JournalSafety`: `JournalInv`. What is behind a cursor was handled
  (`CursorsBehind`), what was read and is not handled yet is still in the batch
  (`BatchIsLeft`), what was seen was handled or is being ingested
  (`SeenIsHandled`), and an unseen event in the journal is paid for by an end of
  the process (`UnseenIsRare`). From it `NoEventFallsThrough`.
  `NoEventIsJournalledTwice` also has to bound how often an event without a
  timestamp is read again, for which there is a second invariant, `RereadInv`:
  the cursors and the batch of a connector only go forward in a file, and an event
  journalled more often than scans raised and the process ended is settled
  (`Settled`): its last id is among the seen ones, its connector has gone past it,
  and so has every copy of the state that holds that id (`RereadIsRare`). The
  arithmetic of lines and half lines is in
  lemmas of their own.

Only model-checked: liveness (`WaitingEnds`, `EveryWriteReturns`,
`ReadsReturnWhilePoolHasRoom`, `SettleWaitEnds`, `LoopNeverWaitsForObservations`,
`CaptureNeverWaitsForTheLoop`, `AdapterAnswers`), because fairness and ENABLED
are out of the prover's reach. Every invariant, action property and refinement of
a passing run is the subject of a theorem. The three properties that runs show
violated are refuted, not proved.

## What the checks found

* Eviction can close `daemon.db` under the Loop worker, the sweep or the
  checkpoint task (`router_background`), against the router's docstring.
* Handler queries and `run_sync` write without the lock that a comment in the
  gateway says serializes every write (`HandlerUpdate` in `WriteGate`); `write_edge`
  and `unwind_co_occurs_with` leave half their work in the store when they raise.
* Overlapping turns get FOLLOWED_BY edges that run backwards in time
  (`capture_order`).
* A document whose ingest fails after its hash was stored counts as current and
  has no extracts until the file changes again (`ingest_failure`); two overlapping
  calls leave two generations of extracts live, and an edit between hashing and
  reading leaves extracts of another content than the hash's.
* No LOADED edge is ever written for a proactive push: none of the pushed node
  types is one `track_loaded` accepts (read while modelling; no run).
* A plan whose first write attempt failed is never created: the compensating
  delete leaves its vector in the index, and every retry takes that for a plan
  (`Indexed` in `PlanCreation`). The delete is not atomic either: a create given
  up by the timeout may land after it.
* An execution that overlaps finds a half-written plan by its key and answers
  with the steps written so far.
* A turn queued offline is not replayed by a new adapter process until the
  next outage, and can be deleted unread by another adapter.
* An adapter can hang although it is said never to: sending a turn larger than the
  socket's buffer to a daemon that does not read has no timeout (`Unread`).
* A line of a session file that is read while half written is never ingested,
  nor an event whose ingestion raised; an event without a timestamp that was read
  before one whose ingestion raised is journalled again at the next scan, under
  another id; and nothing in the program creates the
  connectors its configuration enables.
* Smaller disagreements of comments and code (occurrences of old warm frontiers,
  the SideQuest fallback that never runs, the tail rule for new files, restarts
  that lose the queues) are in `PROJECT.json`, with the lines.

## Not modelled

* In `notify_turn`: the session called "unknown", empty content, outcome lessons,
  external ids, turn dates. In the workers: malformed queue items, which no
  producer makes, and `emit_activity`.
* Which nodes a query selects, beyond what the callers' modules need; ranking,
  bundles, prompts, embeddings, formatting. Most of the repository is this: some
  500 named queries, each a text of SPARQL with one caller and no state between
  calls (`hippocampus/graph/queries`, 25,000 lines), the schema, the ARC tools'
  scores, bundle compilation and the language-model prompts. A model of them
  would be the text once more, and there is no second actor to interleave with;
  that is why the map covers a small share of the lines.
* In `ingest_document`: files `validate_path` refuses or that cannot be hashed,
  how the text is cut, and the dispatch to tabular ingest.
* Other writers of a session: the sweep prunes the edges of sessions idle for 30
  days (`brainstem/sweep.py` 747), the quest tool locks a routing
  (`thalamus/tools/quests.py` 95-148), and re-routing deletes WORKING_ON
  (`hippocampus/hippocampus.py` 494).
* In the vector index: the handler queries that write a vector and nothing else.
* In `route_session`: how System 1 scores a quest and System 2 decides; in
  `compute_warm_frontier` which nodes it activates. Both are choices.
* In the transport: a configured `BRAIN_URL`, the soft-failure state file.
* The storage engines: RocksDB and sqlite are transactions that commit or fail.
* `WorkspaceRouter.close` and `close_all`, `mark_superseded` and `delete_vector`,
  which nothing in the program calls.
* The footprint watchdog's breach counter and the regeneration of stale projects:
  one coroutine each, with one variable.

## Plan

1. `TabularIngest`: the sqlite tables beside the graph and the dataset's nodes,
   written one after the other.
2. `DocumentChunks`: `chunk_document` and `_split_oversized` as functions on short
   texts: every chunk's offsets point at its own text (the splitter strips blanks
   from the rest without moving its offset).
3. Composition of the router with the pipeline over two workspaces, where the
   Loop runs every workspace's turns on `daemon.db`.
