------------------------------- MODULE WriteGate -------------------------------
(***************************************************************************)
(* The write path of the knowledge graph: GraphGateway.run (graph/         *)
(* gateway.py) on top of OxigraphClient.execute_write (graph/              *)
(* oxigraph_client.py).  A SPARQL write takes one asyncio.Lock, runs in a  *)
(* thread of the event loop's default pool, is given up after a timeout    *)
(* that also covers the wait for the lock, and is followed, on the event   *)
(* loop, by the insertion of the node's vector into sqlite, if the query   *)
(* declares one, the call carries one and the vector store has opened.     *)
(* The queries served by _handle_oxigraph_handler, and run_sync, write     *)
(* from the event loop itself, without the lock: it does nothing else      *)
(* until they return, but the threads of the pool go on.  A handler query  *)
(* may make several updates (write_edge removes the old reifiers of a star *)
(* edge, then inserts; unwind_co_occurs_with writes an edge per pair) and  *)
(* raise between two of them.  Reads share the thread pool.  The handler   *)
(* queries that write a vector and nothing else are left out.              *)
(*                                                                         *)
(* Each call is made once.  The native Store.update is a transaction: a    *)
(* thread runs it for as long as it likes and then commits it or fails.    *)
(* One whose pattern matches nothing commits an empty write.               *)
(*                                                                         *)
(* No specification uses the definitions that state a plausible slip in    *)
(* the code of the definition right after them (CallUnlocked before        *)
(* CallTakesLock).                                                         *)
(***************************************************************************)
EXTENDS Naturals, FiniteSets

CONSTANTS
  Writers,    \* calls of run() with a mutating SPARQL query
  Handlers,   \* calls that write synchronously on the event loop
  Embedded,   \* the calls with a vector to index, and a vector store for it
  Many,       \* the handler queries that make more than one update
  Readers,    \* calls of execute_read, ping() among them
  PoolSize,   \* threads of the default executor
  None

ASSUME WriteGateAssumption ==
  /\ IsFiniteSet(Writers) /\ IsFiniteSet(Readers)
  /\ Writers \cap Handlers = {}
  /\ Embedded \subseteq (Writers \cup Handlers) \ Many
  /\ Many \subseteq Handlers
  /\ None \notin Writers
  /\ PoolSize \in Nat \ {0}

VARIABLES
  pc,        \* each write call: not made, waiting, awaiting its thread,
             \* updating the store on the event loop, answered
  thread,    \* each write's job: "none", "queued", "running", "part" of its
             \* updates made, and how it ended
  lock,      \* OxigraphClient._lock: the writer that holds it
  before,    \* for each waiter, those that came to wait before it
  indexed,   \* the calls whose vector is in sqlite
  reading    \* each read: "idle", "queued", "running", "done"

vars == <<pc, thread, lock, before, indexed, reading>>

Calls == Writers \cup Handlers
Answered == {"ok", "error", "lost"}

\* The event loop is not inside a handler: it can run something else.
LoopFree == \A h \in Handlers : pc[h] # "updating"

Busy(c) == thread[c] = "running"
Occupied == Cardinality({w \in Writers : Busy(w)})
              + Cardinality({r \in Readers : reading[r] = "running"})

Init ==
  /\ pc = [c \in Calls |-> "idle"]
  /\ thread = [c \in Calls |-> "none"]
  /\ lock = None
  /\ before = [w \in Writers |-> {}]
  /\ indexed = {}
  /\ reading = [r \in Readers |-> "idle"]

-----------------------------------------------------------------------------
Waiting == {w \in Writers : pc[w] = "waiting"}

\* A writer leaves asyncio's queue of waiters, if it was in it.
NoLongerWaits(w) ==
  before' = [v \in Writers |-> IF v = w THEN {} ELSE before[v] \ {w}]

\* execute_write has the lock and hands the statement to the pool.
Submit(w) ==
  /\ pc' = [pc EXCEPT ![w] = "awaiting"]
  /\ thread' = [thread EXCEPT ![w] = "queued"]
  /\ lock' = w
  /\ NoLongerWaits(w)
  /\ UNCHANGED <<indexed, reading>>

Contended == lock # None \/ Waiting # {}

\* run() is called; the lock is free and nobody waits for it, or it is not.
CallUnlocked(w) ==
  /\ LoopFree
  /\ pc[w] = "idle"
  /\ Submit(w)
CallTakesLock(w) ==
  /\ LoopFree
  /\ pc[w] = "idle"
  /\ ~ Contended
  /\ Submit(w)

CallWaits(w) ==
  /\ LoopFree
  /\ pc[w] = "idle"
  /\ Contended
  /\ pc' = [pc EXCEPT ![w] = "waiting"]
  /\ before' = [before EXCEPT ![w] = Waiting]
  /\ UNCHANGED <<thread, lock, indexed, reading>>

\* The waiter that has waited longest gets the lock.
TakeLockUnfair(w) ==
  /\ LoopFree
  /\ pc[w] = "waiting"
  /\ lock = None
  /\ Submit(w)
TakeLock(w) ==
  /\ LoopFree
  /\ pc[w] = "waiting"
  /\ before[w] = {}
  /\ lock = None
  /\ Submit(w)

\* A thread of the pool picks up the write, runs it, and commits or raises.
StartWrite(w) ==
  /\ thread[w] = "queued"
  /\ Occupied < PoolSize
  /\ thread' = [thread EXCEPT ![w] = "running"]
  /\ UNCHANGED <<pc, lock, before, indexed, reading>>

EndWrite(w) ==
  /\ thread[w] = "running"
  /\ \E end \in {"committed", "failed"} : thread' = [thread EXCEPT ![w] = end]
  /\ UNCHANGED <<pc, lock, before, indexed, reading>>

\* The update is committed and the call answers.  Without a vector to index it
\* is "ok"; with one, the node may not be found, which is "ok" too, and sqlite
\* may raise, after the vector or before it, which the caller sees.
AnswersCommitted(c) ==
  \/ /\ c \notin Embedded
     /\ pc' = [pc EXCEPT ![c] = "ok"]
     /\ UNCHANGED indexed
  \/ /\ c \in Embedded
     /\ \E answer \in {"ok", "error"} : pc' = [pc EXCEPT ![c] = answer]
     /\ indexed' \in {indexed, indexed \cup {c}}

\* The awaiting coroutine resumes: it releases the lock and, without another
\* suspension, indexes the node and answers; or the statement has raised.
ReturnIgnoringFailure(w) ==
  /\ LoopFree
  /\ pc[w] = "awaiting"
  /\ thread[w] \in {"committed", "failed"}
  /\ lock' = None
  /\ AnswersCommitted(w)
  /\ UNCHANGED <<thread, before, reading>>
Return(w) ==
  /\ LoopFree
  /\ pc[w] = "awaiting"
  /\ lock' = None
  /\ \/ /\ thread[w] = "failed"
        /\ pc' = [pc EXCEPT ![w] = "error"]
        /\ UNCHANGED indexed
     \/ /\ thread[w] = "committed"
        /\ AnswersCommitted(w)
  /\ UNCHANGED <<thread, before, reading>>

\* wait_for gives up: a waiter leaves the queue, a holder releases the lock.
\* A job still in the pool's queue is cancelled, a running one goes on.
TimeoutForLockOnly(w) ==
  /\ LoopFree
  /\ pc[w] = "waiting"
  /\ pc' = [pc EXCEPT ![w] = "error"]
  /\ NoLongerWaits(w)
  /\ UNCHANGED <<thread, lock, indexed, reading>>
Timeout(w) ==
  /\ LoopFree
  /\ pc[w] \in {"waiting", "awaiting"}
  /\ pc' = [pc EXCEPT ![w] = "error"]
  /\ thread' = [thread EXCEPT ![w] = IF @ = "queued" THEN "none" ELSE @]
  /\ lock' = IF lock = w THEN None ELSE lock
  /\ NoLongerWaits(w)
  /\ UNCHANGED <<indexed, reading>>

-----------------------------------------------------------------------------
\* A handler query or run_sync takes the event loop until it returns.
HandlerCall(h) ==
  /\ LoopFree
  /\ pc[h] = "idle"
  /\ pc' = [pc EXCEPT ![h] = "updating"]
  /\ UNCHANGED <<thread, lock, before, indexed, reading>>

\* It makes an update, its last one or, if it makes several, one before it.
HandlerUpdate(h) ==
  /\ pc[h] = "updating"
  /\ thread[h] \in {"none", "part"}
  /\ \/ thread' = [thread EXCEPT ![h] = "committed"]
     \/ h \in Many /\ thread' = [thread EXCEPT ![h] = "part"]
  /\ UNCHANGED <<pc, lock, before, indexed, reading>>

\* It has made them all and answers, or one of them has raised: what the
\* updates before it did stays in the store.
HandlerReturnSkipping(h) ==
  /\ pc[h] = "updating"
  /\ thread[h] # "none"
  /\ AnswersCommitted(h)
  /\ UNCHANGED <<thread, lock, before, reading>>
HandlerReturn(h) ==
  /\ pc[h] = "updating"
  /\ \/ /\ thread[h] # "committed"
        /\ thread' = [thread EXCEPT ![h] = IF @ = "none" THEN "failed" ELSE @]
        /\ pc' = [pc EXCEPT ![h] = "error"]
        /\ UNCHANGED indexed
     \/ /\ thread[h] = "committed"
        /\ AnswersCommitted(h)
        /\ UNCHANGED thread
  /\ UNCHANGED <<lock, before, reading>>

\* execute_read: no lock, a thread of the same pool, no timeout.
Read(r) ==
  /\ LoopFree
  /\ reading[r] = "idle"
  /\ reading' = [reading EXCEPT ![r] = "queued"]
  /\ UNCHANGED <<pc, thread, lock, before, indexed>>

StartReadAlone(r) ==
  /\ reading[r] = "queued"
  /\ Occupied = 0
  /\ reading' = [reading EXCEPT ![r] = "running"]
  /\ UNCHANGED <<pc, thread, lock, before, indexed>>
StartRead(r) ==
  /\ reading[r] = "queued"
  /\ Occupied < PoolSize
  /\ reading' = [reading EXCEPT ![r] = "running"]
  /\ UNCHANGED <<pc, thread, lock, before, indexed>>

EndRead(r) ==
  /\ reading[r] = "running"
  /\ reading' = [reading EXCEPT ![r] = "done"]
  /\ UNCHANGED <<pc, thread, lock, before, indexed>>

\* The process ends and starts again.  Its jobs are gone; a transaction that
\* committed just before is an EndWrite.
Crash ==
  /\ lock' = None
  /\ before' = [w \in Writers |-> {}]
  /\ pc' = [c \in Calls |-> IF pc[c] \in {"idle"} \cup Answered THEN pc[c]
                                                                   ELSE "lost"]
  /\ thread' = [c \in Calls |-> IF thread[c] \in {"committed", "part"}
                                   THEN thread[c] ELSE "none"]
  /\ reading' = [r \in Readers |-> IF reading[r] = "idle" THEN "idle" ELSE "done"]
  /\ UNCHANGED indexed

Next ==
  \/ \E w \in Writers :
       \/ CallTakesLock(w) \/ CallWaits(w) \/ TakeLock(w)
       \/ StartWrite(w) \/ EndWrite(w)
       \/ Return(w) \/ Timeout(w)
  \/ \E h \in Handlers : HandlerCall(h) \/ HandlerUpdate(h) \/ HandlerReturn(h)
  \/ \E r \in Readers : Read(r) \/ StartRead(r) \/ EndRead(r)
  \/ Crash

Spec == Init /\ [][Next]_vars

(***************************************************************************)
(* wait_for's timer fires, the pool starts what is queued while it has a   *)
(* free thread (its queue is FIFO, hence strong fairness), a read that     *)
(* runs ends, and so does a handler, of one edge or a few.  Nothing is     *)
(* assumed of the statement of a native write: B447 saw one run for hours. *)
(* (A handler's update that did would keep the event loop, and with it     *)
(* every timeout.)                                                         *)
(***************************************************************************)
Fairness ==
  /\ \A w \in Writers : WF_vars(Timeout(w)) /\ SF_vars(StartWrite(w))
  /\ \A h \in Handlers : WF_vars(HandlerReturn(h))
  /\ \A r \in Readers : SF_vars(StartRead(r)) /\ WF_vars(EndRead(r))

FairSpec == Spec /\ Fairness

-----------------------------------------------------------------------------
TypeOK ==
  /\ pc \in [Calls -> {"idle", "waiting", "awaiting", "updating"} \cup Answered]
  /\ thread \in [Calls -> {"none", "queued", "running", "part", "committed", "failed"}]
  /\ lock \in Writers \cup {None}
  /\ before \in [Writers -> SUBSET Writers]
  /\ indexed \subseteq Calls
  /\ reading \in [Readers -> {"idle", "queued", "running", "done"}]

\* The lock and the coroutines awaiting their thread are the same thing, and
\* a job exists exactly from then on.
GateDiscipline ==
  /\ \A w \in Writers : pc[w] = "awaiting" <=> lock = w
  /\ \A c \in Calls : pc[c] \in {"idle", "waiting"} => thread[c] = "none"
  /\ \A c \in Calls : pc[c] = "awaiting" => c \in Writers /\ thread[c] # "none"
  /\ \A c \in Calls : pc[c] = "waiting" => c \in Writers
  /\ \A c \in Calls : thread[c] \in {"queued", "running"} => c \in Writers
  /\ \A c \in Calls : thread[c] = "queued" => pc[c] = "awaiting"
  /\ \A c \in Calls : Busy(c) => pc[c] \in {"awaiting", "error"}
  /\ \A c \in Calls : pc[c] = "updating" =>
       c \in Handlers /\ thread[c] \in {"none", "part", "committed"}
  /\ \A c \in Calls : thread[c] = "part" =>
       c \in Many /\ pc[c] \in {"updating", "error", "lost"}

\* The waiters are in the order in which they came to wait.
WaitersInOrder ==
  /\ \A w \in Writers : before[w] \subseteq Waiting \ {w}
  /\ \A w \in Writers \ Waiting : before[w] = {}
  /\ \A v, w \in Waiting : v # w => (v \in before[w] <=> w \notin before[v])

\* "serializes every write": two native writes run side by side only if one
\* of them was abandoned by the timeout; the lock admits one live write
\* (execute_write, _execute_write_with_timeout).
OverlapsOnlyAbandoned ==
  \A v, w \in Writers : Busy(v) /\ Busy(w) /\ v # w =>
    pc[v] = "error" \/ pc[w] = "error"

\* An acknowledged write is in the store, all of it, whatever raised, timed out
\* or crashed in between; and the index never names a node whose write did not
\* commit.  (The index may miss one: indexing is best effort.)
\* _dispatch_oxigraph, _handle_oxigraph_handler, _index_vector_after_write.
AckedIsStored ==
  /\ \A c \in Calls : pc[c] = "ok" => thread[c] = "committed"
  /\ \A c \in indexed : thread[c] = "committed" /\ c \in Embedded

\* Every write call is answered although a native write may run for ever:
\* the timeout covers the wait for the lock as well as the thread (B447).
EveryWriteReturns ==
  \A w \in Writers : (pc[w] \in {"waiting", "awaiting"}) ~> (pc[w] \in Answered)

\* A read, and with it ping(), returns unless native writes that never end
\* keep every thread of the pool: "a long write can't make a healthy store
\* look dead" holds up to PoolSize - 1 stuck writes.
ReadsReturnWhilePoolHasRoom ==
  \A r \in Readers :
    (reading[r] = "queued")
      ~> (\/ reading[r] = "done"
          \/ [](Cardinality({w \in Writers : Busy(w)}) = PoolSize))

WriteGateInv ==
  /\ TypeOK /\ GateDiscipline /\ WaitersInOrder
  /\ OverlapsOnlyAbandoned /\ AckedIsStored

-----------------------------------------------------------------------------
(***************************************************************************)
(* The gate implements WriteService: a call's fate is where its thread is, *)
(* its answer is where its coroutine is.                                   *)
(***************************************************************************)
FateOf(c) ==
  CASE pc[c] = "idle"           -> "none"
    [] thread[c] = "committed"  -> "applied"
    [] thread[c] = "part"       -> "partial"
    [] thread[c] = "failed"     -> "dropped"
    [] thread[c] = "none" /\ pc[c] \in Answered -> "dropped"
    [] OTHER                    -> "open"

AnswerOf(c) == IF pc[c] \in Answered THEN pc[c] ELSE "none"

Service == INSTANCE WriteService WITH
  Atomic <- Calls \ Many,
  fate <- [c \in Calls |-> FateOf(c)],
  answer <- [c \in Calls |-> AnswerOf(c)]

\* Every run of the gate is one WriteService allows: no write is undone once
\* it landed or lands once it was dropped, only a handler query of several
\* updates is left half done, and then it is not said to be "ok" nor completed
\* behind the back of a caller who was told of an error, and no call is
\* answered twice.
ImplementsWriteService == Service!Spec

(***************************************************************************)
(* And it implements WriteQueue, which the modules of its callers extend:  *)
(* a coroutine inside execute_write waits for the lock or awaits its       *)
(* thread, and the ones ahead of it are the holder and the earlier         *)
(* waiters.  A statement that failed after all stays among the late ones   *)
(* and never lands.                                                        *)
(***************************************************************************)
Inside == {w \in Writers : pc[w] \in {"waiting", "awaiting"}}

Ahead(w) ==
  IF pc[w] = "waiting" THEN before[w] \cup {v \in Writers : pc[v] = "awaiting"}
                       ELSE {}

Landed == \E w \in Writers : pc[w] = "awaiting" /\ thread[w] = "committed"

Late == {w \in Writers : pc[w] = "error" /\ thread[w] \in {"running", "failed"}}

Queue == INSTANCE WriteQueue WITH
  Calls <- Writers,
  inside <- Inside,
  ahead <- [w \in Writers |-> Ahead(w)],
  landed <- Landed,
  late <- Late

\* What the modules of the tools take for granted is so: the gate serves them
\* first come first served, a statement commits while its call holds the lock
\* or after the timeout gave it up, a call that raised leaves the lock to the
\* next, and nothing of the queue outlives the process.
ImplementsWriteQueue == Queue!QueueSpec
=============================================================================
