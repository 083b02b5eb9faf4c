--------------------------- MODULE WorkspaceRouter ---------------------------
(***************************************************************************)
(* The daemon's WorkspaceRouter (campy/brain/hippocampus/graph/router.py): *)
(* one database client per workspace, kept in an LRU cache of MaxOpen      *)
(* entries, opened on first access under a per-workspace asyncio.Lock,     *)
(* borrowed by requests with get() and handed back with release().         *)
(*                                                                         *)
(* A step is what one coroutine does between two suspension points.  get() *)
(* suspends in two places only: waiting for the workspace's lock and in    *)
(* schema_init(), which runs in a thread.                                  *)
(*                                                                         *)
(* No specification uses the definitions that state a plausible slip in    *)
(* the code of the definition right after them (ReleaseUnguarded before    *)
(* Release).                                                               *)
(***************************************************************************)
EXTENDS Naturals, FiniteSets

CONSTANTS
  Workspaces,   \* every workspace id a principal may carry
  Rejected,     \* those whose id or path _workspace_dir refuses
  Local,        \* the id of the pre-existing single-user workspace
  Requests,     \* request coroutines: socket, /mcp and REST calls
  Workers,      \* background coroutines that use daemon.db directly
  Handles,      \* client objects
  SelfDb,       \* the client BrainDaemon.__init__ opens, daemon.db
  MaxOpen,      \* WorkspaceRouter(max_open=...)
  None

ASSUME RouterAssumption ==
  /\ Local \in Workspaces \ Rejected
  /\ Rejected \subseteq Workspaces
  /\ SelfDb \in Handles
  /\ MaxOpen \in Nat \ {0}
  /\ IsFiniteSet(Workspaces) /\ IsFiniteSet(Requests)
  /\ None \notin Workspaces \cup Requests \cup Handles

VARIABLES
  phase,    \* "up", or "stopping" once the signal handler ran shutdown()
  client,   \* _clients: workspace -> the cached client
  older,    \* the order of _clients: <<u, v>> when u was used before v
  borrows,  \* _borrow_counts
  lock,     \* _init_locks: workspace -> the request that holds its lock
  pc,       \* where each request is
  ws,       \* the workspace of the request's principal
  held,     \* the client the request's frame refers to
  path,     \* the database directory each client has open
  working   \* a background coroutine is between two statements on daemon.db

vars == <<phase, client, older, borrows, lock, pc, ws, held, path, working>>

-----------------------------------------------------------------------------
Cached == {w \in Workspaces : client[w] # None}
Users(w) == {r \in Requests : pc[r] = "using" /\ ws[r] = w}

\* A client object nobody refers to yet.
Unused(h) == h # SelfDb /\ path[h] = None /\ \A r \in Requests : held[r] # h

\* OrderedDict.move_to_end(w), and the removal of a set of keys.
MoveToEnd(w) ==
  {p \in older : w \notin {p[1], p[2]}} \cup ((Cached \ {w}) \X {w})
Without(order, gone) == {p \in order : p[1] \notin gone /\ p[2] \notin gone}

(***************************************************************************)
(* The loop of _evict_if_needed over the cache `open` in the order `order` *)
(* with the counts `count`: while the cache is too large it closes the     *)
(* first idle client in LRU order, so what it closes is the idle clients   *)
(* with fewer idle predecessors than the cache has excess entries.         *)
(***************************************************************************)
VictimsIgnoringBorrows(open, order, count) ==
  {w \in open : Cardinality({u \in open : <<u, w>> \in order}) + MaxOpen
                  < Cardinality(open)}
VictimsKeepingOneMore(open, order, count) ==
  LET Idle == {w \in open : count[w] = 0}
  IN  {w \in Idle : Cardinality({u \in Idle : <<u, w>> \in order}) + MaxOpen + 1
                      < Cardinality(open)}
VictimsMostRecentFirst(open, order, count) ==
  LET Idle == {w \in open : count[w] = 0}
  IN  {w \in Idle : Cardinality({u \in Idle : <<w, u>> \in order}) + MaxOpen
                      < Cardinality(open)}
Victims(open, order, count) ==
  LET Idle == {w \in open : count[w] = 0}
  IN  {w \in Idle : Cardinality({u \in Idle : <<u, w>> \in order}) + MaxOpen
                      < Cardinality(open)}

TypeOK ==
  /\ phase \in {"up", "stopping"}
  /\ client \in [Workspaces -> Handles \cup {None}]
  /\ older \subseteq Workspaces \X Workspaces
  /\ borrows \in [Workspaces -> Nat]
  /\ lock \in [Workspaces -> Requests \cup {None}]
  /\ pc \in [Requests -> {"idle", "waiting", "opening", "using"}]
  /\ ws \in [Requests -> Workspaces]
  /\ held \in [Requests -> Handles \cup {None}]
  /\ path \in [Handles -> Workspaces \cup {None}]
  /\ working \in [Workers -> BOOLEAN]

-----------------------------------------------------------------------------
\* BrainDaemon.start(): the client opened by __init__ is registered, without
\* a borrow, as the client of the local workspace.
Init ==
  /\ phase = "up"
  /\ client = [w \in Workspaces |-> IF w = Local THEN SelfDb ELSE None]
  /\ older = {}
  /\ borrows = [w \in Workspaces |-> 0]
  /\ lock = [w \in Workspaces |-> None]
  /\ pc = [r \in Requests |-> "idle"]
  /\ ws = [r \in Requests |-> Local]
  /\ held = [r \in Requests |-> None]
  /\ path = [h \in Handles |-> IF h = SelfDb THEN Local ELSE None]
  /\ working = [b \in Workers |-> FALSE]

-----------------------------------------------------------------------------
\* What get() does when the client is in the cache, before or after the lock.
Borrow(r, w) ==
  /\ older' = MoveToEnd(w)
  /\ borrows' = [borrows EXCEPT ![w] = @ + 1]
  /\ pc' = [pc EXCEPT ![r] = "using"]
  /\ held' = [held EXCEPT ![r] = client[w]]
  /\ UNCHANGED <<phase, client, lock, path, working>>

\* A request arrives and get() finds its workspace's client in the cache.
GetCached(r, w) ==
  /\ pc[r] = "idle"
  /\ client[w] # None
  /\ ws' = [ws EXCEPT ![r] = w]
  /\ Borrow(r, w)

\* asyncio.Lock: a newcomer takes the lock of w at once when nobody holds it
\* or waits for it; a waiter takes it when it is free.
Contended(w) ==
  \/ lock[w] # None
  \/ \E q \in Requests : pc[q] = "waiting" /\ ws[q] = w
TakesLock(r, w) ==
  \/ pc[r] = "idle" /\ ~ Contended(w)
  \/ pc[r] = "waiting" /\ ws[r] = w /\ lock[w] = None

\* A request arrives for a workspace with no client, and waits for its lock.
GetWaits(r, w) ==
  /\ pc[r] = "idle"
  /\ client[w] = None
  /\ Contended(w)
  /\ ws' = [ws EXCEPT ![r] = w]
  /\ pc' = [pc EXCEPT ![r] = "waiting"]
  /\ UNCHANGED <<phase, client, older, borrows, lock, held, path, working>>

\* get() has the lock and re-checks the cache: another request opened it.
LockedHitUncounted(r) ==
  /\ pc[r] = "waiting"
  /\ TakesLock(r, ws[r])
  /\ client[ws[r]] # None
  /\ older' = MoveToEnd(ws[r])
  /\ pc' = [pc EXCEPT ![r] = "using"]
  /\ held' = [held EXCEPT ![r] = client[ws[r]]]
  /\ UNCHANGED <<phase, client, borrows, lock, ws, path, working>>
LockedHit(r) ==
  /\ pc[r] = "waiting"
  /\ TakesLock(r, ws[r])
  /\ client[ws[r]] # None
  /\ Borrow(r, ws[r])
  /\ UNCHANGED ws

\* get() has the lock and _workspace_dir raises ValueError: nothing is opened
\* and nothing is borrowed.
LockedReject(r, w) ==
  /\ TakesLock(r, w)
  /\ client[w] = None
  /\ w \in Rejected
  /\ ws' = [ws EXCEPT ![r] = Local]
  /\ pc' = [pc EXCEPT ![r] = "idle"]
  /\ UNCHANGED <<phase, client, older, borrows, lock, held, path, working>>

\* get() has the lock, opens a client and suspends in schema_init.
OpenWithoutLock(r, w, h) ==
  /\ pc[r] \in {"idle", "waiting"}
  /\ client[w] = None
  /\ w \notin Rejected
  /\ Unused(h)
  /\ ws' = [ws EXCEPT ![r] = w]
  /\ path' = [path EXCEPT ![h] = w]
  /\ held' = [held EXCEPT ![r] = h]
  /\ pc' = [pc EXCEPT ![r] = "opening"]
  /\ UNCHANGED <<phase, client, older, borrows, lock, working>>
LockedOpen(r, w, h) ==
  /\ TakesLock(r, w)
  /\ client[w] = None
  /\ w \notin Rejected
  /\ Unused(h)
  /\ ws' = [ws EXCEPT ![r] = w]
  /\ lock' = [lock EXCEPT ![w] = r]
  /\ path' = [path EXCEPT ![h] = w]
  /\ held' = [held EXCEPT ![r] = h]
  /\ pc' = [pc EXCEPT ![r] = "opening"]
  /\ UNCHANGED <<phase, client, older, borrows, working>>

\* schema_init returns: the client is cached and borrowed, the cache is cut
\* back to its bound, and the lock is released.
OpenDone(r) ==
  LET w     == ws[r]
      count == [borrows EXCEPT ![w] = @ + 1]
      gone  == Victims(Cached \cup {w}, MoveToEnd(w), count)
  IN
  /\ pc[r] = "opening"
  /\ client' = [v \in Workspaces |-> IF v \in gone THEN None
                                     ELSE IF v = w THEN held[r] ELSE client[v]]
  /\ older' = Without(MoveToEnd(w), gone)
  /\ borrows' = [v \in Workspaces |-> IF v \in gone THEN 0 ELSE count[v]]
  /\ path' = [h \in Handles |->
                IF \E v \in gone : client[v] = h THEN None ELSE path[h]]
  /\ lock' = [lock EXCEPT ![w] = None]
  /\ pc' = [pc EXCEPT ![r] = "using"]
  /\ UNCHANGED <<phase, ws, held, working>>

\* schema_init raises: the lock is released and the client, which nothing
\* else refers to, is dropped.
OpenFailedKeepingLock(r) ==
  /\ pc[r] = "opening"
  /\ path' = [path EXCEPT ![held[r]] = None]
  /\ held' = [held EXCEPT ![r] = None]
  /\ ws' = [ws EXCEPT ![r] = Local]
  /\ pc' = [pc EXCEPT ![r] = "idle"]
  /\ UNCHANGED <<phase, client, older, borrows, lock, working>>
OpenFailed(r) ==
  /\ pc[r] = "opening"
  /\ lock' = [lock EXCEPT ![ws[r]] = None]
  /\ path' = [path EXCEPT ![held[r]] = None]
  /\ held' = [held EXCEPT ![r] = None]
  /\ ws' = [ws EXCEPT ![r] = Local]
  /\ pc' = [pc EXCEPT ![r] = "idle"]
  /\ UNCHANGED <<phase, client, older, borrows, working>>

\* The handler returned or raised, and the dispatcher's finally releases.
ReleaseUnguarded(r) ==
  /\ pc[r] = "using"
  /\ borrows' = [borrows EXCEPT ![ws[r]] = @ - 1]
  /\ pc' = [pc EXCEPT ![r] = "idle"]
  /\ held' = [held EXCEPT ![r] = None]
  /\ ws' = [ws EXCEPT ![r] = Local]
  /\ UNCHANGED <<phase, client, older, lock, path, working>>
Release(r) ==
  /\ pc[r] = "using"
  /\ borrows' = [borrows EXCEPT ![ws[r]] = IF @ > 0 THEN @ - 1 ELSE @]
  /\ pc' = [pc EXCEPT ![r] = "idle"]
  /\ held' = [held EXCEPT ![r] = None]
  /\ ws' = [ws EXCEPT ![r] = Local]
  /\ UNCHANGED <<phase, client, older, lock, path, working>>

\* The Loop worker, the sweep, the checkpoint task and the web panel work on
\* daemon.db without get() or release().
BackgroundBegin(b) ==
  /\ ~ working[b]
  /\ working' = [working EXCEPT ![b] = TRUE]
  /\ UNCHANGED <<phase, client, older, borrows, lock, pc, ws, held, path>>

BackgroundEnd(b) ==
  /\ working[b]
  /\ working' = [working EXCEPT ![b] = FALSE]
  /\ UNCHANGED <<phase, client, older, borrows, lock, pc, ws, held, path>>

\* The signal handler runs shutdown(): close_all_sync closes every cached
\* client and forgets every borrow; the event loop stops after the callbacks
\* that are ready now.
ShutdownLocalOnly ==
  /\ phase = "up"
  /\ phase' = "stopping"
  /\ path' = [h \in Handles |-> IF client[Local] = h THEN None ELSE path[h]]
  /\ client' = [w \in Workspaces |-> None]
  /\ older' = {}
  /\ borrows' = [w \in Workspaces |-> 0]
  /\ UNCHANGED <<lock, pc, ws, held, working>>
Shutdown ==
  /\ phase = "up"
  /\ phase' = "stopping"
  /\ path' = [h \in Handles |->
                IF \E w \in Cached : client[w] = h THEN None ELSE path[h]]
  /\ client' = [w \in Workspaces |-> None]
  /\ older' = {}
  /\ borrows' = [w \in Workspaces |-> 0]
  /\ UNCHANGED <<lock, pc, ws, held, working>>

\* The process ends, whatever was in flight, and its supervisor starts the
\* daemon again.
Restart ==
  /\ phase = "stopping"
  /\ phase' = "up"
  /\ client' = [w \in Workspaces |-> IF w = Local THEN SelfDb ELSE None]
  /\ older' = {}
  /\ borrows' = [w \in Workspaces |-> 0]
  /\ lock' = [w \in Workspaces |-> None]
  /\ pc' = [r \in Requests |-> "idle"]
  /\ ws' = [r \in Requests |-> Local]
  /\ held' = [r \in Requests |-> None]
  /\ path' = [h \in Handles |-> IF h = SelfDb THEN Local ELSE None]
  /\ working' = [b \in Workers |-> FALSE]

Request(r) ==
  \/ \E w \in Workspaces : GetCached(r, w) \/ GetWaits(r, w)
  \/ LockedHit(r)
  \/ \E w \in Workspaces : LockedReject(r, w)
  \/ \E w \in Workspaces, h \in Handles : LockedOpen(r, w, h)
  \/ OpenDone(r) \/ OpenFailed(r)
  \/ Release(r)

\* The lock's waiter r goes on.
Woken(r) ==
  /\ pc[r] = "waiting"
  /\ \/ LockedHit(r)
     \/ LockedReject(r, ws[r])
     \/ \E h \in Handles : LockedOpen(r, ws[r], h)

Next ==
  \/ \E r \in Requests : Request(r)
  \/ \E b \in Workers : BackgroundBegin(b) \/ BackgroundEnd(b)
  \/ Shutdown
  \/ Restart

Spec == Init /\ [][Next]_vars

(***************************************************************************)
(* asyncio runs every ready callback, and asyncio.Lock wakes its waiters   *)
(* in FIFO order, so a request waiting for a lock that is free again and   *)
(* again gets it.  schema_init and the handlers run to an end.             *)
(***************************************************************************)
Fairness ==
  \A r \in Requests :
    /\ SF_vars(Woken(r))
    /\ WF_vars(OpenDone(r) \/ OpenFailed(r))
    /\ WF_vars(Release(r))

FairSpec == Spec /\ Fairness

-----------------------------------------------------------------------------
(***************************************************************************)
(* The inductive invariant: who holds a lock, what an opener holds, and    *)
(* what the cache and the open directories have to do with each other.     *)
(***************************************************************************)
LockDiscipline ==
  /\ \A r \in Requests : pc[r] = "opening" => lock[ws[r]] = r
  /\ \A w \in Workspaces : lock[w] # None =>
       pc[lock[w]] = "opening" /\ ws[lock[w]] = w

OpenerOwnsClient ==
  \A r \in Requests : pc[r] = "opening" =>
    /\ held[r] \in Handles \ {SelfDb}
    /\ path[held[r]] = ws[r]
    /\ client[ws[r]] = None
    /\ \A q \in Requests : held[q] = held[r] => q = r

CachedIsOpen ==
  \A w \in Workspaces : client[w] # None => path[client[w]] = w

(***************************************************************************)
(* Properties.                                                             *)
(***************************************************************************)

\* Every request's use of a client is counted, and nothing else is: the count
\* that eviction consults is the number of requests between get() and
\* release() (router.get on its three paths, and release).
BorrowsMatchUsers ==
  phase = "up" => \A w \in Workspaces : borrows[w] = Cardinality(Users(w))

\* "Eviction never closes a busy client": the client a request works on stays
\* open on that request's own workspace and stays the cached one.
BusyClientStaysOpen ==
  phase = "up" =>
    \A r \in Requests : pc[r] = "using" =>
      /\ held[r] # None
      /\ path[held[r]] = ws[r]
      /\ client[ws[r]] = held[r]

\* Two clients never have the same database directory open, whatever requests
\* race to open it and whether schema_init succeeds (RocksDB is single-owner).
OneClientPerDirectory ==
  \A g, h \in Handles : path[g] # None /\ path[g] = path[h] => g = h

\* Every open client is reachable: it is cached, or some request is still
\* initialising it.  A client that is neither could never be closed.
NoClientLeaks ==
  \A h \in Handles : path[h] # None =>
    \/ client[path[h]] = h
    \/ \E r \in Requests : pc[r] = "opening" /\ held[r] = h

\* max_open is a soft bound: an opening leaves more than max_open clients in
\* the cache only when a request is using every one of them, and the excess that
\* later falls idle is closed by the next opening.
CacheBounded ==
  [][phase = "up" /\ ~ (Cached' \subseteq Cached) /\ MaxOpen < Cardinality(Cached')
       => \A w \in Cached' : Users(w)' # {}]_vars

\* A client leaves the cache of a running daemon only because the cache grew
\* past its bound, and then every cached client used less recently than it
\* is one a request is using.
EvictsLeastRecentIdle ==
  [][phase = "up" /\ phase' = "up" =>
       \A w \in Cached : client'[w] = None =>
         /\ Cardinality(Cached) >= MaxOpen
         /\ \A u \in Cached : <<u, w>> \in older /\ client'[u] # None
              => Users(u) # {}]_vars

\* Every request that has to wait for a workspace to be opened gets an answer:
\* the client, or an error.
WaitingEnds ==
  \A r \in Requests : (pc[r] = "waiting") ~> (pc[r] \in {"using", "idle"})

\* "Eviction never closes a busy client", read for the client the background
\* coroutines work on.  It does not hold: they never borrow the client that
\* start() registers, so eviction takes it for idle and closes it under them.
EvictionSparesBackground ==
  [][phase = "up" /\ phase' = "up" /\ (\E b \in Workers : working[b])
       => path'[SelfDb] = path[SelfDb]]_vars

\* The strengthening under which the properties above are inductive.
RouterInv ==
  /\ TypeOK
  /\ LockDiscipline
  /\ OpenerOwnsClient
  /\ CachedIsOpen
  /\ NoClientLeaks
  /\ BorrowsMatchUsers
  /\ BusyClientStaysOpen
=============================================================================
