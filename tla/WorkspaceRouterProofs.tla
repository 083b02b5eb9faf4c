------------------------ MODULE WorkspaceRouterProofs ------------------------
(***************************************************************************)
(* Proofs about WorkspaceRouter, for any workspaces, requests and bound.   *)
(***************************************************************************)
EXTENDS WorkspaceRouter, FiniteSetTheorems, TLAPS

\* Every step keeps the variables in their types.
LEMMA TypeInductive == TypeOK /\ [Next]_vars => TypeOK'
<1> SUFFICES ASSUME TypeOK, [Next]_vars PROVE TypeOK'
  OBVIOUS
<1> USE RouterAssumption DEF TypeOK
<1>1. ASSUME NEW r \in Requests, NEW w \in Workspaces, GetCached(r, w)
      PROVE  TypeOK'
  BY <1>1 DEF GetCached, Borrow, MoveToEnd, Cached
<1>2. ASSUME NEW r \in Requests, NEW w \in Workspaces, GetWaits(r, w)
      PROVE  TypeOK'
  BY <1>2 DEF GetWaits
<1>3. ASSUME NEW r \in Requests, LockedHit(r)
      PROVE  TypeOK'
  BY <1>3 DEF LockedHit, Borrow, MoveToEnd, Cached
<1>4. ASSUME NEW r \in Requests, NEW w \in Workspaces, LockedReject(r, w)
      PROVE  TypeOK'
  BY <1>4 DEF LockedReject
<1>5. ASSUME NEW r \in Requests, NEW w \in Workspaces, NEW h \in Handles,
             LockedOpen(r, w, h)
      PROVE  TypeOK'
  BY <1>5 DEF LockedOpen
<1>6. ASSUME NEW r \in Requests, OpenDone(r)
      PROVE  TypeOK'
  <2>1. older' \subseteq Workspaces \X Workspaces
    BY <1>6 DEF OpenDone, Without, MoveToEnd, Cached
  <2>2. client' \in [Workspaces -> Handles \cup {None}]
    BY <1>6 DEF OpenDone
  <2>3. borrows' \in [Workspaces -> Nat]
    BY <1>6 DEF OpenDone
  <2>4. path' \in [Handles -> Workspaces \cup {None}]
    BY <1>6 DEF OpenDone
  <2> QED
    BY <1>6, <2>1, <2>2, <2>3, <2>4 DEF OpenDone
<1>7. ASSUME NEW r \in Requests, OpenFailed(r)
      PROVE  TypeOK'
  BY <1>7 DEF OpenFailed
<1>8. ASSUME NEW r \in Requests, Release(r)
      PROVE  TypeOK'
  BY <1>8 DEF Release
<1>9. ASSUME NEW b \in Workers, BackgroundBegin(b) \/ BackgroundEnd(b)
      PROVE  TypeOK'
  BY <1>9 DEF BackgroundBegin, BackgroundEnd
<1>10. CASE Shutdown
  BY <1>10 DEF Shutdown
<1>11. CASE Restart
  BY <1>11 DEF Restart
<1>12. CASE UNCHANGED vars
  BY <1>12 DEF vars
<1> QED
  BY <1>1, <1>2, <1>3, <1>4, <1>5, <1>6, <1>7, <1>8, <1>9, <1>10, <1>11, <1>12
     DEF Next, Request

\* The router's state always has its type: every count is a natural number
\* however releases, evictions and shutdown interleave (router.py).
THEOREM RouterTyped == Spec => []TypeOK
<1>1. Init => TypeOK
  BY RouterAssumption DEF Init, TypeOK
<1> QED
  BY <1>1, TypeInductive, PTL DEF Spec

-----------------------------------------------------------------------------
\* The users of a workspace are finitely many, so they can be counted.
LEMMA UsersCountable ==
  ASSUME TypeOK, NEW w \in Workspaces
  PROVE  /\ IsFiniteSet(Users(w))
         /\ Cardinality(Users(w)) \in Nat
         /\ Cardinality(Users(w)) = 0 <=> Users(w) = {}
<1>1. Users(w) \in SUBSET Requests
  BY DEF Users
<1>2. IsFiniteSet(Users(w))
  BY <1>1, FS_Subset, RouterAssumption
<1> QED
  BY <1>2, FS_CardinalityType, FS_EmptySet

\* A step in which r, not using anything, starts to use w.
LEMMA UserAdded ==
  ASSUME TypeOK, TypeOK', NEW r \in Requests, NEW w \in Workspaces,
         pc[r] # "using", pc' = [pc EXCEPT ![r] = "using"],
         ws' = [ws EXCEPT ![r] = w]
  PROVE  /\ Cardinality(Users(w)') = Cardinality(Users(w)) + 1
         /\ \A v \in Workspaces \ {w} : Users(v)' = Users(v)
<1>1. Users(w)' = Users(w) \cup {r} /\ r \notin Users(w)
  BY DEF TypeOK, Users
<1>2. \A v \in Workspaces \ {w} : Users(v)' = Users(v)
  BY DEF TypeOK, Users
<1> QED
  BY <1>1, <1>2, UsersCountable, FS_AddElement

\* A step in which r, using w, stops.
LEMMA UserRemoved ==
  ASSUME TypeOK, NEW r \in Requests, NEW w \in Workspaces, w = ws[r],
         pc[r] = "using",
         pc' = [pc EXCEPT ![r] = "idle"], ws' = [ws EXCEPT ![r] = Local]
  PROVE  /\ Cardinality(Users(w)') = Cardinality(Users(w)) - 1
         /\ Cardinality(Users(w)) > 0
         /\ \A v \in Workspaces \ {w} : Users(v)' = Users(v)
<1>1. Users(w)' = Users(w) \ {r} /\ r \in Users(w)
  BY DEF TypeOK, Users
<1>2. \A v \in Workspaces \ {w} : Users(v)' = Users(v)
  BY DEF TypeOK, Users
<1>3. Cardinality(Users(w)) > 0
  BY <1>1, UsersCountable
<1>4. Cardinality(Users(w) \ {r}) = Cardinality(Users(w)) - 1
  BY <1>1, UsersCountable, FS_RemoveElement
<1> QED
  BY <1>1, <1>2, <1>3, <1>4

\* A step that changes nobody's being a user.
LEMMA UsersUnchanged ==
  ASSUME TypeOK, NEW r \in Requests, pc[r] # "using",
         NEW state \in {"idle", "waiting", "opening"},
         pc' = [pc EXCEPT ![r] = state],
         \E w \in Workspaces : ws' = [ws EXCEPT ![r] = w]
  PROVE  \A v \in Workspaces : Users(v)' = Users(v)
BY DEF TypeOK, Users

-----------------------------------------------------------------------------
\* A request that takes the lock of w or waits for it is not using anything.
LEMMA TakerIsNotUsing ==
  ASSUME NEW r, NEW w, TakesLock(r, w)
  PROVE  pc[r] \in {"idle", "waiting"} /\ lock[w] = None
BY DEF TakesLock, Contended

\* Borrowing a cached client keeps the invariant (get's two cache hits).
LEMMA BorrowKeepsInv ==
  ASSUME RouterInv, TypeOK', NEW r \in Requests, NEW w \in Workspaces,
         pc[r] \in {"idle", "waiting"}, client[w] # None,
         ws' = [ws EXCEPT ![r] = w], Borrow(r, w)
  PROVE  RouterInv'
<1> USE RouterAssumption DEF RouterInv, Borrow
<1>1. LockDiscipline'
  BY DEF LockDiscipline, TypeOK
<1>2. OpenerOwnsClient'
  <2> SUFFICES ASSUME NEW q \in Requests, pc'[q] = "opening"
               PROVE  /\ held'[q] \in Handles \ {SelfDb}
                      /\ path'[held'[q]] = ws'[q]
                      /\ client'[ws'[q]] = None
                      /\ \A p \in Requests : held'[p] = held'[q] => p = q
    BY DEF OpenerOwnsClient
  <2>1. q # r /\ pc[q] = "opening" /\ held'[q] = held[q] /\ ws'[q] = ws[q]
    BY DEF TypeOK
  <2>2. held'[r] # held[q]
    BY <2>1 DEF OpenerOwnsClient, CachedIsOpen, TypeOK
  <2> QED
    BY <2>1, <2>2 DEF OpenerOwnsClient, TypeOK
<1>3. CachedIsOpen'
  BY DEF CachedIsOpen
<1>4. NoClientLeaks'
  BY DEF NoClientLeaks, TypeOK
<1>5. BorrowsMatchUsers'
  <2>1. /\ Cardinality(Users(w)') = Cardinality(Users(w)) + 1
        /\ \A v \in Workspaces \ {w} : Users(v)' = Users(v)
    BY UserAdded
  <2> QED
    BY <2>1 DEF BorrowsMatchUsers, TypeOK
<1>6. BusyClientStaysOpen'
  BY DEF BusyClientStaysOpen, CachedIsOpen, TypeOK
<1> QED
  BY <1>1, <1>2, <1>3, <1>4, <1>5, <1>6

\* Taking the lock, opening a client and suspending in schema_init.
LEMMA LockedOpenKeepsInv ==
  ASSUME RouterInv, TypeOK', NEW r \in Requests, NEW w \in Workspaces,
         NEW h \in Handles, LockedOpen(r, w, h)
  PROVE  RouterInv'
<1> USE RouterAssumption DEF RouterInv, LockedOpen, Unused
<1>0. pc[r] \in {"idle", "waiting"} /\ lock[w] = None
  BY TakerIsNotUsing
<1>1. LockDiscipline'
  BY <1>0 DEF LockDiscipline, TypeOK
<1>2. OpenerOwnsClient'
  <2> SUFFICES ASSUME NEW q \in Requests, pc'[q] = "opening"
               PROVE  /\ held'[q] \in Handles \ {SelfDb}
                      /\ path'[held'[q]] = ws'[q]
                      /\ client'[ws'[q]] = None
                      /\ \A p \in Requests : held'[p] = held'[q] => p = q
    BY DEF OpenerOwnsClient
  <2>1. CASE q = r
    BY <2>1 DEF TypeOK
  <2>2. CASE q # r
    <3>1. pc[q] = "opening" /\ held'[q] = held[q] /\ ws'[q] = ws[q]
      BY <2>2 DEF TypeOK
    <3>2. held[q] # h /\ path'[held[q]] = path[held[q]]
      BY <3>1 DEF OpenerOwnsClient, TypeOK
    <3> QED
      BY <2>2, <3>1, <3>2 DEF OpenerOwnsClient, TypeOK
  <2> QED
    BY <2>1, <2>2
<1>3. CachedIsOpen'
  BY DEF CachedIsOpen, TypeOK
<1>4. NoClientLeaks'
  <2> SUFFICES ASSUME NEW g \in Handles, path'[g] # None,
                      client'[path'[g]] # g
               PROVE  \E q \in Requests : pc'[q] = "opening" /\ held'[q] = g
    BY DEF NoClientLeaks
  <2>1. CASE g = h
    BY <2>1 DEF TypeOK
  <2>2. CASE g # h
    <3>1. PICK q \in Requests : pc[q] = "opening" /\ held[q] = g
      BY <2>2 DEF NoClientLeaks, TypeOK
    <3> QED
      BY <1>0, <3>1 DEF TypeOK
  <2> QED
    BY <2>1, <2>2
<1>5. \A v \in Workspaces : Users(v)' = Users(v)
  BY <1>0, UsersUnchanged
<1>6. BorrowsMatchUsers'
  BY <1>5 DEF BorrowsMatchUsers
<1>7. BusyClientStaysOpen'
  BY <1>0 DEF BusyClientStaysOpen, TypeOK
<1> QED
  BY <1>1, <1>2, <1>3, <1>4, <1>6, <1>7

\* schema_init raised: the opener gives its lock and its client up.
LEMMA OpenFailedKeepsInv ==
  ASSUME RouterInv, TypeOK', NEW r \in Requests, OpenFailed(r)
  PROVE  RouterInv'
<1> USE RouterAssumption DEF RouterInv, OpenFailed
<1>0. /\ held[r] \in Handles \ {SelfDb}
      /\ path[held[r]] = ws[r]
      /\ client[ws[r]] = None
      /\ \A q \in Requests : held[q] = held[r] => q = r
  BY DEF OpenerOwnsClient
<1>1. LockDiscipline'
  BY DEF LockDiscipline, TypeOK
<1>2. OpenerOwnsClient'
  BY <1>0 DEF OpenerOwnsClient, TypeOK
<1>3. CachedIsOpen'
  BY <1>0 DEF CachedIsOpen, TypeOK
<1>4. NoClientLeaks'
  BY <1>0 DEF NoClientLeaks, TypeOK
<1>5. \A v \in Workspaces : Users(v)' = Users(v)
  BY DEF TypeOK, Users
<1>6. BorrowsMatchUsers'
  BY <1>5 DEF BorrowsMatchUsers
<1>7. BusyClientStaysOpen'
  BY <1>0 DEF BusyClientStaysOpen, TypeOK
<1> QED
  BY <1>1, <1>2, <1>3, <1>4, <1>6, <1>7

\* A request releases the client it worked on.
LEMMA ReleaseKeepsInv ==
  ASSUME RouterInv, TypeOK', NEW r \in Requests, Release(r)
  PROVE  RouterInv'
<1> USE RouterAssumption DEF RouterInv, Release
<1>1. LockDiscipline'
  BY DEF LockDiscipline, TypeOK
<1>2. OpenerOwnsClient'
  BY DEF OpenerOwnsClient, TypeOK
<1>3. CachedIsOpen'
  BY DEF CachedIsOpen
<1>4. NoClientLeaks'
  BY DEF NoClientLeaks, TypeOK
<1>5. BorrowsMatchUsers'
  <2>w. PICK w \in Workspaces : w = ws[r]
    BY DEF TypeOK
  <2>1. /\ Cardinality(Users(w)') = Cardinality(Users(w)) - 1
        /\ Cardinality(Users(w)) > 0
        /\ \A v \in Workspaces \ {w} : Users(v)' = Users(v)
    BY <2>w, UserRemoved
  <2> QED
    BY <2>w, <2>1 DEF BorrowsMatchUsers, TypeOK
<1>6. BusyClientStaysOpen'
  BY DEF BusyClientStaysOpen, TypeOK
<1> QED
  BY <1>1, <1>2, <1>3, <1>4, <1>5, <1>6

\* schema_init returned: the client is cached, borrowed, and idle clients
\* beyond the bound are closed.
LEMMA OpenDoneKeepsInv ==
  ASSUME RouterInv, TypeOK', NEW r \in Requests, OpenDone(r)
  PROVE  RouterInv'
<1> USE RouterAssumption DEF RouterInv
<1>w. PICK w \in Workspaces : w = ws[r]
  BY DEF TypeOK
<1> DEFINE count == [borrows EXCEPT ![w] = @ + 1]
           gone  == Victims(Cached \cup {w}, MoveToEnd(w), count)
<1>0. w = ws[r] /\ TypeOK /\ pc[r] = "opening"
  BY <1>w DEF OpenDone
<1>1. /\ client' = [v \in Workspaces |->
                      IF v \in gone THEN None
                      ELSE IF v = w THEN held[r] ELSE client[v]]
      /\ borrows' = [v \in Workspaces |-> IF v \in gone THEN 0 ELSE count[v]]
      /\ path' = [h \in Handles |->
                    IF \E v \in gone : client[v] = h THEN None ELSE path[h]]
      /\ lock' = [lock EXCEPT ![w] = None]
      /\ pc' = [pc EXCEPT ![r] = "using"]
      /\ phase' = phase /\ ws' = ws /\ held' = held
  BY <1>w DEF OpenDone
<1>2. /\ held[r] \in Handles \ {SelfDb}
      /\ path[held[r]] = w
      /\ client[w] = None
      /\ \A q \in Requests : held[q] = held[r] => q = r
  BY <1>0 DEF OpenerOwnsClient
<1>3. \A v \in gone :
        /\ v \in Workspaces \ {w}
        /\ borrows[v] = 0
        /\ client[v] \in Handles
        /\ path[client[v]] = v
  <2> SUFFICES ASSUME NEW v \in gone
               PROVE  /\ v \in Workspaces \ {w}
                      /\ borrows[v] = 0
                      /\ client[v] \in Handles
                      /\ path[client[v]] = v
    OBVIOUS
  <2>1. v \in Cached \cup {w} /\ count[v] = 0
    BY DEF Victims
  <2>2. v # w
    BY <1>0, <2>1 DEF TypeOK
  <2> QED
    BY <1>0, <2>1, <2>2 DEF Cached, CachedIsOpen, TypeOK
<1> HIDE DEF count, gone
\* Only the directories of evicted workspaces are closed.
<1>4. \A h \in Handles : path[h] \notin gone => path'[h] = path[h]
  BY <1>1, <1>3 DEF TypeOK
<1>5. \A v \in gone : path'[client[v]] = None
  BY <1>1, <1>3
<1>6. w \notin gone /\ client'[w] = held[r] /\ path'[held[r]] = w
  BY <1>0, <1>1, <1>2, <1>3, <1>4
<1>7. LockDiscipline'
  <2>1. \A q \in Requests : pc'[q] = "opening" => q # r /\ pc[q] = "opening"
    BY <1>0, <1>1 DEF TypeOK
  <2>2. \A q \in Requests : q # r /\ pc[q] = "opening" => ws[q] # w
    BY <1>0 DEF LockDiscipline
  <2>3. \A v \in Workspaces : lock'[v] # None =>
          v # w /\ lock'[v] = lock[v] /\ lock[v] # r
    BY <1>0, <1>1 DEF LockDiscipline, TypeOK
  <2>4. \A v \in Workspaces : v # w => lock'[v] = lock[v]
    BY <1>0, <1>1 DEF TypeOK
  <2>5. \A v \in Workspaces : lock[v] \in Requests \cup {None}
    BY <1>0 DEF TypeOK
  <2>6. \A q \in Requests : q # r => pc'[q] = pc[q]
    BY <1>0, <1>1 DEF TypeOK
  <2>7. \A q \in Requests : ws'[q] = ws[q] /\ ws[q] \in Workspaces
    BY <1>0, <1>1 DEF TypeOK
  <2>8. \A q \in Requests : pc'[q] = "opening" => lock'[ws'[q]] = q
    BY <2>1, <2>2, <2>4, <2>7 DEF LockDiscipline
  <2>9. \A v \in Workspaces : lock'[v] # None =>
          pc'[lock'[v]] = "opening" /\ ws'[lock'[v]] = v
    BY <2>3, <2>5, <2>6, <2>7 DEF LockDiscipline
  <2> QED
    BY <2>8, <2>9 DEF LockDiscipline
<1>8. OpenerOwnsClient'
  <2> SUFFICES ASSUME NEW q \in Requests, pc'[q] = "opening"
               PROVE  /\ held'[q] \in Handles \ {SelfDb}
                      /\ path'[held'[q]] = ws'[q]
                      /\ client'[ws'[q]] = None
                      /\ \A p \in Requests : held'[p] = held'[q] => p = q
    BY DEF OpenerOwnsClient
  <2>1. q # r /\ pc[q] = "opening"
    BY <1>0, <1>1 DEF TypeOK
  <2>2. ws[q] # w /\ client[ws[q]] = None /\ path[held[q]] = ws[q]
    BY <1>0, <2>1 DEF LockDiscipline, OpenerOwnsClient
  <2>3. ws[q] \notin gone
    BY <1>3, <2>2
  <2> QED
    BY <1>0, <1>1, <1>4, <2>1, <2>2, <2>3 DEF OpenerOwnsClient, TypeOK
<1>9. CachedIsOpen'
  BY <1>0, <1>1, <1>4, <1>6 DEF CachedIsOpen, TypeOK
<1>10. NoClientLeaks'
  <2> SUFFICES ASSUME NEW h \in Handles, path'[h] # None,
                      client'[path'[h]] # h
               PROVE  \E q \in Requests : pc'[q] = "opening" /\ held'[q] = h
    BY DEF NoClientLeaks
  <2>1. path'[h] = path[h] /\ path[h] \in Workspaces
    BY <1>0, <1>1 DEF TypeOK
  <2>2. h # held[r]
    BY <1>6
  <2>3. client[path[h]] # h
    <3> SUFFICES ASSUME client[path[h]] = h PROVE FALSE
      OBVIOUS
    <3>1. path[h] \notin gone
      BY <1>5, <2>1
    <3>2. path[h] # w
      BY <1>0, <1>2 DEF TypeOK
    <3> QED
      BY <1>1, <2>1, <3>1, <3>2
  <2>4. PICK q \in Requests : pc[q] = "opening" /\ held[q] = h
    BY <2>1, <2>3 DEF NoClientLeaks
  <2> QED
    BY <1>0, <1>1, <2>2, <2>4 DEF TypeOK
<1>11. BorrowsMatchUsers'
  <2>1. ws' = [ws EXCEPT ![r] = w]
    BY <1>0, <1>1 DEF TypeOK
  <2>2. /\ Cardinality(Users(w)') = Cardinality(Users(w)) + 1
        /\ \A v \in Workspaces \ {w} : Users(v)' = Users(v)
    BY <1>0, <1>1, <2>1, UserAdded
  <2>3. borrows'[w] = borrows[w] + 1
    BY <1>0, <1>1, <1>6 DEF TypeOK, count
  <2>4. \A v \in Workspaces \ {w} : borrows'[v] = borrows[v]
    BY <1>0, <1>1, <1>3 DEF TypeOK, count
  <2> QED
    BY <1>1, <2>2, <2>3, <2>4 DEF BorrowsMatchUsers
<1>12. BusyClientStaysOpen'
  <2> SUFFICES ASSUME phase = "up", NEW q \in Requests, pc'[q] = "using"
               PROVE  /\ held'[q] # None
                      /\ path'[held'[q]] = ws'[q]
                      /\ client'[ws'[q]] = held'[q]
    BY <1>1 DEF BusyClientStaysOpen
  <2>1. CASE q = r
    BY <1>1, <1>2, <1>6, <2>1, <1>0
  <2>2. CASE q # r
    <3>1. pc[q] = "using" /\ ws[q] \in Workspaces /\ q \in Users(ws[q])
      BY <1>0, <1>1, <2>2 DEF TypeOK, Users
    <3>2. borrows[ws[q]] # 0
      BY <1>0, <3>1, UsersCountable DEF BorrowsMatchUsers
    <3>3. ws[q] \notin gone
      BY <1>3, <3>2
    <3>4. /\ held[q] \in Handles
          /\ path[held[q]] = ws[q]
          /\ client[ws[q]] = held[q]
      BY <1>0, <3>1 DEF BusyClientStaysOpen, TypeOK
    <3>5. ws[q] # w
      BY <1>2, <3>4
    <3> QED
      BY <1>1, <1>4, <3>1, <3>3, <3>4, <3>5
  <2> QED
    BY <2>1, <2>2
<1> QED
  BY <1>7, <1>8, <1>9, <1>10, <1>11, <1>12

\* Waiting for a lock, and being refused by _workspace_dir, touch no client.
LEMMA WaitKeepsInv ==
  ASSUME RouterInv, TypeOK', NEW r \in Requests, NEW w \in Workspaces,
         GetWaits(r, w) \/ LockedReject(r, w)
  PROVE  RouterInv'
<1> USE RouterAssumption DEF RouterInv
<1>0. /\ pc[r] \in {"idle", "waiting"}
      /\ \E state \in {"idle", "waiting"} : pc' = [pc EXCEPT ![r] = state]
      /\ \/ ws' = [ws EXCEPT ![r] = w] /\ pc'[r] = "waiting"
         \/ ws' = [ws EXCEPT ![r] = Local]
      /\ UNCHANGED <<phase, client, older, borrows, lock, held, path, working>>
  BY TakerIsNotUsing DEF GetWaits, LockedReject, TypeOK
<1>1. LockDiscipline'
  BY <1>0 DEF LockDiscipline, TypeOK
<1>2. OpenerOwnsClient'
  BY <1>0 DEF OpenerOwnsClient, TypeOK
<1>3. CachedIsOpen'
  BY <1>0 DEF CachedIsOpen
<1>4. NoClientLeaks'
  BY <1>0 DEF NoClientLeaks, TypeOK
<1>5. \A v \in Workspaces : Users(v)' = Users(v)
  BY <1>0 DEF TypeOK, Users
<1>6. BorrowsMatchUsers'
  BY <1>0, <1>5 DEF BorrowsMatchUsers
<1>7. BusyClientStaysOpen'
  BY <1>0 DEF BusyClientStaysOpen, TypeOK
<1> QED
  BY <1>1, <1>2, <1>3, <1>4, <1>6, <1>7

\* shutdown() closes what is cached and forgets the borrows.
LEMMA ShutdownKeepsInv ==
  ASSUME RouterInv, TypeOK', Shutdown
  PROVE  RouterInv'
<1> USE RouterAssumption DEF RouterInv, Shutdown
<1>1. LockDiscipline'
  BY DEF LockDiscipline, TypeOK
<1>2. OpenerOwnsClient'
  BY DEF OpenerOwnsClient, Cached, CachedIsOpen, TypeOK
<1>3. CachedIsOpen' /\ BorrowsMatchUsers' /\ BusyClientStaysOpen'
  BY DEF CachedIsOpen, BorrowsMatchUsers, BusyClientStaysOpen, TypeOK
<1>4. NoClientLeaks'
  BY DEF NoClientLeaks, Cached, TypeOK
<1> QED
  BY <1>1, <1>2, <1>3, <1>4

\* A daemon that starts, the first time or again, satisfies the invariant.
LEMMA StartHasInv ==
  /\ Init => RouterInv
  /\ RouterInv /\ Restart => RouterInv'
<1> USE RouterAssumption
<1>1. Init => RouterInv
  <2> SUFFICES ASSUME Init PROVE RouterInv
    OBVIOUS
  <2>1. TypeOK
    BY DEF Init, TypeOK
  <2>2. LockDiscipline /\ OpenerOwnsClient /\ CachedIsOpen /\ NoClientLeaks
    BY DEF Init, LockDiscipline, OpenerOwnsClient, CachedIsOpen, NoClientLeaks
  <2>3. \A w \in Workspaces : Users(w) = {}
    BY DEF Init, Users
  <2>4. BorrowsMatchUsers /\ BusyClientStaysOpen
    BY <2>3, FS_EmptySet DEF Init, BorrowsMatchUsers, BusyClientStaysOpen
  <2> QED
    BY <2>1, <2>2, <2>4 DEF RouterInv
<1>2. ASSUME Restart PROVE RouterInv'
  <2>1. TypeOK'
    BY <1>2 DEF Restart, TypeOK
  <2>2. LockDiscipline' /\ OpenerOwnsClient' /\ CachedIsOpen' /\ NoClientLeaks'
    BY <1>2 DEF Restart, LockDiscipline, OpenerOwnsClient, CachedIsOpen,
                NoClientLeaks
  <2>3. \A w \in Workspaces : Users(w)' = {}
    BY <1>2 DEF Restart, Users
  <2>4. BorrowsMatchUsers' /\ BusyClientStaysOpen'
    BY <1>2, <2>3, FS_EmptySet DEF Restart, BorrowsMatchUsers, BusyClientStaysOpen
  <2> QED
    BY <2>1, <2>2, <2>4 DEF RouterInv
<1> QED
  BY <1>1, <1>2

-----------------------------------------------------------------------------
LEMMA RouterInvInductive == RouterInv /\ [Next]_vars => RouterInv'
<1> SUFFICES ASSUME RouterInv, [Next]_vars PROVE RouterInv'
  OBVIOUS
<1>0. TypeOK'
  BY TypeInductive DEF RouterInv
<1>1. ASSUME NEW r \in Requests, NEW w \in Workspaces, GetCached(r, w)
      PROVE  RouterInv'
  BY <1>0, <1>1, BorrowKeepsInv DEF GetCached
<1>2. ASSUME NEW r \in Requests, NEW w \in Workspaces,
             GetWaits(r, w) \/ LockedReject(r, w)
      PROVE  RouterInv'
  BY <1>0, <1>2, WaitKeepsInv
<1>3. ASSUME NEW r \in Requests, LockedHit(r)
      PROVE  RouterInv'
  <2>1. ws[r] \in Workspaces /\ ws' = [ws EXCEPT ![r] = ws[r]]
    BY <1>3 DEF LockedHit, RouterInv, TypeOK
  <2> QED
    BY <1>0, <1>3, <2>1, BorrowKeepsInv DEF LockedHit
<1>4. ASSUME NEW r \in Requests, NEW w \in Workspaces, NEW h \in Handles,
             LockedOpen(r, w, h)
      PROVE  RouterInv'
  BY <1>0, <1>4, LockedOpenKeepsInv
<1>5. ASSUME NEW r \in Requests, OpenDone(r)
      PROVE  RouterInv'
  BY <1>0, <1>5, OpenDoneKeepsInv
<1>6. ASSUME NEW r \in Requests, OpenFailed(r)
      PROVE  RouterInv'
  BY <1>0, <1>6, OpenFailedKeepsInv
<1>7. ASSUME NEW r \in Requests, Release(r)
      PROVE  RouterInv'
  BY <1>0, <1>7, ReleaseKeepsInv
<1>8. CASE (\E b \in Workers : BackgroundBegin(b) \/ BackgroundEnd(b))
            \/ UNCHANGED vars
  <2>1. UNCHANGED <<phase, client, older, borrows, lock, pc, ws, held, path>>
    BY <1>8 DEF BackgroundBegin, BackgroundEnd, vars
  <2> QED
    BY <1>0, <2>1 DEF RouterInv, LockDiscipline, OpenerOwnsClient, CachedIsOpen,
         NoClientLeaks, BorrowsMatchUsers, BusyClientStaysOpen, Users
<1>9. CASE Shutdown
  BY <1>0, <1>9, ShutdownKeepsInv
<1>10. CASE Restart
  BY <1>10, StartHasInv
<1> QED
  BY <1>1, <1>2, <1>3, <1>4, <1>5, <1>6, <1>7, <1>8, <1>9, <1>10
     DEF Next, Request

\* The inductive invariant holds throughout.
THEOREM RouterSafety == Spec => []RouterInv
BY StartHasInv, RouterInvInductive, PTL DEF Spec

\* The count eviction consults is the number of requests between get() and
\* release(), for any number of requests and workspaces.
THEOREM BorrowAccounting == Spec => []BorrowsMatchUsers
<1>1. RouterInv => BorrowsMatchUsers
  BY DEF RouterInv
<1> QED
  BY <1>1, RouterSafety, PTL

\* Eviction never closes a client that a request borrowed with get().
THEOREM BusyClientSafety == Spec => []BusyClientStaysOpen
<1>1. RouterInv => BusyClientStaysOpen
  BY DEF RouterInv
<1> QED
  BY <1>1, RouterSafety, PTL

\* No two clients ever have the same database directory open.
THEOREM DirectoryExclusion == Spec => []OneClientPerDirectory
<1>1. RouterInv => OneClientPerDirectory
  <2> SUFFICES ASSUME RouterInv, NEW g \in Handles, NEW h \in Handles,
                      path[g] # None, path[g] = path[h]
               PROVE  g = h
    BY DEF OneClientPerDirectory
  <2> USE DEF RouterInv
  <2>1. path[g] \in Workspaces
    BY DEF TypeOK
  <2>2. CASE client[path[g]] # None
    BY <2>2 DEF NoClientLeaks, OpenerOwnsClient
  <2>3. CASE client[path[g]] = None
    <3>1. PICK q \in Requests : pc[q] = "opening" /\ held[q] = g
      BY <2>3, RouterAssumption DEF NoClientLeaks
    <3>2. PICK r \in Requests : pc[r] = "opening" /\ held[r] = h
      BY <2>3, RouterAssumption DEF NoClientLeaks
    <3>3. lock[path[g]] = q /\ lock[path[g]] = r
      BY <3>1, <3>2 DEF OpenerOwnsClient, LockDiscipline
    <3> QED
      BY <3>1, <3>2, <3>3
  <2> QED
    BY <2>2, <2>3
<1> QED
  BY <1>1, RouterSafety, PTL

\* Every open client is cached or is being initialised by some request.
THEOREM ClientsAreReachable == Spec => []NoClientLeaks
<1>1. RouterInv => NoClientLeaks
  BY DEF RouterInv
<1> QED
  BY <1>1, RouterSafety, PTL

-----------------------------------------------------------------------------
(***************************************************************************)
(* What the cache evicts.  The LRU order is a strict total order on the    *)
(* cached workspaces, so an idle client is evicted with every idle client  *)
(* used before it, and the first idle client that stays shows how many     *)
(* were evicted.                                                           *)
(***************************************************************************)
Orders(order, S) ==
  /\ order \subseteq S \X S
  /\ \A u \in S : <<u, u>> \notin order
  /\ \A u, v \in S : u # v => <<u, v>> \in order \/ <<v, u>> \in order
  /\ \A u, v, x \in S :
       <<u, v>> \in order /\ <<v, x>> \in order => <<u, x>> \in order

CacheOrdered == Orders(older, Cached)

\* Moving an entry of the cache, or a new one, to the end keeps the order.
LEMMA MoveKeepsOrder ==
  ASSUME CacheOrdered, NEW w \in Workspaces
  PROVE  Orders(MoveToEnd(w), Cached \cup {w})
BY DEF CacheOrdered, Orders, MoveToEnd

\* Removing entries keeps the order of the others.
LEMMA WithoutKeepsOrder ==
  ASSUME NEW order, NEW S, Orders(order, S), NEW gone
  PROVE  Orders(Without(order, gone), S \ gone)
<1> DEFINE rest == Without(order, gone)
<1>1. \A u, v \in S \ gone : <<u, v>> \in order => <<u, v>> \in rest
  BY DEF Without
<1>2. rest \subseteq order
  BY DEF Without
<1>3. rest \subseteq (S \ gone) \X (S \ gone)
  BY DEF Without, Orders
<1> HIDE DEF rest
<1>4. Orders(rest, S \ gone)
  BY <1>1, <1>2, <1>3 DEF Orders
<1> QED
  BY <1>4 DEF rest

\* A non-empty subset of a finite ordered set has a first element.
LEMMA FirstExists ==
  ASSUME NEW S, IsFiniteSet(S), NEW order, Orders(order, S),
         NEW T \in SUBSET S, T # {}
  PROVE  \E u \in T : \A v \in T : <<v, u>> \notin order
<1> DEFINE before(u) == {x \in S : <<x, u>> \in order}
           C == {before(u) : u \in T}
<1>1. C \subseteq FiniteSubsetsOf(S) /\ C # {}
  <2>1. \A u \in T : before(u) \in SUBSET S
    OBVIOUS
  <2>2. \A u \in T : IsFiniteSet(before(u))
    BY <2>1, FS_Subset
  <2> QED
    BY <2>1, <2>2 DEF FiniteSubsetsOf
<1>2. \E b \in C : \A a \in C : <<a, b>> \notin StrictSubsetOrdering(S)
  BY <1>1, FS_StrictSubsetOrderingWellFounded, WFMin
<1>3. PICK u \in T : \A a \in C : <<a, before(u)>> \notin StrictSubsetOrdering(S)
  BY <1>2
<1>4. ASSUME NEW v \in T, <<v, u>> \in order
      PROVE  FALSE
  <2>1. before(v) \subseteq before(u)
    BY <1>4 DEF Orders
  <2>2. v \in before(u) /\ v \notin before(v)
    BY <1>4 DEF Orders
  <2>3. before(v) \in SUBSET S /\ before(u) \in SUBSET S
    OBVIOUS
  <2> HIDE DEF before
  <2>4. <<before(v), before(u)>> \in StrictSubsetOrdering(S)
    BY <2>1, <2>2, <2>3 DEF StrictSubsetOrdering
  <2> QED
    BY <1>3, <2>4
<1> QED
  BY <1>4

\* The loop of _evict_if_needed closes clients with a count of zero, with
\* every one all the idle clients before it in LRU order, only when there are
\* too many entries, and stops with one idle client open only when there are no
\* longer too many.
LEMMA VictimsInOrder ==
  ASSUME NEW S, IsFiniteSet(S), NEW order, Orders(order, S), NEW count,
         NEW gone, gone = Victims(S, order, count)
  PROVE  /\ gone \subseteq S
         /\ \A v \in gone : count[v] = 0
         /\ gone # {} => MaxOpen < Cardinality(S)
         /\ \A v \in gone, u \in S :
              count[u] = 0 /\ <<u, v>> \in order => u \in gone
         /\ (\E u \in S \ gone : count[u] = 0) =>
              Cardinality(S \ gone) <= MaxOpen
<1> DEFINE Idle == {w \in S : count[w] = 0}
           before(w) == {u \in Idle : <<u, w>> \in order}
<1>1. gone = {w \in Idle : Cardinality(before(w)) + MaxOpen < Cardinality(S)}
  BY DEF Victims
<1>2. /\ Idle \subseteq S /\ gone \subseteq Idle
      /\ \A w \in Idle : count[w] = 0
      /\ \A w \in S : count[w] = 0 => w \in Idle
  BY <1>1
<1>3. IsFiniteSet(Idle) /\ IsFiniteSet(gone)
  BY <1>2, FS_Subset
<1>4. \A w : IsFiniteSet(before(w)) /\ Cardinality(before(w)) \in Nat
  <2> TAKE w
  <2>1. before(w) \in SUBSET Idle
    OBVIOUS
  <2> HIDE DEF before, Idle
  <2> QED
    BY <1>3, <2>1, FS_Subset, FS_CardinalityType
<1>5. Cardinality(S) \in Nat /\ MaxOpen \in Nat
  BY FS_CardinalityType, RouterAssumption
<1>6. \A v \in gone, u \in Idle : <<u, v>> \in order => before(u) \subseteq before(v)
  BY <1>2 DEF Orders
<1>7. \A u \in S : \A x \in before(u) : x \in Idle /\ <<x, u>> \in order
  OBVIOUS
<1> HIDE DEF Idle, before
<1>8. ASSUME NEW v \in gone, NEW u \in Idle, <<u, v>> \in order
      PROVE  u \in gone
  <2>1. Cardinality(before(u)) <= Cardinality(before(v))
    BY <1>4, <1>6, <1>8, FS_Subset
  <2>2. Cardinality(before(v)) + MaxOpen < Cardinality(S)
    BY <1>1
  <2> QED
    BY <1>1, <1>4, <1>5, <2>1, <2>2
<1>9. ASSUME NEW x \in S \ gone, count[x] = 0
      PROVE  Cardinality(S \ gone) <= MaxOpen
  <2> DEFINE stay == Idle \ gone
  <2>1. stay \in SUBSET S /\ stay # {}
    BY <1>2, <1>9
  <2>2. \E u \in stay : \A v \in stay : <<v, u>> \notin order
    BY <2>1, FirstExists
  <2>3. PICK u \in stay : \A v \in stay : <<v, u>> \notin order
    BY <2>2
  <2>4. u \in Idle /\ u \notin gone /\ u \in S
    BY <1>2, <2>3
  <2>5. before(u) \subseteq gone
    BY <1>7, <2>3, <2>4
  <2>6. Cardinality(before(u)) <= Cardinality(gone)
    BY <1>3, <2>5, FS_Subset
  <2>7. Cardinality(S) <= Cardinality(before(u)) + MaxOpen
    BY <1>1, <1>4, <1>5, <2>4
  <2>8. Cardinality(S \ gone) = Cardinality(S) - Cardinality(gone)
    <3>1. S \cap gone = gone
      BY <1>2
    <3> QED
      BY <3>1, FS_Difference
  <2>9. Cardinality(gone) \in Nat
    BY <1>3, FS_CardinalityType
  <2> QED
    BY <1>4, <1>5, <2>6, <2>7, <2>8, <2>9
<1>10. gone # {} => MaxOpen < Cardinality(S)
  BY <1>1, <1>4, <1>5
<1> QED
  BY <1>2, <1>8, <1>9, <1>10

\* The entries of the cache are finitely many.
LEMMA CacheFinite ==
  ASSUME NEW w \in Workspaces
  PROVE  /\ IsFiniteSet(Cached) /\ IsFiniteSet(Cached \cup {w})
         /\ Cardinality(Cached) \in Nat
         /\ Cardinality(Cached \cup {w}) <= Cardinality(Cached) + 1
<1>1. Cached \in SUBSET Workspaces
  BY DEF Cached
<1>2. IsFiniteSet(Cached)
  BY <1>1, FS_Subset, RouterAssumption
<1>3. Cardinality(Cached) \in Nat
  BY <1>2, FS_CardinalityType
<1> QED
  BY <1>2, <1>3, FS_AddElement

\* What the end of an opening does to the cache.
LEMMA OpeningEvicts ==
  ASSUME RouterInv, CacheOrdered, NEW r \in Requests, OpenDone(r)
  PROVE  \E w \in Workspaces : \E gone \in SUBSET Cached :
           /\ w \notin Cached
           /\ Cached' = (Cached \cup {w}) \ gone
           /\ older' = Without(MoveToEnd(w), gone)
           /\ gone # {} => MaxOpen <= Cardinality(Cached)
           /\ \A v \in gone, u \in Cached :
                borrows[u] = 0 /\ <<u, v>> \in older => u \in gone
           /\ MaxOpen < Cardinality(Cached') => \A u \in Cached' : borrows'[u] # 0
<1> USE RouterAssumption
<1>w. PICK w \in Workspaces : w = ws[r]
  BY DEF RouterInv, TypeOK
<1>c. PICK count : count = [borrows EXCEPT ![w] = @ + 1]
  OBVIOUS
<1>o. PICK open : open = Cached \cup {w}
  OBVIOUS
<1>m. PICK order : order = MoveToEnd(w)
  OBVIOUS
<1>g. PICK gone : gone = Victims(open, order, count)
  OBVIOUS
<1>1. /\ client' = [v \in Workspaces |->
                      IF v \in gone THEN None
                      ELSE IF v = w THEN held[r] ELSE client[v]]
      /\ borrows' = [v \in Workspaces |-> IF v \in gone THEN 0 ELSE count[v]]
      /\ older' = Without(order, gone)
      /\ pc[r] = "opening"
  BY <1>w, <1>c, <1>o, <1>m, <1>g DEF OpenDone
<1>2. /\ held[r] # None /\ w \notin Cached
      /\ borrows \in [Workspaces -> Nat]
  BY <1>1, <1>w DEF RouterInv, TypeOK, OpenerOwnsClient, Cached
<1>3. IsFiniteSet(open) /\ Orders(order, open)
  BY <1>m, <1>o, CacheFinite, MoveKeepsOrder
<1>4. /\ gone \subseteq open
      /\ \A v \in gone : count[v] = 0
      /\ gone # {} => MaxOpen < Cardinality(open)
      /\ \A v \in gone, u \in open :
           count[u] = 0 /\ <<u, v>> \in order => u \in gone
      /\ (\E u \in open \ gone : count[u] = 0) => Cardinality(open \ gone) <= MaxOpen
  BY <1>3, <1>g, VictimsInOrder
<1>5. /\ count[w] # 0
      /\ \A u \in Workspaces \ {w} : count[u] = borrows[u]
  BY <1>2, <1>c
<1>6. gone \subseteq Cached /\ w \notin gone
  BY <1>4, <1>5, <1>o
<1>7. Cached' = open \ gone
  BY <1>1, <1>2, <1>6, <1>o DEF Cached
<1>8. gone # {} => MaxOpen <= Cardinality(Cached)
  <2>1. Cardinality(open) <= Cardinality(Cached) + 1 /\ Cardinality(Cached) \in Nat
    BY <1>o, CacheFinite
  <2>2. Cardinality(open) \in Nat
    BY <1>3, FS_CardinalityType
  <2> QED
    BY <1>4, <2>1, <2>2
<1>9. ASSUME NEW v \in gone, NEW u \in Cached, borrows[u] = 0, <<u, v>> \in older
      PROVE  u \in gone
  <2>1. u \in Workspaces \ {w} /\ v # w /\ u \in open
    BY <1>2, <1>6, <1>o DEF Cached
  <2>2. <<u, v>> \in order
    BY <1>9, <1>m, <2>1 DEF MoveToEnd
  <2> QED
    BY <1>4, <1>5, <1>9, <2>1, <2>2
<1>10. ASSUME MaxOpen < Cardinality(Cached'), NEW u \in Cached'
       PROVE  borrows'[u] # 0
  <2>1. u \in open \ gone /\ u \in Workspaces
    BY <1>7, <1>10, <1>o DEF Cached
  <2>2. IsFiniteSet(open \ gone)
    BY <1>3, FS_Difference
  <2>3. Cardinality(open \ gone) \in Nat
    BY <2>2, FS_CardinalityType
  <2>4. count[u] # 0
    BY <1>4, <1>7, <1>10, <2>1, <2>3
  <2> QED
    BY <1>1, <2>1, <2>4
<1> QED
  BY <1>1, <1>2, <1>6, <1>7, <1>8, <1>9, <1>10, <1>o, <1>m

\* Every step keeps the LRU order an order of what is cached.
LEMMA OrderInductive ==
  ASSUME RouterInv, CacheOrdered, [Next]_vars
  PROVE  CacheOrdered'
<1> USE RouterAssumption
<1>1. ASSUME NEW r \in Requests, NEW w \in Cached, Borrow(r, w)
      PROVE  CacheOrdered'
  <2>1. Cached' = Cached /\ older' = MoveToEnd(w) /\ Cached \cup {w} = Cached
    BY <1>1 DEF Borrow, Cached
  <2>2. w \in Workspaces
    BY DEF Cached
  <2> QED
    BY <2>1, <2>2, MoveKeepsOrder DEF CacheOrdered
<1>2. ASSUME NEW r \in Requests, NEW w \in Workspaces, GetCached(r, w)
      PROVE  CacheOrdered'
  BY <1>1, <1>2 DEF GetCached, Cached
<1>3. ASSUME NEW r \in Requests, LockedHit(r)
      PROVE  CacheOrdered'
  BY <1>1, <1>3 DEF LockedHit, Cached, RouterInv, TypeOK
<1>4. ASSUME NEW r \in Requests, OpenDone(r)
      PROVE  CacheOrdered'
  <2>1. PICK w \in Workspaces : \E gone \in SUBSET Cached :
          /\ Cached' = (Cached \cup {w}) \ gone
          /\ older' = Without(MoveToEnd(w), gone)
    BY <1>4, OpeningEvicts
  <2>2. PICK gone \in SUBSET Cached :
          /\ Cached' = (Cached \cup {w}) \ gone
          /\ older' = Without(MoveToEnd(w), gone)
    BY <2>1
  <2>3. PICK order : order = MoveToEnd(w)
    OBVIOUS
  <2>4. Orders(order, Cached \cup {w})
    BY <2>3, MoveKeepsOrder
  <2>5. PICK open : open = Cached \cup {w}
    OBVIOUS
  <2>6. Orders(Without(order, gone), open \ gone)
    BY <2>4, <2>5, WithoutKeepsOrder
  <2> QED
    BY <2>2, <2>3, <2>5, <2>6 DEF CacheOrdered
<1>5. ASSUME client' = client, older' = older
      PROVE  CacheOrdered'
  BY <1>5 DEF CacheOrdered, Cached
<1>6. ASSUME older' = {}, \A u, v \in Cached' : u = v
      PROVE  CacheOrdered'
  BY <1>6 DEF CacheOrdered, Orders
<1>7. CASE Shutdown
  BY <1>6, <1>7 DEF Shutdown, Cached
<1>8. CASE Restart
  BY <1>6, <1>8 DEF Restart, Cached
<1> QED
  BY <1>2, <1>3, <1>4, <1>5, <1>7, <1>8
     DEF Next, Request, GetWaits, LockedReject, LockedOpen, OpenFailed, Release,
         BackgroundBegin, BackgroundEnd, vars

LEMMA OrderHolds == Spec => []CacheOrdered
<1>1. Init => CacheOrdered
  BY RouterAssumption DEF Init, CacheOrdered, Orders, Cached
<1>2. RouterInv /\ CacheOrdered /\ [Next]_vars => CacheOrdered'
  BY OrderInductive
<1> QED
  BY <1>1, <1>2, RouterSafety, PTL DEF Spec

\* Only the end of an opening puts a client in the cache, or takes one out of
\* the cache of a daemon that goes on.
LEMMA OthersKeepCache ==
  ASSUME RouterInv, [Next]_vars, phase = "up",
         \A r \in Requests : ~ OpenDone(r)
  PROVE  /\ Cached' \subseteq Cached
         /\ phase' = "up" => client' = client
<1>1. CASE Shutdown
  BY <1>1 DEF Shutdown, Cached
<1>2. CASE client' = client
  BY <1>2 DEF Cached
<1> QED
  BY <1>1, <1>2 DEF Next, Request, GetCached, GetWaits, LockedHit, Borrow,
     LockedReject, LockedOpen, OpenFailed, Release, BackgroundBegin,
     BackgroundEnd, Restart, vars

\* An opening leaves more than max_open clients only when a request is using
\* every one of them, for any number of workspaces and any bound.
THEOREM CacheStaysBounded == Spec => CacheBounded
<1> DEFINE Step == phase = "up" /\ ~ (Cached' \subseteq Cached)
                     /\ MaxOpen < Cardinality(Cached')
                     => \A w \in Cached' : Users(w)' # {}
<1>1. RouterInv /\ RouterInv' /\ CacheOrdered /\ [Next]_vars => [Step]_vars
  <2> SUFFICES ASSUME RouterInv, RouterInv', CacheOrdered, [Next]_vars,
                      phase = "up", ~ (Cached' \subseteq Cached),
                      MaxOpen < Cardinality(Cached'), NEW u \in Cached'
               PROVE  Users(u)' # {}
    OBVIOUS
  <2>1. PICK r \in Requests : OpenDone(r)
    BY OthersKeepCache
  <2>2. borrows'[u] # 0
    BY <2>1, OpeningEvicts
  <2>3. phase' = "up" /\ u \in Workspaces
    BY <2>1 DEF OpenDone, Cached
  <2>4. borrows'[u] = Cardinality(Users(u)')
    BY <2>3 DEF RouterInv, BorrowsMatchUsers
  <2> QED
    BY <2>2, <2>4, FS_EmptySet
<1> QED
  BY <1>1, RouterSafety, OrderHolds, PTL DEF Spec, CacheBounded

\* A running daemon evicts a client only at its bound, and only when a request
\* is using every remaining client that was used before it.
THEOREM EvictionInOrder == Spec => EvictsLeastRecentIdle
<1> DEFINE Step == phase = "up" /\ phase' = "up" =>
                     \A w \in Cached : client'[w] = None =>
                       /\ Cardinality(Cached) >= MaxOpen
                       /\ \A u \in Cached :
                            <<u, w>> \in older /\ client'[u] # None
                              => Users(u) # {}
<1>1. RouterInv /\ CacheOrdered /\ [Next]_vars => [Step]_vars
  <2> SUFFICES ASSUME RouterInv, CacheOrdered, [Next]_vars,
                      phase = "up", phase' = "up",
                      NEW v \in Cached, client'[v] = None
               PROVE  /\ Cardinality(Cached) >= MaxOpen
                      /\ \A u \in Cached : <<u, v>> \in older /\ client'[u] # None
                                             => Users(u) # {}
    OBVIOUS
  <2>1. PICK r \in Requests : OpenDone(r)
    BY OthersKeepCache DEF Cached
  <2>2. PICK w \in Workspaces : \E gone \in SUBSET Cached :
          /\ Cached' = (Cached \cup {w}) \ gone
          /\ gone # {} => MaxOpen <= Cardinality(Cached)
          /\ \A x \in gone, u \in Cached :
               borrows[u] = 0 /\ <<u, x>> \in older => u \in gone
    BY <2>1, OpeningEvicts
  <2>3. PICK gone \in SUBSET Cached :
          /\ Cached' = (Cached \cup {w}) \ gone
          /\ gone # {} => MaxOpen <= Cardinality(Cached)
          /\ \A x \in gone, u \in Cached :
               borrows[u] = 0 /\ <<u, x>> \in older => u \in gone
    BY <2>2
  <2>4. v \in gone
    BY <2>3 DEF Cached
  <2>5. Cardinality(Cached) >= MaxOpen
    BY <2>2, <2>3, <2>4, CacheFinite, RouterAssumption
  <2>6. ASSUME NEW u \in Cached, <<u, v>> \in older, client'[u] # None
        PROVE  Users(u) # {}
    <3>1. u \notin gone /\ u \in Workspaces
      BY <2>3, <2>6 DEF Cached
    <3>2. borrows[u] # 0
      BY <2>3, <2>4, <2>6, <3>1
    <3>3. borrows[u] = Cardinality(Users(u))
      BY <3>1 DEF RouterInv, BorrowsMatchUsers
    <3> QED
      BY <3>2, <3>3, FS_EmptySet
  <2> QED
    BY <2>5, <2>6
<1> QED
  BY <1>1, RouterSafety, OrderHolds, PTL DEF Spec, EvictsLeastRecentIdle

=============================================================================
