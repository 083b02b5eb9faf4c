------------------------------ MODULE WriteQueue ------------------------------
(***************************************************************************)
(* The write gate (module WriteGate) as the tools that write through it    *)
(* see it: GraphGateway.run of a mutating query waits, under one timeout,  *)
(* for the lock of OxigraphClient.execute_write and then for a thread that *)
(* commits the statement.  asyncio.Lock is first come, first served; what  *)
(* a coroutine does between two awaited writes is one step with the return *)
(* of the first and the request for the second.  A write the timeout gives *)
(* up on frees the lock at once while its thread runs on.                  *)
(*                                                                         *)
(* The modules that extend this one say what a statement is and what it    *)
(* changes.  WriteGate implements QueueSpec.                               *)
(***************************************************************************)

CONSTANT Calls   \* the coroutines that write

VARIABLES
  inside,   \* calls inside execute_write
  ahead,    \* for each call, those that asked for the lock before it
  landed,   \* the statement of the call that holds the lock has committed
  late      \* statements given up by the timeout that still run

queue == <<inside, ahead, landed, late>>

QueueInit ==
  /\ inside = {}
  /\ ahead = [c \in Calls |-> {}]
  /\ landed = FALSE
  /\ late = {}

\* The lock is call c's.
Holds(c) == c \in inside /\ ahead[c] = {}

\* Call c leaves execute_write, if it was inside, and asks for the lock again if
\* `asks`: every other call inside is ahead of it then.
Moves(c, asks) ==
  /\ inside' = IF asks THEN inside \cup {c} ELSE inside \ {c}
  /\ ahead' = [d \in Calls |->
                 IF d # c THEN ahead[d] \ {c}
                 ELSE IF asks THEN inside \ {c} ELSE {}]

\* The holder's statement commits in its thread.
Lands(c) ==
  /\ Holds(c)
  /\ ~ landed
  /\ landed' = TRUE
  /\ UNCHANGED <<inside, ahead, late>>

\* A statement that was given up commits after all.
LandsLate(w) ==
  /\ w \in late
  /\ late' = late \ {w}
  /\ UNCHANGED <<inside, ahead, landed>>

\* Call c's awaited write returns.
Returns(c) ==
  /\ Holds(c)
  /\ landed
  /\ landed' = FALSE
  /\ UNCHANGED late

\* Call c's awaited write w raises: the statement failed, or the timeout gave
\* up on the lock, or on the statement, which may still run.
Raises(c, w) ==
  /\ c \in inside
  /\ landed' = (landed /\ ~ Holds(c))
  /\ late' \in {late} \cup (IF Holds(c) /\ ~ landed THEN {late \cup {w}} ELSE {})

\* Nothing of the write gate's outlives the process.
QueueLost ==
  /\ inside' = {}
  /\ ahead' = [c \in Calls |-> {}]
  /\ landed' = FALSE
  /\ late' = {}

-----------------------------------------------------------------------------
\* The queue alone, whatever its calls write: a statement is named by its call,
\* and a call that goes on to another write leaves first and asks then.
Asks(c) ==
  /\ c \notin inside
  /\ Moves(c, TRUE)
  /\ UNCHANGED <<landed, late>>

QueueNext ==
  \/ \E c \in Calls :
       \/ Asks(c) \/ Lands(c)
       \/ (Returns(c) \/ Raises(c, c)) /\ Moves(c, FALSE)
  \/ \E w \in late : LandsLate(w)
  \/ QueueLost

QueueSpec == QueueInit /\ [][QueueNext]_queue

-----------------------------------------------------------------------------
\* What the order of the calls always is: total, and of those inside only.
QueueOK ==
  /\ inside \subseteq Calls
  /\ ahead \in [Calls -> SUBSET inside]
  /\ landed \in BOOLEAN
  /\ landed => \E c \in inside : Holds(c)
  /\ \A c \in Calls : c \notin ahead[c]
  /\ \A c \in Calls \ inside : ahead[c] = {}
  /\ \A c, d \in inside : c # d => (c \in ahead[d] \/ d \in ahead[c])
  /\ \A c, d \in inside : ~ (c \in ahead[d] /\ d \in ahead[c])

=============================================================================
