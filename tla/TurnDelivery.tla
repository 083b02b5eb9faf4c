----------------------------- MODULE TurnDelivery -----------------------------
(***************************************************************************)
(* How a turn reaches the daemon.  An adapter process                      *)
(* (campy/adapters/mcp_server.py) handles one request of its client at a   *)
(* time: it calls the daemon over the socket and, when that fails or times *)
(* out, over HTTP (campy/brain_transport.py).  A call that fails either    *)
(* way is the soft failure "DAEMON_OFFLINE"; a turn that meets it is       *)
(* appended to the offline queue, a file all adapters of a user share.     *)
(* The next call that succeeds after a soft failure reads the file,        *)
(* deletes it and replays what it read.                                    *)
(*                                                                         *)
(* The daemon's executions are PlanCreation's: a call that was given up on *)
(* goes on executing, so that one turn may be executed several times, also *)
(* at once.  The lines of the file and of what was read from it are sets   *)
(* here, and the other tools' requests have no effect on the graph.        *)
(*                                                                         *)
(* No specification uses the definitions that state a plausible slip in    *)
(* the code of the definition right after them (TimesOutUnanswered before  *)
(* TimesOut, and so on).                                                   *)
(***************************************************************************)
EXTENDS PlanCreation

CONSTANTS
  Adapters,  \* adapter processes
  Other,     \* a request of another tool
  Large      \* turns whose request is more than the socket's buffer holds

ASSUME TurnDeliveryAssumption ==
  /\ Other \notin Turns \cup {None}
  /\ Large \subseteq Turns

VARIABLES
  daemon,   \* the daemon runs
  phase,    \* what an adapter is at: a call over one of the ways, or the file
  asked,    \* the request it handles
  exec,     \* the execution that answers its call
  online,   \* _daemon_online
  batch,    \* lines of the file it has read and not replayed yet
  entry,    \* the one of them it replays
  file,     \* the offline queue
  told,     \* what a turn's client knows of it
  dropped   \* queued turns whose line is gone and that were not executed

adapter == <<phase, asked, exec, online, batch, entry>>
vars == <<daemonVars, daemon, adapter, file, told, dropped>>

DeliveryInit ==
  /\ Init
  /\ daemon \in BOOLEAN
  /\ phase = [a \in Adapters |-> "idle"]
  /\ asked = [a \in Adapters |-> None]
  /\ exec = [a \in Adapters |-> None]
  /\ online = [a \in Adapters |-> TRUE]
  /\ batch = [a \in Adapters |-> {}]
  /\ entry = [a \in Adapters |-> None]
  /\ file = {}
  /\ told = [t \in Turns |-> "nothing"]
  /\ dropped = {}

-----------------------------------------------------------------------------
\* What adapter a's call carries.
Carries(a) == IF entry[a] # None THEN entry[a] ELSE asked[a]

Enters(a, next) == phase' = [phase EXCEPT ![a] = next]

\* The call is over: adapter a waits for no execution.
Hangs(a) == exec' = [exec EXCEPT ![a] = None]

\* handle_mcp_request returns: the client is told `answer`.
Answers(a, answer) ==
  /\ Enters(a, "idle")
  /\ asked' = [asked EXCEPT ![a] = None]
  /\ told' = IF asked[a] \in Turns THEN [told EXCEPT ![asked[a]] = answer] ELSE told

\* The client sends a request.
Ask(a, r) ==
  /\ phase[a] = "idle"
  /\ r \in Turns => told[r] = "nothing"
  /\ told' = IF r \in Turns THEN [told EXCEPT ![r] = "asked"] ELSE told
  /\ asked' = [asked EXCEPT ![a] = r]
  /\ Enters(a, "socket")
  /\ UNCHANGED <<daemonVars, daemon, exec, online, batch, entry, file, dropped>>

\* The daemon takes the call of a turn.
Connects(a) ==
  /\ phase[a] \in {"socket", "http"}
  /\ exec[a] = None
  /\ daemon
  /\ Carries(a) \in Turns
  /\ \E c \in Calls :
       /\ Begin(c, Carries(a))
       /\ exec' = [exec EXCEPT ![a] = c]
  /\ UNCHANGED <<daemon, phase, asked, online, batch, entry, file, told, dropped>>

\* _replay_offline_queue goes on with the next line it read, or is done: only
\* then is the request that started it answered.
Replays(a, rest) ==
  IF rest = {}
    THEN /\ Answers(a, "answered")
         /\ entry' = [entry EXCEPT ![a] = None]
         /\ batch' = [batch EXCEPT ![a] = {}]
    ELSE /\ \E t \in rest :
              /\ entry' = [entry EXCEPT ![a] = t]
              /\ batch' = [batch EXCEPT ![a] = rest \ {t}]
         /\ Enters(a, "socket")
         /\ UNCHANGED <<asked, told>>

\* The call's result is read: the request is answered, after what the file
\* holds has been replayed if the last call before it met a soft failure.
Succeeds(a) ==
  /\ Hangs(a)
  /\ IF entry[a] # None
       THEN Replays(a, batch[a]) /\ UNCHANGED online
       ELSE /\ online' = [online EXCEPT ![a] = TRUE]
            /\ IF ~ online[a] /\ file # {}
                 THEN /\ batch' = [batch EXCEPT ![a] = file]
                      /\ Enters(a, "unlink")
                      /\ UNCHANGED <<asked, entry, told>>
                 ELSE Answers(a, "answered") /\ UNCHANGED <<batch, entry>>
  /\ UNCHANGED <<file, dropped>>

\* The call was a soft failure: a turn is queued, and a replay given up.
SoftFailsUnqueued(a) ==
  /\ Hangs(a)
  /\ IF entry[a] # None
       THEN /\ Replays(a, batch[a])
            /\ dropped' = dropped \cup {entry[a]}
            /\ UNCHANGED online
       ELSE /\ online' = [online EXCEPT ![a] = FALSE]
            /\ Answers(a, "queued")
            /\ UNCHANGED <<batch, entry, dropped>>
  /\ file' = IF entry[a] = None /\ online[a] THEN file \cup ({asked[a]} \cap Turns) ELSE file
SoftFails(a) ==
  /\ Hangs(a)
  /\ IF entry[a] # None
       THEN /\ Replays(a, batch[a])
            /\ dropped' = dropped \cup {entry[a]}
            /\ UNCHANGED <<online, file>>
       ELSE /\ online' = [online EXCEPT ![a] = FALSE]
            /\ Answers(a, "queued")
            /\ file' = file \cup ({asked[a]} \cap Turns)
            /\ UNCHANGED <<batch, entry, dropped>>

\* call_brain turns from the socket to HTTP, and fails after that.
Retries(a) ==
  \/ /\ phase[a] = "socket"
     /\ Enters(a, "http")
     /\ Hangs(a)
     /\ UNCHANGED <<asked, online, batch, entry, file, told, dropped>>
  \/ /\ phase[a] = "http"
     /\ SoftFails(a)

\* No daemon is there to take the call, or to read the rest of it.
Refused(a) ==
  /\ ~ daemon
  /\ exec[a] = None
  /\ Retries(a)
  /\ UNCHANGED <<daemonVars, daemon>>

\* Over the socket only the reading of the answer is timed.  A request that is
\* still on its way to a daemon that does not read it keeps drain, or
\* wait_closed, waiting.
Unread(a) == phase[a] = "socket" /\ Carries(a) \in Large /\ exec[a] = None

\* The answer does not come in time; the execution goes on.
TimesOutUnanswered(a) ==
  /\ ~ Unread(a)
  /\ phase[a] = "http" => exec[a] = None
  /\ Retries(a)
  /\ UNCHANGED <<daemonVars, daemon>>
TimesOut(a) ==
  /\ ~ Unread(a)
  /\ Retries(a)
  /\ UNCHANGED <<daemonVars, daemon>>

Answered(a) ==
  /\ phase[a] \in {"socket", "http"}
  /\ IF Carries(a) = Other THEN daemon ELSE exec[a] # None /\ pc[exec[a]] = "answered"
  /\ Succeeds(a)
  /\ UNCHANGED <<daemonVars, daemon>>

\* An answer that is an error is a soft failure at once.
Refuted(a) ==
  /\ phase[a] \in {"socket", "http"}
  /\ IF Carries(a) = Other THEN daemon ELSE exec[a] # None /\ pc[exec[a]] = "error"
  /\ SoftFails(a)
  /\ UNCHANGED <<daemonVars, daemon>>

\* The daemon dies under the call: the connection ends without a line, which is
\* a soft failure at once, or is reset, which call_brain catches.
CutOff(a) ==
  /\ exec[a] # None
  /\ pc[exec[a]] = "lost"
  /\ SoftFails(a) \/ Retries(a)
  /\ UNCHANGED <<daemonVars, daemon>>

\* The file is deleted, with the lines that were appended since it was read;
\* if another adapter has deleted it, nothing is replayed.
Unlink(a) ==
  /\ phase[a] = "unlink"
  /\ dropped' = IF file = {} THEN dropped ELSE dropped \cup (file \ batch[a])
  /\ Replays(a, IF file = {} THEN {} ELSE batch[a])
  /\ file' = {}
  /\ UNCHANGED <<daemonVars, daemon, exec, online>>

\* The client ends the adapter and starts another, for which _daemon_online is
\* True.
Restarts(a) ==
  /\ phase' = [phase EXCEPT ![a] = "idle"]
  /\ asked' = [asked EXCEPT ![a] = None]
  /\ Hangs(a)
  /\ online' = [online EXCEPT ![a] = TRUE]
  /\ batch' = [batch EXCEPT ![a] = {}]
  /\ entry' = [entry EXCEPT ![a] = None]
  /\ dropped' = IF phase[a] = "unlink" THEN dropped
                ELSE dropped \cup batch[a] \cup ({entry[a]} \ {None})
  /\ Fails(1)
  /\ UNCHANGED <<planned, pc, local, graph, queue, history, daemon, file, told>>

Stop ==
  /\ daemon
  /\ daemon' = FALSE
  /\ Stopped
  /\ UNCHANGED <<adapter, file, told, dropped>>

Start ==
  /\ ~ daemon
  /\ daemon' = TRUE
  /\ UNCHANGED <<daemonVars, adapter, file, told, dropped>>

Execution ==
  /\ Commits \/ \E c \in Calls : Executes(c)
  /\ UNCHANGED <<daemon, adapter, file, told, dropped>>

Delivery(a) ==
  \/ \E r \in Turns \cup {Other} : Ask(a, r)
  \/ Connects(a) \/ Refused(a) \/ TimesOut(a)
  \/ Answered(a) \/ Refuted(a) \/ CutOff(a)
  \/ Unlink(a) \/ Restarts(a)

Next ==
  \/ \E a \in Adapters : Delivery(a)
  \/ Execution
  \/ Stop \/ Start

\* An adapter's own steps and its timeouts come in the end, and it notices a
\* daemon that stays away; one that is there may hang for good.
Spec ==
  /\ DeliveryInit
  /\ [][Next]_vars
  /\ \A a \in Adapters : WF_vars(TimesOut(a)) /\ WF_vars(Unlink(a)) /\ WF_vars(Refused(a))

-----------------------------------------------------------------------------
(***************************************************************************)
(* Properties.                                                             *)
(***************************************************************************)

TypeOK ==
  /\ PlanTypeOK
  /\ daemon \in BOOLEAN
  /\ phase \in [Adapters -> {"idle", "socket", "http", "unlink"}]
  /\ asked \in [Adapters -> Turns \cup {Other, None}]
  /\ \A a \in Adapters : asked[a] = None <=> phase[a] = "idle"
  /\ exec \in [Adapters -> Calls \cup {None}]
  /\ \A a \in Adapters : exec[a] # None =>
       phase[a] \in {"socket", "http"} /\ turn[exec[a]] = Carries(a)
  /\ online \in [Adapters -> BOOLEAN]
  /\ batch \in [Adapters -> SUBSET Turns]
  /\ entry \in [Adapters -> Turns \cup {None}]
  /\ file \subseteq Turns /\ dropped \subseteq Turns
  /\ told \in [Turns -> {"nothing", "asked", "answered", "queued"}]

\* What a client is told of its turn is true: the daemon has stored a turn that
\* was answered, and one that was queued offline is in the file, with an
\* adapter that replays it, or stored; it is lost only where the code gives it
\* up, that is when its replay fails, when the adapter that has read it ends,
\* or when another adapter deletes the file it was just appended to.
Stored(t) == \E c \in messages : turn[c] = t
ToldIsTrue ==
  \A t \in Turns :
    /\ told[t] = "answered" => Stored(t)
    /\ told[t] = "queued" =>
         \/ t \in file \cup dropped
         \/ \E a \in Adapters : t \in batch[a] \cup {entry[a]}
         \/ Stored(t)

\* However slow the daemon is, and whether it is there, an adapter is done with
\* its request again and again, what it replays included ("can never hang or
\* hard-fail this adapter forever", mcp_server.py), unless a daemon that is
\* there never reads a request that the socket does not hold.
AdapterAnswers ==
  \A a \in Adapters :
    \/ []<>(phase[a] = "idle")
    \/ <>[]Unread(a) /\ []<>daemon

=============================================================================
