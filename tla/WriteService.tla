----------------------------- MODULE WriteService -----------------------------
(***************************************************************************)
(* What GraphGateway promises the callers of its mutating queries: the     *)
(* write of a call whose query is one update lands entirely or not at all, *)
(* its fate is decided once, it gets at most one answer, and "ok" means    *)
(* that all of it has landed.  An error promises nothing: the write may    *)
(* have landed, may still be under way, or may never happen.  A query of   *)
(* several updates can also stop between two of them, with an error or     *)
(* with the process, and then stays half done.                             *)
(***************************************************************************)
CONSTANTS
  Calls,
  Atomic    \* the calls whose query is one update

VARIABLES
  fate,     \* of each write: "none", "open", "partial", "applied" or "dropped"
  answer    \* to each call: "none", "ok", "error", or "lost" with the process

svars == <<fate, answer>>

Init ==
  /\ fate = [c \in Calls |-> "none"]
  /\ answer = [c \in Calls |-> "none"]

\* The fates a write of c can reach from f, staying at f included.
FateAfter(c, f) ==
  LET partial == IF c \in Atomic THEN {} ELSE {"partial"}
  IN  CASE f = "none"    -> {"none", "open", "applied", "dropped"} \cup partial
        [] f = "open"    -> {"open", "applied", "dropped"} \cup partial
        [] f = "partial" -> {"partial", "applied"}
        [] OTHER         -> {f}

\* One call moves: it is made, its write is decided, it is answered, or
\* several of these at once.  Only a write that landed is acknowledged, and
\* one left half done by a call that was answered stays so.
Move(c) ==
  \E f \in FateAfter(c, fate[c]) :
    /\ answer[c] # "none" /\ fate[c] = "partial" => f = "partial"
    /\ fate' = [fate EXCEPT ![c] = f]
    /\ \/ UNCHANGED answer
       \/ /\ answer[c] = "none"
          /\ f # "none"
          /\ \/ answer' = [answer EXCEPT ![c] = "error"]
             \/ f = "applied" /\ answer' = [answer EXCEPT ![c] = "ok"]

\* The process ends: what is under way is decided one way or the other, what
\* is half done stays so, and the callers who were waiting get no answer.
Crash ==
  /\ fate' \in [Calls -> {"none", "partial", "applied", "dropped"}]
  /\ \A c \in Calls : fate'[c] \in FateAfter(c, fate[c])
                      /\ (fate[c] \in {"none", "partial"} => fate'[c] = fate[c])
  /\ answer' = [c \in Calls |->
                 IF fate[c] # "none" /\ answer[c] = "none" THEN "lost"
                                                           ELSE answer[c]]

Next == (\E c \in Calls : Move(c)) \/ Crash

Spec == Init /\ [][Next]_svars
===============================================================================
