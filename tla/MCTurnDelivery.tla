---------------------------- MODULE MCTurnDelivery ----------------------------
(***************************************************************************)
(* A small instance of TurnDelivery: two adapters with two turns that hold *)
(* no plan and two executions, or one adapter with one turn that holds one *)
(* and is executed up to three times, the third time after the others.     *)
(***************************************************************************)
EXTENDS TurnDelivery

CONSTANTS c1, c2, c3, t1, t2, a1, a2

MCCalls    == {c1, c2, c3}
Before     == {<<c1, c2>>, <<c2, c3>>}
MCTurns    == {t1, t2}
MCLarge    == {t2}
MCAdapters == {a1, a2}

(***************************************************************************)
(* Executions that were not begun are interchangeable, and so are turns    *)
(* that were not sent, and adapters: the first of them comes first.        *)
(* (Symmetry sets are not sound beside a liveness property.)  Of two turns *)
(* the request of the second is too large for the socket.  A second        *)
(* failure is that of a delete which undoes a plan.                        *)
(***************************************************************************)
MCNext ==
  /\ Next
  /\ planned # {} => asked'[a2] = None /\ told'[t2] = "nothing"
  /\ pc[c3] = "idle" /\ (planned = {} \/ Running # {} \/ failures > 1) => pc'[c3] = "idle"
  /\ \A p \in Before : pc[p[1]] = "idle" => pc'[p[2]] = "idle"
  /\ told[t1] = "nothing" => told'[t2] = "nothing"
  /\ asked'[a2] # t1
  /\ failures' > 1 => failures' = failures \/ \E c \in Calls : DroppingFails(c)

MCInit == DeliveryInit /\ planned \in {{}, {t1}}

MCSpec ==
  /\ MCInit
  /\ [][MCNext]_vars
  /\ \A a \in Adapters : WF_vars(TimesOut(a)) /\ WF_vars(Unlink(a)) /\ WF_vars(Refused(a))

=============================================================================
