-------------------------- MODULE MCWorkspaceRouter --------------------------
(***************************************************************************)
(* Small instances of WorkspaceRouter for TLC: the local workspace, two    *)
(* others and one whose id is refused.                                     *)
(***************************************************************************)
EXTENDS WorkspaceRouter

CONSTANTS local, wa, wb, bad, r1, r2, r3, b1

MCWorkspaces == {local, wa, wb, bad}
MCRejected   == {bad}
MCRequests3  == {r1, r2, r3}
MCRequests2  == {r1, r2}
MCWorkers    == {b1}
MCHandles    == 0 .. 3

(***************************************************************************)
(* Bounds that TLC's symmetry sets cannot state beside a liveness          *)
(* property.  Client objects nobody refers to are interchangeable: an      *)
(* opening makes the first of them.  A background coroutine works while no *)
(* request does: it shares nothing with them but the step that closes      *)
(* daemon.db, which WorkspaceRouterBackground.cfg is about.                *)
(***************************************************************************)
MCNext ==
  /\ Next
  /\ \A h \in Handles : Unused(h) /\ path'[h] # None =>
       ~ \E g \in Handles : g < h /\ Unused(g)
  /\ (\E b \in Workers : working'[b]) => \A r \in Requests : pc'[r] = "idle"

MCSpec == Init /\ [][MCNext]_vars /\ Fairness
=============================================================================
