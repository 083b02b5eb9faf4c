--------------------------- MODULE MCCaptureJournal ---------------------------
(***************************************************************************)
(* A small instance of CaptureJournal: a connector with two files and a    *)
(* connector with one.  f1 has two lines of two events and is written half *)
(* a line at a time; it is written anew, or f2 or f3 gets a line, or none. *)
(* The event of f2's line has no timestamp.                                *)
(***************************************************************************)
EXTENDS CaptureJournal

CONSTANTS k1, k2, f1, f2, f3

MCConnectors == {k1, k2}
MCFiles      == {f1, f2, f3}
MCOwner      == [f \in MCFiles |-> IF f = f3 THEN k2 ELSE k1]
MCPerLine    == [f \in MCFiles |-> IF f = f1 THEN 2 ELSE 1]
MCUndated    == {e \in Events : e[1] = f2}

(***************************************************************************)
(* A file is read in the one step that visits it, so that its writer may   *)
(* as well write before the part of a scan in which nothing is awaited.    *)
(***************************************************************************)
MCNext ==
  /\ Next
  /\ \A f \in {f2, f3} : version'[f] = 0 /\ size'[f] \in {-1, 2}
  /\ Cardinality({f \in {f2, f3} : size'[f] # -1}) + version'[f1] <= 1
  /\ files' # files => \A c \in Connectors : pc[c] # "scan"

MCSpec == Init /\ [][MCNext]_vars

=============================================================================
