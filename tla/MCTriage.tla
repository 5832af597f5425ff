------------------------------ MODULE MCTriage -------------------------------
(* Three alerts of one fingerprint, or of two. *)
EXTENDS Triage

OneKind == [a \in Alerts |-> "f"]
=============================================================================
