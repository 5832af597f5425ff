-------------------------- MODULE MCEventPipeline ---------------------------
(* Small instances of EventPipeline for TLC. *)
EXTENDS EventPipeline, TLC

\* All alerts fall into one aggregation key, the case where merging happens.
OneKey == [a \in Alerts |-> "k1"]

\* Requests of the API are alike.
Alike == Permutations(Operators)

AllServices == Services
=============================================================================
