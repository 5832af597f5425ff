----------------------------- MODULE MCIngestion ------------------------------
(* Documents of one source with one timestamp: only _id orders them. *)
EXTENDS Ingestion

Owner == [d \in Docs |-> "s1"]
Times == [d \in Docs |-> 0]
=============================================================================
