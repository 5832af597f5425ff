---------------------------- MODULE MCAgentLoop -----------------------------
(* A template that requires two skills and is refuted by one that is not registered. *)
EXTENDS AgentLoop

SupportedBy == <<"asset">>
RefutedBy == <<"asset", "unknown">>
=============================================================================
