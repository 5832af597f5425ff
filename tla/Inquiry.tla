------------------------------- MODULE Inquiry --------------------------------
(***************************************************************************)
(* What the orchestrator relies on when it calls the agent: evidence is    *)
(* gathered, then the investigation ends once, with a verdict that settles *)
(* the event only if the required skills have been tried, or with the      *)
(* event handed to a human, or with nothing at all.                        *)
(***************************************************************************)
CONSTANTS Skills, Required, SettleVerdicts, HumanVerdicts, Open, Nothing

VARIABLES
  tried,     \* skills that have a row in investigation_tool_calls
  outcome    \* Open, the committed verdict, or Nothing after a rollback

Init == tried = {} /\ outcome = Open

Gather(s) == outcome = Open /\ tried' = tried \cup {s} /\ UNCHANGED outcome

Settle(v) == outcome = Open /\ Required \subseteq tried /\ outcome' = v /\ UNCHANGED tried

HandOver(v) == outcome = Open /\ outcome' = v /\ UNCHANGED tried

RollBack == outcome = Open /\ outcome' = Nothing /\ UNCHANGED tried

Next ==
  \/ \E s \in Skills : Gather(s)
  \/ \E v \in SettleVerdicts : Settle(v)
  \/ \E v \in HumanVerdicts : HandOver(v)
  \/ RollBack

Spec == Init /\ [][Next]_<<tried, outcome>>
=============================================================================
