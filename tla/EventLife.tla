----------------------------- MODULE EventLife ------------------------------
(***************************************************************************)
(* What the pipeline promises of the life of an event, whatever jobs, API  *)
(* requests and crashes work on its rows: it is judged when it has been    *)
(* opened or a reply has sent it back, and never after a sound judgment;   *)
(* it waits for a human only when its last judgment asks for one; nobody   *)
(* replies to an event that has not been judged; and it is closed only     *)
(* when its finding is sound and its case is filed.  A reply may come so   *)
(* late that it changes nothing, or takes a concluded or closed event back *)
(* (ConcludedOnlyCloses in EventPipeline).  That a replied event is judged *)
(* again is liveness (RepliedEventsGoOn there).                            *)
(***************************************************************************)
CONSTANTS
  Events,
  Reopening  \* a reply sends the event back to PENDING_REVIEW

VARIABLES
  status,   \* the status of each event
  finding,  \* what its last judgment found: none yet, sound or unsure
  replied,  \* events a human has replied to
  filed     \* events whose judgment case exists

lifeVars == <<status, finding, replied, filed>>

Init ==
  /\ status = [e \in Events |-> "absent"]
  /\ finding = [e \in Events |-> "none"]
  /\ replied = {}
  /\ filed = {}

Open(e) ==
  /\ status[e] = "absent"
  /\ status' = [status EXCEPT ![e] = "pending_review"]
  /\ UNCHANGED <<finding, replied, filed>>

Judge(e) ==
  /\ status[e] = "pending_review" /\ finding[e] # "sound"
  /\ \/ /\ finding' = [finding EXCEPT ![e] = "sound"]
        /\ status' = [status EXCEPT ![e] = "concluded"]
     \/ /\ finding' = [finding EXCEPT ![e] = "unsure"]
        /\ status' = [status EXCEPT ![e] = "human_pending"]
  /\ UNCHANGED <<replied, filed>>

\* A reply written before the event was judged again leaves the new judgment alone.
Reply(e) ==
  /\ finding[e] # "none"
  /\ replied' = replied \cup {e}
  /\ \/ Reopening /\ status' = [status EXCEPT ![e] = "pending_review"]
     \/ UNCHANGED status
  /\ UNCHANGED <<finding, filed>>

\* One commit may file cases and close events, of those and of earlier cases.
Settle(new, close) ==
  /\ \A e \in new \cup close : finding[e] = "sound"
  /\ close \subseteq filed \cup new
  /\ filed' = filed \cup new
  /\ status' = [e \in Events |-> IF e \in close THEN "closed" ELSE status[e]]
  /\ UNCHANGED <<finding, replied>>

Next ==
  \/ \E e \in Events : Open(e) \/ Judge(e) \/ Reply(e)
  \/ \E new, close \in SUBSET Events : Settle(new, close)

Spec == Init /\ [][Next]_lifeVars
=============================================================================
