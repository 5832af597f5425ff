--------------------------- MODULE Investigation ----------------------------
(***************************************************************************)
(* InvestigationOrchestrator.run: pick a batch of pending events within    *)
(* the daily budget, then investigate each in one long transaction.  The   *)
(* event's row is UPDATEd to INVESTIGATING when the transaction first      *)
(* queries again, so its row lock is held while the agent talks to the     *)
(* LLM, and nobody else ever sees the intermediate status.  Redis is       *)
(* charged before the commit.                                              *)
(***************************************************************************)
EXTENDS EventStore

CONSTANTS
  Agents,       \* runs of the job and of POST /run
  DailyBudget,  \* investigation.daily_budget
  BatchSize,    \* investigation.batch_size
  Recommends    \* bound: the verdicts that may come with a recommended action

ASSUME InvestigationAssumption ==
  /\ Agents \subseteq Workers
  /\ DailyBudget \in Nat
  /\ BatchSize \in Nat \ {0}
  /\ Recommends \subseteq Verdicts

VARIABLES
  agentPc,       \* where each run is
  agentTodo,     \* the picked events not investigated yet
  agentEvent,    \* the event under investigation, or None
  agentSeen,     \* its alerts when the prompt was built
  agentVerdict,  \* the verdict the loop came back with
  agentCancel    \* the SENT requests the transaction has set to CANCELLED

agentVars ==
  <<agentPc, agentTodo, agentEvent, agentSeen, agentVerdict, agentCancel>>

AgentTypeOK ==
  /\ agentPc \in [Agents -> {"idle", "picked", "investigating", "concluded", "charged"}]
  /\ agentTodo \in [Agents -> SUBSET Events]
  /\ agentEvent \in [Agents -> Events \cup {None}]
  /\ agentSeen \in [Agents -> SUBSET Alerts]
  /\ agentVerdict \in [Agents -> Verdicts \cup {None}]
  /\ agentCancel \in [Agents -> SUBSET Requests]

AgentInit ==
  /\ agentPc = [n \in Agents |-> "idle"]
  /\ agentTodo = [n \in Agents |-> {}]
  /\ agentEvent = [n \in Agents |-> None]
  /\ agentSeen = [n \in Agents |-> {}]
  /\ agentVerdict = [n \in Agents |-> None]
  /\ agentCancel = [n \in Agents |-> {}]

\* The process dies: its runs are gone.
AgentDies ==
  /\ agentPc' = [n \in Agents |-> "idle"]
  /\ agentTodo' = [n \in Agents |-> {}]
  /\ agentEvent' = [n \in Agents |-> None]
  /\ agentSeen' = [n \in Agents |-> {}]
  /\ agentVerdict' = [n \in Agents |-> None]
  /\ agentCancel' = [n \in Agents |-> {}]

\* Mutant: every verdict concludes the event.
VERDICT_EVENT_STATUS_Concludes ==
  [v \in SettleVerdicts \cup HumanVerdicts |-> "concluded"]

VERDICT_EVENT_STATUS ==
  [v \in SettleVerdicts \cup HumanVerdicts |->
     IF v \in SettleVerdicts THEN "concluded" ELSE "human_pending"]

\* Mutant: off by one, the exhausted budget allows one more.
BudgetRemaining_OneMore ==
  IF used <= DailyBudget THEN DailyBudget + 1 - used ELSE 0

\* budget_remaining: max(0, daily_budget - count).
BudgetRemaining == IF used < DailyBudget THEN DailyBudget - used ELSE 0

Smaller(m, n) == IF m < n THEN m ELSE n

\* Mutant: the query forgets the status of the event.
Eligible_AnyStatus ==
  {e \in Events :
     /\ evStatus[e] # "absent"
     /\ \A i \in InvestigationsOf(e) : invStatus[i] # "completed"
     /\ e \notin ProbeEvents}

\* The WHERE clause of _pick_events; no RUNNING row is ever committed.
Eligible ==
  {e \in Events :
     /\ evStatus[e] = "pending_review"
     /\ \A i \in InvestigationsOf(e) : invStatus[i] # "completed"
     /\ e \notin ProbeEvents}

\* The store variables an agent step leaves to others unless it says so.
AgentOthers == <<alertVars, assetVars, answered, reqEvent, reqInv>>

\* The transaction is over, committed or rolled back.
AgentForget(n) ==
  /\ agentEvent' = [agentEvent EXCEPT ![n] = None]
  /\ agentSeen' = [agentSeen EXCEPT ![n] = {}]
  /\ agentVerdict' = [agentVerdict EXCEPT ![n] = None]
  /\ agentCancel' = [agentCancel EXCEPT ![n] = {}]

\* run up to _pick_events.  The order within the batch (queue_priority,
\* risk_score, last_alert_at) is abstracted to any choice of a full batch.
AgentPick(n) ==
  /\ agentPc[n] = "idle"
  /\ AcquireLock("investigation", n)
  /\ BudgetRemaining > 0
  /\ \E S \in SUBSET Eligible :
       /\ S # {}
       /\ Cardinality(S) =
            Smaller(Cardinality(Eligible), Smaller(BatchSize, BudgetRemaining))
       /\ agentTodo' = [agentTodo EXCEPT ![n] = S]
  /\ agentPc' = [agentPc EXCEPT ![n] = "picked"]
  /\ UNCHANGED <<agentEvent, agentSeen, agentVerdict, agentCancel, evStatus,
                 invVars, reqStatus, reqLock, rowLock, redisVars, faults,
                 AgentOthers>>

\* build_investigation_context: of what the prompt tells, the alerts.  The limit of
\* twenty is left out.
PromptAlerts(e) == Linked(e)

\* _investigate_event up to agent.run: the row lock and the prompt's alerts.
AgentBegin(n, e) ==
  /\ agentPc[n] = "picked"
  /\ e \in agentTodo[n]
  /\ EventRowFree(e, n)
  /\ \E i \in Investigations : invStatus[i] = "absent"   \* bound: an id is left for it
  /\ rowLock' = [rowLock EXCEPT ![e] = n]
  /\ agentEvent' = [agentEvent EXCEPT ![n] = e]
  /\ agentSeen' = [agentSeen EXCEPT ![n] = PromptAlerts(e)]
  /\ agentPc' = [agentPc EXCEPT ![n] = "investigating"]
  /\ UNCHANGED <<agentTodo, agentVerdict, agentCancel, evStatus, invVars,
                 reqStatus, reqLock, lock, redisVars, faults, AgentOthers>>

\* cancel_obsolete_sent_reviews_for_event: all of the event's SENT requests belong to
\* older investigations than the one being written.
Superseded(e) == {r \in Sent : reqEvent[r] = e}

\* agent.run returns verdict v, and the event's SENT requests are read to be cancelled:
\* all of them belong to older investigations, and unless v asks for a human the event
\* is no longer waiting.
AgentConclude(n, v) ==
  /\ agentPc[n] = "investigating"
  /\ agentVerdict' = [agentVerdict EXCEPT ![n] = v]
  /\ agentCancel' = [agentCancel EXCEPT ![n] = Superseded(agentEvent[n])]
  /\ agentPc' = [agentPc EXCEPT ![n] = "concluded"]
  /\ UNCHANGED <<agentTodo, agentEvent, agentSeen, evStatus, invVars, reqStatus,
                 reqLock, rowLock, lock, redisVars, faults, AgentOthers>>

\* event_is_probe flushes the cancellations, waiting for their rows; then run charges
\* Redis, unless the event is a probe: the skip-budget marker if there is one, the
\* daily counter if not.
AgentCharge(n) ==
  LET e == agentEvent[n]
  IN  /\ agentPc[n] = "concluded"
      /\ \A r \in agentCancel[n] : RequestRowFree(r, n)
      /\ reqLock' = [r \in Requests |-> IF r \in agentCancel[n] THEN n ELSE reqLock[r]]
      /\ \/ IsProbeEvent(e) /\ UNCHANGED redisVars
         \/ ~IsProbeEvent(e) /\ e \in marker /\ marker' = marker \ {e} /\ UNCHANGED used
         \/ ~IsProbeEvent(e) /\ e \notin marker /\ used' = used + 1 /\ UNCHANGED marker
      /\ agentPc' = [agentPc EXCEPT ![n] = "charged"]
      /\ UNCHANGED <<agentTodo, agentEvent, agentSeen, agentVerdict, agentCancel,
                     evStatus, invVars, reqStatus, rowLock, lock, faults, AgentOthers>>

\* The commit of the investigation, its conclusion and the event's status;
\* suggested says whether the conclusion recommends an action.
AgentCommit(n, i, suggested) ==
  LET e == agentEvent[n]
      v == agentVerdict[n]
      new == VERDICT_EVENT_STATUS[v]
  IN  /\ agentPc[n] = "charged"
      /\ suggested => v \in Recommends
      /\ IsNext(i, Investigations, invStatus)
      /\ invStatus' = [invStatus EXCEPT ![i] =
            IF new = "human_pending" THEN "needs_human" ELSE "completed"]
      /\ invEvent' = [invEvent EXCEPT ![i] = e]
      /\ verdict' = [verdict EXCEPT ![i] = v]
      /\ seen' = [seen EXCEPT ![i] = agentSeen[n]]
      /\ evStatus' = [evStatus EXCEPT ![e] = new]
      /\ reqStatus' = [r \in Requests |->
            IF r \in agentCancel[n] THEN "cancelled" ELSE reqStatus[r]]
      /\ reqLock' = [r \in Requests |->
            IF r \in agentCancel[n] THEN None ELSE reqLock[r]]
      /\ disposition' = [disposition EXCEPT ![i] =
            IF suggested THEN "suggested" ELSE "absent"]
      /\ rowLock' = [rowLock EXCEPT ![e] = None]
      /\ agentTodo' = [agentTodo EXCEPT ![n] = @ \ {e}]
      /\ agentPc' = [agentPc EXCEPT ![n] = "picked"]
      /\ AgentForget(n)
      /\ UNCHANGED <<alertVars, cases, answered, reqEvent, reqInv, lock,
                     redisVars, faults>>

\* An exception in the transaction: rollback, and reading the rolled-back
\* event.id in the except branch raises again, which ends the run.
AgentFail(n) ==
  /\ agentPc[n] \in {"investigating", "concluded", "charged"}
  /\ Fault
  /\ Rollback({n})
  /\ ReleaseLock("investigation", n)
  /\ AgentForget(n)
  /\ agentTodo' = [agentTodo EXCEPT ![n] = {}]
  /\ agentPc' = [agentPc EXCEPT ![n] = "idle"]
  /\ UNCHANGED <<evStatus, invVars, redisVars, AgentOthers>>

AgentEnd(n) ==
  /\ agentPc[n] = "picked"
  /\ agentTodo[n] = {}
  /\ ReleaseLock("investigation", n)
  /\ agentPc' = [agentPc EXCEPT ![n] = "idle"]
  /\ UNCHANGED <<agentTodo, agentEvent, agentSeen, agentVerdict, agentCancel,
                 evStatus, invVars, reqStatus, reqLock, rowLock, redisVars,
                 faults, AgentOthers>>

AgentStep(n) ==
  \/ AgentPick(n)
  \/ \E e \in Events : AgentBegin(n, e)
  \/ \E v \in Verdicts : AgentConclude(n, v)
  \/ AgentCharge(n)
  \/ \E i \in Investigations, suggested \in BOOLEAN : AgentCommit(n, i, suggested)
  \/ AgentFail(n)
  \/ AgentEnd(n)
=============================================================================
