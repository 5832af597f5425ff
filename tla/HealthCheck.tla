---------------------------- MODULE HealthCheck -----------------------------
(***************************************************************************)
(* The pipeline while health checks run.  A check injects a probe alert,   *)
(* drives it through triage and aggregation without their locks and has    *)
(* its event investigated by a mock LLM, in the same tables and next to    *)
(* the scheduled jobs (HealthCheckRunner._run_one, run_to_stage).  Its     *)
(* aggregation and its investigation are those of the services: the check  *)
(* is one of their workers.                                                *)
(***************************************************************************)
EXTENDS EventPipeline

CONSTANTS
  HealthChecks,  \* runs of one scenario each
  ProbeOf,       \* the alert each of them injects
  MockVerdicts   \* values eval.health_check_agent_mock_verdict is set to

ASSUME HealthCheckAssumption ==
  /\ HealthChecks \subseteq Unlocked \cap Agents
  /\ ProbeOf \in [HealthChecks -> Probes]
  /\ MockVerdicts \subseteq Verdicts

VARIABLES
  checkPc,  \* idle, triaged, aggregated, investigating or done
  exposed   \* history: events whose first probe came between the two queries of a run

probedVars == <<vars, checkPc, exposed>>

CheckInit ==
  /\ Init
  /\ checkPc = [h \in HealthChecks |-> "idle"]
  /\ exposed = {}

CheckAt(h, here, there) ==
  /\ checkPc[h] = here
  /\ checkPc' = [checkPc EXCEPT ![h] = there]

\* ProbeInjectService.inject and its commit, and the unlocked triage of it.  The lock
\* of the checks, eval:lock:health_check, may run out under one: they may overlap.
CheckStarts(h) ==
  /\ CheckAt(h, "idle", "triaged")
  /\ TriageAlert(ProbeOf[h])
  /\ UNCHANGED <<aggVars, agentVars, reviewVars, settleVars>>

\* AggregationService.run(use_lock=False): the whole backlog, not only the probe,
\* which another run may have linked already.
CheckAggregates(h) ==
  /\ \/ (AggFetch(h) \/ AggFind(h) \/ AggCommit(h)) /\ CheckAt(h, "triaged", "triaged")
     \/ AggEnd(h) /\ CheckAt(h, "triaged", "aggregated")
     \/ AggConflict(h) /\ CheckAt(h, "triaged", "done")
  /\ UNCHANGED <<agentVars, reviewVars, settleVars>>

NothingToAggregate(h) ==
  /\ aggPc[h] = "idle" /\ Pending = {}
  /\ CheckAt(h, "triaged", "aggregated")
  /\ UNCHANGED vars

\* The event of the probe, whatever its status and whoever else works on it.
CheckFindsEvent(h) ==
  /\ link[ProbeOf[h]] # None
  /\ CheckAt(h, "aggregated", "investigating")
  /\ agentTodo' = [agentTodo EXCEPT ![h] = {link[ProbeOf[h]]}]
  /\ agentPc' = [agentPc EXCEPT ![h] = "picked"]
  /\ UNCHANGED <<storeVars, aggVars, agentEvent, agentSeen, agentVerdict, agentCancel,
                 reviewVars, settleVars>>

\* orchestrator._investigate_event with HealthCheckMockLLM, and the commit: no lock, no
\* budget, no suggested disposition.
CheckInvestigates(h) ==
  /\ \/ /\ \/ \E e \in Events : AgentBegin(h, e)
           \/ (\E v \in MockVerdicts : AgentConclude(h, v)) \/ AgentCharge(h)
           \/ \E i \in Investigations : AgentCommit(h, i, FALSE)
        /\ CheckAt(h, "investigating", "investigating")
     \/ AgentFail(h) /\ CheckAt(h, "investigating", "done")
     \/ AgentEnd(h) /\ CheckAt(h, "investigating", "done")
  /\ UNCHANGED <<aggVars, reviewVars, settleVars>>

\* The scenario's expected_stage is reached, or the probe has no event.
CheckStops(h) ==
  /\ aggPc[h] = "idle"
  /\ \/ CheckAt(h, "triaged", "done")
     \/ CheckAt(h, "aggregated", "done")
  /\ UNCHANGED vars

CheckRuns(h) ==
  \/ CheckStarts(h)
  \/ CheckAggregates(h) \/ NothingToAggregate(h)
  \/ CheckFindsEvent(h) \/ CheckInvestigates(h)
  \/ CheckStops(h)

RealAlertArrives ==
  /\ \E a \in Alerts \ Probes : TriageAlert(a)
  /\ UNCHANGED <<aggVars, agentVars, reviewVars, settleVars>>

\* A real verdict other than the mock ones, which so mark the check's investigations.
RealAgentRuns(n) == AgentRuns(n) /\ agentVerdict'[n] \notin MockVerdicts

\* The events some run has found to be no probes and not looked at yet.
BetweenQueries ==
  {e \in Events : (\E p \in Settlers : assetTested[p] = e)
                 \/ (\E d \in Dispatchers : dispTested[d] = e)}

Exposes == exposed' = exposed \cup (BetweenQueries \cap (ProbeEvents' \ ProbeEvents))

CheckDies ==
  checkPc' = [h \in HealthChecks |-> IF checkPc[h] = "idle" THEN "idle" ELSE "done"]

ProbedStep ==
  \/ \E h \in HealthChecks : CheckRuns(h)
  \/ /\ \/ RealAlertArrives
        \/ \E g \in Aggregators \ HealthChecks : AggregationRuns(g)
        \/ \E n \in Agents \ HealthChecks : RealAgentRuns(n)
        \/ \E d \in Dispatchers : DispatcherRuns(d)
        \/ \E u \in Operators : OperatorCalls(u)
        \/ \E p \in Settlers : SettlerRuns(p)
        \/ OperatorDecides
        \/ MarkerTtl
        \/ \E s \in Services : LockExpires(s)
        \/ Midnight
     /\ UNCHANGED checkPc
  \/ Crash /\ CheckDies

ProbedNext == ProbedStep /\ Exposes

ProbedSpec == CheckInit /\ [][ProbedNext]_probedVars

\* As in EventPipeline; a check that has started goes on.
ProbedFairSpec ==
  /\ ProbedSpec
  /\ \A h \in HealthChecks : WF_probedVars(checkPc[h] # "idle" /\ CheckRuns(h) /\ Exposes)
  /\ \A g \in Aggregators \ HealthChecks :
       WF_probedVars(AggregationRuns(g) /\ UNCHANGED checkPc /\ Exposes)
  /\ \A n \in Agents \ HealthChecks :
       WF_probedVars(RealAgentRuns(n) /\ UNCHANGED checkPc /\ Exposes)
  /\ \A p \in Settlers : WF_probedVars(SettlerRuns(p) /\ UNCHANGED checkPc /\ Exposes)
  /\ \A s \in Services : WF_probedVars(LockExpires(s) /\ UNCHANGED checkPc /\ Exposes)
  /\ WF_probedVars(Midnight /\ UNCHANGED checkPc /\ Exposes)

-----------------------------------------------------------------------------
(* Properties *)

\* What the mock LLM found stays out of the pipeline's results, although the probe may
\* share its event with real alerts, be merged while the agent or the settlement works
\* on that event, and be investigated beside them: it is neither settled into a judgment
\* case nor put before a human (eval/probe/guard.py), unless the event's first probe
\* came between a run's test of the event and its query for the investigation.
ProbesStayApart ==
  \A i \in Investigations : verdict[i] \in MockVerdicts /\ invEvent[i] \notin exposed =>
    cases[i] = 0 /\ \A r \in Requests : reqInv[r] # i

\* Probes take nothing away from the settlement of real events
\* (docs/regression-health-phase9.md:8).
RealEventsClose ==
  \A e \in Events :
    evStatus[e] = "concluded" /\ e \notin ProbeEvents
      ~> evStatus[e] = "closed" \/ e \in ProbeEvents
=============================================================================
