---------------------------- MODULE Aggregation -----------------------------
(***************************************************************************)
(* AggregationService.run: fold triaged alerts into events, one committed  *)
(* transaction per alert.  Between the SELECT that finds the merge target  *)
(* and the UPDATE that adds to it the target may change status, and the    *)
(* UPDATE waits while the agent holds the event's row.                     *)
(*                                                                         *)
(* A worker in Unlocked runs with use_lock=False, as the health check does *)
(* (eval/health_check/stage_runner.py:88).                                 *)
(***************************************************************************)
EXTENDS EventStore

CONSTANTS Aggregators, Unlocked

ASSUME AggregationAssumption ==
  /\ Aggregators \subseteq Workers
  /\ Unlocked \subseteq Aggregators

VARIABLES
  aggPc,      \* where each run is
  aggTodo,    \* the batch still to process: alerts fetched as pending
  aggTarget,  \* the merge target found for the current alert, or None
  aggCount    \* the target's alert_count when it was read

aggVars == <<aggPc, aggTodo, aggTarget, aggCount>>

AggTypeOK ==
  /\ aggPc \in [Aggregators -> {"idle", "fetched", "found"}]
  /\ aggTodo \in [Aggregators -> SUBSET Alerts]
  /\ aggTarget \in [Aggregators -> Events \cup {None}]
  /\ aggCount \in [Aggregators -> Nat]

AggInit ==
  /\ aggPc = [g \in Aggregators |-> "idle"]
  /\ aggTodo = [g \in Aggregators |-> {}]
  /\ aggTarget = [g \in Aggregators |-> None]
  /\ aggCount = [g \in Aggregators |-> 0]

\* The process dies: its runs are gone.
AggDies ==
  /\ aggPc' = [g \in Aggregators |-> "idle"]
  /\ aggTodo' = [g \in Aggregators |-> {}]
  /\ aggTarget' = [g \in Aggregators |-> None]
  /\ aggCount' = [g \in Aggregators |-> 0]

\* The store variables no aggregation step writes.
AggOthers == <<invVars, reqVars, assetVars, rowLock, redisVars, faults>>

\* _fetch_pending: TRIAGED, in a queue route, without an EventAlert.
Pending == {a \in Alerts : alertStatus[a] = "triaged" /\ link[a] = None}

\* _find_merge_target: the newest PENDING_REVIEW event of the key.
IsMergeTarget(e, k) ==
  LET open(f) == evKey[f] = k /\ evStatus[f] = "pending_review"
  IN  /\ open(e)
      /\ \A f \in Events : open(f) => f <= e

\* The batch is worked through in order of occurred_at.
Current(g, a) == a \in aggTodo[g] /\ \A b \in aggTodo[g] : a <= b

AggReset(g) ==
  /\ aggPc' = [aggPc EXCEPT ![g] = "idle"]
  /\ aggTodo' = [aggTodo EXCEPT ![g] = {}]
  /\ aggTarget' = [aggTarget EXCEPT ![g] = None]
  /\ aggCount' = [aggCount EXCEPT ![g] = 0]
  /\ IF g \in Unlocked THEN UNCHANGED lock ELSE ReleaseLock("aggregation", g)

AggFetch(g) ==
  /\ aggPc[g] = "idle"
  /\ Pending # {}
  /\ IF g \in Unlocked THEN UNCHANGED lock ELSE AcquireLock("aggregation", g)
  /\ aggPc' = [aggPc EXCEPT ![g] = "fetched"]
  /\ aggTodo' = [aggTodo EXCEPT ![g] = Pending]
  /\ UNCHANGED <<aggTarget, aggCount, alertVars, evStatus, AggOthers>>

\* The alert_count of the target as the SELECT loads it.
CountRead(e) == alertCount[e]

AggFind(g) ==
  /\ aggPc[g] = "fetched"
  /\ \E a \in Alerts :
       /\ Current(g, a)
       /\ \/ \E e \in Events :
               /\ IsMergeTarget(e, KeyOf[a])
               /\ aggTarget' = [aggTarget EXCEPT ![g] = e]
               /\ aggCount' = [aggCount EXCEPT ![g] = CountRead(e)]
          \/ /\ \A e \in Events : ~IsMergeTarget(e, KeyOf[a])
             /\ aggTarget' = [aggTarget EXCEPT ![g] = None]
             /\ aggCount' = [aggCount EXCEPT ![g] = 0]
  /\ aggPc' = [aggPc EXCEPT ![g] = "found"]
  /\ UNCHANGED <<aggTodo, alertVars, evStatus, lock, AggOthers>>

\* Mutant: the schema without the unique constraint.
UniqueAlertLink_Dropped(a) == TRUE

\* uq_event_alerts_alert_id lets the INSERT through.
UniqueAlertLink(a) == link[a] = None

\* The event the current alert goes to: the target, or a new PENDING_REVIEW one.
Destination(g, e, k) ==
  \/ /\ aggTarget[g] = e
     /\ EventRowFree(e, g)
     /\ UNCHANGED <<evStatus, evKey>>
  \/ /\ aggTarget[g] = None
     /\ IsNext(e, Events, evStatus)
     /\ evStatus' = [evStatus EXCEPT ![e] = "pending_review"]
     /\ evKey' = [evKey EXCEPT ![e] = k]

\* _aggregate_one after the SELECT, and the commit of run.
AggCommit(g) ==
  /\ aggPc[g] = "found"
  /\ \E a \in Alerts, e \in Events :
       /\ Current(g, a)
       /\ UniqueAlertLink(a)
       /\ Destination(g, e, KeyOf[a])
       /\ link' = [link EXCEPT ![a] = e]
       /\ alertStatus' = [alertStatus EXCEPT ![a] = "event_linked"]
       /\ alertCount' = [alertCount EXCEPT ![e] = aggCount[g] + 1]
       /\ aggTodo' = [aggTodo EXCEPT ![g] = @ \ {a}]
  /\ aggPc' = [aggPc EXCEPT ![g] = "fetched"]
  /\ aggTarget' = [aggTarget EXCEPT ![g] = None]
  /\ aggCount' = [aggCount EXCEPT ![g] = 0]
  /\ UNCHANGED <<lock, AggOthers>>

\* Another run linked the alert first: uq_event_alerts_alert_id is violated, the
\* transaction rolls back, and reading the rolled-back item.alert.id in the
\* except branch raises again, which ends the run.
AggConflict(g) ==
  /\ aggPc[g] = "found"
  /\ \E a \in Alerts : Current(g, a) /\ ~UniqueAlertLink(a)
  /\ AggReset(g)
  /\ UNCHANGED <<alertVars, evStatus, AggOthers>>

AggEnd(g) ==
  /\ aggPc[g] = "fetched"
  /\ aggTodo[g] = {}
  /\ AggReset(g)
  /\ UNCHANGED <<alertVars, evStatus, AggOthers>>

AggStep(g) ==
  \/ AggFetch(g)
  \/ AggFind(g)
  \/ AggCommit(g)
  \/ AggConflict(g)
  \/ AggEnd(g)
=============================================================================
