--------------------------- MODULE EventPipeline ----------------------------
(***************************************************************************)
(* The life of an event: triaged alerts are aggregated into it, the agent  *)
(* investigates it, humans are asked and answer, and it is settled and     *)
(* closed.  The scheduler's jobs and the API requests of one backend       *)
(* process interleave on the shared store; the process may die, which      *)
(* rolls back every open transaction and leaves the Redis keys behind.     *)
(***************************************************************************)
EXTENDS Aggregation, Investigation, HumanReview, DefenseAssets

storeVars == <<alertVars, evStatus, invVars, reqVars, assetVars, rowLock, lock,
               redisVars, faults>>

vars == <<storeVars, aggVars, agentVars, reviewVars, settleVars>>

TypeOK ==
  /\ StoreTypeOK
  /\ AggTypeOK
  /\ AgentTypeOK
  /\ ReviewTypeOK
  /\ AssetTypeOK

Init ==
  /\ StoreInit
  /\ AggInit
  /\ AgentInit
  /\ ReviewInit
  /\ AssetInit

\* w has no run in progress under the lock of service s.
IsIdle(s, w) ==
  /\ w \in Aggregators => aggPc[w] = "idle"
  /\ w \in Agents => agentPc[w] = "idle"
  /\ w \in Dispatchers => dispPc[w] = "idle"
  /\ w \in Settlers => assetPc[w] = "idle"

\* Mutant: SET without EX, the key of a dead owner stays.
LockExpires_NoTtl(s) == FALSE

\* The TTL of a lock key runs out: after its owner died, or under a run that
\* takes longer than the TTL unless the service is Reliable.
LockExpires(s) ==
  /\ lock[s] # None
  /\ s \in Reliable => IsIdle(s, lock[s])
  /\ lock' = [lock EXCEPT ![s] = None]
  /\ UNCHANGED <<alertVars, evStatus, invVars, reqVars, assetVars, rowLock,
                 redisVars, faults, aggVars, agentVars, reviewVars, settleVars>>

\* Mutant: one counter key for all days.
Midnight_Never == FALSE

\* investigate:daily_count:<date> is a new key every UTC day.
Midnight ==
  /\ used # 0
  /\ used' = 0
  /\ UNCHANGED <<alertVars, evStatus, invVars, reqVars, assetVars, rowLock, lock,
                 marker, faults, aggVars, agentVars, reviewVars, settleVars>>

\* The backend process dies and starts again.
Crash ==
  /\ Fault
  /\ Rollback(Workers)
  /\ AggDies /\ AgentDies /\ ReviewDies /\ AssetDies
  /\ UNCHANGED <<alertVars, evStatus, invVars, reqEvent, reqInv, answered,
                 assetVars, lock, redisVars>>

AlertArrives ==
  /\ \E a \in Alerts : TriageAlert(a)
  /\ UNCHANGED <<aggVars, agentVars, reviewVars, settleVars>>

AggregationRuns(g) ==
  /\ AggStep(g)
  /\ UNCHANGED <<agentVars, reviewVars, settleVars>>

AgentRuns(n) ==
  /\ AgentStep(n)
  /\ UNCHANGED <<aggVars, reviewVars, settleVars>>

DispatcherRuns(d) ==
  /\ DispStep(d)
  /\ UNCHANGED <<aggVars, agentVars, settleVars>>

OperatorCalls(u) ==
  /\ OpStep(u)
  /\ UNCHANGED <<aggVars, agentVars, settleVars>>

SettlerRuns(p) ==
  /\ AssetStep(p)
  /\ UNCHANGED <<aggVars, agentVars, reviewVars>>

OperatorDecides ==
  /\ \E i \in Investigations, s \in {"confirmed", "rejected"} : DecideDisposition(i, s)
  /\ UNCHANGED <<aggVars, agentVars, reviewVars>>

MarkerTtl ==
  /\ \E e \in Events : MarkerExpires(e)
  /\ UNCHANGED <<aggVars, agentVars, settleVars>>

Next ==
  \/ AlertArrives
  \/ \E g \in Aggregators : AggregationRuns(g)
  \/ \E n \in Agents : AgentRuns(n)
  \/ \E d \in Dispatchers : DispatcherRuns(d)
  \/ \E u \in Operators : OperatorCalls(u)
  \/ \E p \in Settlers : SettlerRuns(p)
  \/ OperatorDecides
  \/ MarkerTtl
  \/ \E s \in Services : LockExpires(s)
  \/ Midnight
  \/ Crash

Spec == Init /\ [][Next]_vars

\* An API request that has read its row runs to completion.
OperatorFinishes(u) ==
  /\ ReplyFlush(u) \/ ReplyUpdate(u) \/ ReplyCommit(u) \/ CancelCommit(u)
  /\ UNCHANGED <<aggVars, agentVars, settleVars>>

\* A run that has started goes on.
AggregationGoesOn(g) == aggPc[g] # "idle" /\ AggregationRuns(g)

\* The scheduler starts every job again and again and its runs get on with it;
\* keys of dead owners run out and days pass.  Nobody has to call the API or to
\* start the health check, whose aggregation is the unlocked one.
Fairness ==
  /\ \A g \in Aggregators \ Unlocked : WF_vars(AggregationRuns(g))
  /\ \A g \in Unlocked : WF_vars(AggregationGoesOn(g))
  /\ \A n \in Agents : WF_vars(AgentRuns(n))
  /\ \A d \in Dispatchers : WF_vars(DispatcherRuns(d))
  /\ \A p \in Settlers : WF_vars(SettlerRuns(p))
  /\ \A u \in Operators : WF_vars(OperatorFinishes(u))
  /\ \A s \in Services : WF_vars(LockExpires(s))
  /\ WF_vars(Midnight)

FairSpec == Spec /\ Fairness

-----------------------------------------------------------------------------
(* Safety *)

\* An event has at most one open request to a human: two dispatchers, a reply,
\* a cancellation, an expiry and a crash may all work on its requests, and only
\* the pick's NOT EXISTS stands between a candidate and a second message.
AtMostOneSent ==
  \A r, q \in Sent : reqEvent[r] = reqEvent[q] => r = q

\* Why that is so, by induction on the steps: the run that is dispatching owns
\* the lock, what is in flight belongs to it, and nothing it has sent or is about
\* to send concerns an event with another open request it does not withdraw.
DispatcherOwnsLock ==
  \A d \in Dispatchers : dispPc[d] # "idle" => lock["human_review"] = d

DraftsAreOwned ==
  \A r \in Drafts : reqLock[r] \in Dispatchers /\ dispPc[reqLock[r]] = "sending"

\* The events d has picked and not turned into a candidate yet.
Asking(d) == dispPicked[d] \cup ({dispTested[d]} \ {None})

NothingPicked(d) == dispPicked[d] = {} /\ dispTested[d] = None /\ dispTodo[d] = {}

OneQuestion ==
  /\ \A d \in Dispatchers : dispPc[d] # "sending" => NothingPicked(d)
  /\ \A d \in Dispatchers : dispPc[d] = "sending" =>
       /\ dispTested[d] \notin dispPicked[d]
       /\ \A e \in Asking(d) :
            /\ \A r \in (Sent \ Removed(d)) \cup Drafts : reqEvent[r] # e
            /\ \A c \in dispTodo[d] : c.event # e
       /\ \A c \in dispTodo[d] :
            /\ \A r \in (Sent \ Removed(d)) \cup Drafts : reqEvent[r] # c.event
            /\ \A b \in dispTodo[d] : b.event = c.event => b = c
       /\ \A r \in Drafts, q \in (Sent \ Removed(d)) \cup Drafts :
            reqEvent[r] = reqEvent[q] => r = q

DispatchInv == AtMostOneSent /\ DispatcherOwnsLock /\ DraftsAreOwned /\ OneQuestion

\* An event is asked about at most max_resend times after the first, counting
\* expired, cancelled and answered requests alike.
RequestCap ==
  \A e \in Events : Cardinality(RequestsOf(e)) <= MaxResend + 1

\* A recorded reply takes its event out of HUMAN_PENDING until the event is judged
\* again, even when the dispatcher or a cancellation overwrites the request's own
\* status.
ReplyTakesEffect ==
  ReinvestigationEnabled =>
    \A r \in answered :
      IsLatest(reqInv[r], reqEvent[r]) => evStatus[reqEvent[r]] # "human_pending"

\* events.alert_count, written from a value read earlier, is the number of
\* event_alerts rows of the event.
AlertCountExact ==
  \A e \in Events : alertCount[e] = Cardinality(Linked(e))

\* When the health check aggregates without the lock, increments can be lost but
\* an event never counts an alert it does not hold.
AlertCountNeverOver ==
  \A e \in Events : alertCount[e] <= Cardinality(Linked(e))

\* What the status of an event says is what its latest investigation found: a
\* concluded or closed event has a completed investigation with a verdict that
\* can be settled, an event waiting for a human has one that asks for it.
StatusAgreesWithInvestigation ==
  \A e \in Events :
    /\ evStatus[e] \in {"concluded", "closed"} =>
         \E i \in Investigations :
           /\ IsLatest(i, e)
           /\ invStatus[i] = "completed" /\ verdict[i] \in SettleVerdicts
    /\ evStatus[e] = "human_pending" =>
         \E i \in Investigations :
           /\ IsLatest(i, e)
           /\ verdict[i] \in HumanVerdicts
           /\ ReinvestigationEnabled => invStatus[i] = "needs_human"

\* The daily counter never passes the budget although the batch is sized before
\* the run and every event is charged on its own.
BudgetRespected == used <= DailyBudget

\* An event is closed only together with, or after, the judgment case of its
\* investigation.
ClosedHasCase ==
  \A e \in Events : evStatus[e] = "closed" =>
    \E i \in Settled : invEvent[i] = e /\ verdict[i] \in SettleVerdicts

\* An investigation is settled into one judgment case, although nothing in the
\* schema says so, an exception may leave the case without the close, and the
\* next run picks the event again.
OneCasePerInvestigation == \A i \in Investigations : cases[i] <= 1

\* Where disposition must be confirmed, an event is closed only over a case whose
\* suggestion, if it has one, somebody has decided.
ClosedIsDecided ==
  RequireDispositionConfirm =>
    \A e \in Events : evStatus[e] = "closed" =>
      \E i \in Settled : invEvent[i] = e /\ disposition[i] # "suggested"

\* An event that has been concluded is closed and goes nowhere else
\* (docs/database-er.md:137).
ConcludedOnlyCloses ==
  [][\A e \in Events :
       evStatus[e] \in {"concluded", "closed"} => evStatus'[e] \in {evStatus[e], "closed"}]_vars

-----------------------------------------------------------------------------
(* The abstract life of an event *)

\* What the investigation of each event found.
Findings ==
  [e \in Events |->
     IF InvestigationsOf(e) = {} THEN "none"
     ELSE IF \E i \in InvestigationsOf(e) : verdict[i] \in SettleVerdicts THEN "sound"
     ELSE "unsure"]

Replied == {reqEvent[r] : r \in answered}

Filed == {e \in Events : \E i \in InvestigationsOf(e) : cases[i] > 0}

Life == INSTANCE EventLife WITH
  Reopening <- ReinvestigationEnabled,
  status <- evStatus, finding <- Findings, replied <- Replied, filed <- Filed

\* The jobs and requests, each writing what it read some steps ago, move every event
\* along the abstract life and no other way: a commit of the agent judges an event that is
\* pending then, not only when it was picked, and has no sound judgment yet; its status
\* agrees with that judgment until a reply to an earlier question sends it back; and a
\* commit of the settlement closes only events with a sound judgment and a case.
ImplementsEventLife == Life!Spec

-----------------------------------------------------------------------------
(* Liveness *)

\* Every alert triage queues ends in an event, although its merge target may be
\* locked by the agent and its run may die.
QueuedAlertsAreLinked ==
  \A a \in Alerts : alertStatus[a] = "triaged" ~> alertStatus[a] = "event_linked"

\* Every new event is investigated, budget and crashes notwithstanding.
NewEventsAreInvestigated ==
  \A e \in Events :
    evStatus[e] = "pending_review" ~> \E i \in Investigations : invEvent[i] = e

\* Every concluded event is settled and closed, also when settling it failed halfway
\* and left the case behind, unless a late reply takes it back first.
ConcludedEventsClose ==
  \A e \in Events :
    evStatus[e] = "concluded" ~> evStatus[e] \in {"closed", "pending_review"}

\* A request left open on an event that no longer waits is withdrawn, or answered after
\* all.
ObsoleteRequestsAreWithdrawn ==
  \A r \in Requests :
    (reqStatus[r] = "sent" /\ evStatus[reqEvent[r]] # "human_pending")
      ~> reqStatus[r] # "sent"

\* After a human reply the agent runs again and the event goes on
\* (docs/human-review-phase6.md:39-40).
RepliedEventsGoOn ==
  \A e \in Events :
    (evStatus[e] = "pending_review" /\ \E r \in answered : reqEvent[r] = e)
      ~> evStatus[e] # "pending_review"
=============================================================================
