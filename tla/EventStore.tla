----------------------------- MODULE EventStore -----------------------------
(***************************************************************************)
(* The rows and Redis keys the pipeline services share, and the queries    *)
(* and lock operations they have in common.  The services themselves are   *)
(* in Aggregation, Investigation, HumanReview and DefenseAssets; their     *)
(* composition is EventPipeline.                                           *)
(*                                                                         *)
(* PostgreSQL runs at READ COMMITTED: a query sees what is committed when  *)
(* it starts, an UPDATE waits for the row's writer and then overwrites.    *)
(* A variable holds the committed value of its column; what a transaction  *)
(* has read or is about to write lives in the variables of its service.    *)
(* rowLock and reqLock name the transaction that has flushed an UPDATE of  *)
(* a row it has not committed yet.                                         *)
(*                                                                         *)
(* Rows are numbered: events in the order of created_at, investigations in *)
(* that of started_at, alerts in that of occurred_at, and review requests  *)
(* as their messages leave.                                                *)
(***************************************************************************)
EXTENDS Naturals, FiniteSets

CONSTANTS
  Alerts,          \* alerts that triage will queue, in order of occurred_at
  Keys,            \* values of Event.event_key
  KeyOf,           \* the event_key of each alert
  Probes,          \* the alerts a health check has injected
  Events,          \* ids of events, in order of created_at
  Investigations,  \* ids of investigations, in order of started_at
  Requests,        \* ids of human review requests, in the order they are sent
  Verdicts,        \* the verdicts the agent may submit
  Workers,         \* every transaction runner: jobs and API requests
  Reliable,        \* the services whose lock TTL outlasts every run
  MaxFaults,       \* bound: how many exceptions and process deaths happen
  None             \* NULL: no row, nobody

Services == {"aggregation", "investigation", "human_review", "defense_assets"}

SettleVerdicts == {"attack_confirmed", "likely_false_positive"}
HumanVerdicts  == {"insufficient_information", "needs_human_review"}

ASSUME StoreAssumption ==
  /\ Alerts \subseteq Nat /\ Events \subseteq Nat
  /\ Investigations \subseteq Nat /\ Requests \subseteq Nat
  /\ KeyOf \in [Alerts -> Keys]
  /\ Probes \subseteq Alerts
  /\ Verdicts \subseteq SettleVerdicts \cup HumanVerdicts
  /\ Reliable \subseteq Services
  /\ MaxFaults \in Nat
  /\ None \notin Events \cup Investigations \cup Requests \cup Workers
  /\ None \notin Verdicts

VARIABLES
  alertStatus,  \* [Alerts -> {"new", "triaged", "event_linked"}]
  link,         \* event_alerts: the event of each alert
  evStatus,     \* Event.status
  evKey,        \* Event.event_key
  alertCount,   \* Event.alert_count
  invStatus,    \* Investigation.status
  invEvent,     \* Investigation.event_id
  verdict,      \* InvestigationConclusion.verdict
  seen,         \* the alerts put into the investigation's prompt
  reqStatus,    \* HumanReviewRequest.status
  reqEvent,     \* HumanReviewRequest.event_id
  reqInv,       \* HumanReviewRequest.investigation_id
  answered,     \* requests with a committed HumanReviewResponse
  cases,        \* how many JudgmentCases each investigation has
  disposition,  \* status of the investigation's DispositionRecord
  rowLock,      \* transaction holding the row lock of each event
  reqLock,      \* transaction holding the row lock of each request
  lock,         \* Redis: the token stored under each service's lock key
  marker,       \* Redis: events with an investigate:skip_budget key
  used,         \* Redis: investigate:daily_count of the current day
  faults        \* how many faults have happened, bounded by MaxFaults

alertVars  == <<alertStatus, link, evKey, alertCount>>
invVars    == <<invStatus, invEvent, verdict, seen>>
reqVars    == <<reqStatus, reqEvent, reqInv, answered, reqLock>>
assetVars  == <<cases, disposition>>
redisVars  == <<marker, used>>

AlertStatus == {"new", "triaged", "event_linked"}

\* "absent": not created yet.  "investigating" is only ever written inside the
\* agent's transaction and is overwritten before it commits.
EventStatus == {"absent", "pending_review", "concluded", "human_pending", "closed"}

\* The orchestrator commits an investigation only with one of these statuses.
InvestigationStatus == {"absent", "completed", "needs_human"}

\* "draft": inserted by a transaction that has not committed.  "orphan": the
\* message left but its transaction rolled back, so no row carries the id.
RequestStatus ==
  {"absent", "draft", "sent", "answered", "expired", "cancelled", "orphan"}

DispositionStatus == {"absent", "suggested", "confirmed", "rejected"}

AlertTypeOK ==
  /\ alertStatus \in [Alerts -> AlertStatus]
  /\ link \in [Alerts -> Events \cup {None}]

EventTypeOK ==
  /\ evStatus \in [Events -> EventStatus]
  /\ evKey \in [Events -> Keys \cup {None}]
  /\ alertCount \in [Events -> Nat]
  /\ rowLock \in [Events -> Workers \cup {None}]

InvestigationTypeOK ==
  /\ invStatus \in [Investigations -> InvestigationStatus]
  /\ invEvent \in [Investigations -> Events \cup {None}]
  /\ verdict \in [Investigations -> Verdicts \cup {None}]
  /\ seen \in [Investigations -> SUBSET Alerts]
  /\ cases \in [Investigations -> Nat]
  /\ disposition \in [Investigations -> DispositionStatus]

RequestTypeOK ==
  /\ reqStatus \in [Requests -> RequestStatus]
  /\ reqEvent \in [Requests -> Events \cup {None}]
  /\ reqInv \in [Requests -> Investigations \cup {None}]
  /\ answered \in SUBSET Requests
  /\ reqLock \in [Requests -> Workers \cup {None}]

RedisTypeOK ==
  /\ lock \in [Services -> Workers \cup {None}]
  /\ marker \in SUBSET Events
  /\ used \in Nat
  /\ faults \in Nat

StoreTypeOK ==
  /\ AlertTypeOK
  /\ EventTypeOK
  /\ InvestigationTypeOK
  /\ RequestTypeOK
  /\ RedisTypeOK

StoreInit ==
  /\ alertStatus = [a \in Alerts |-> "new"]
  /\ link = [a \in Alerts |-> None]
  /\ evStatus = [e \in Events |-> "absent"]
  /\ evKey = [e \in Events |-> None]
  /\ alertCount = [e \in Events |-> 0]
  /\ invStatus = [i \in Investigations |-> "absent"]
  /\ invEvent = [i \in Investigations |-> None]
  /\ verdict = [i \in Investigations |-> None]
  /\ seen = [i \in Investigations |-> {}]
  /\ reqStatus = [r \in Requests |-> "absent"]
  /\ reqEvent = [r \in Requests |-> None]
  /\ reqInv = [r \in Requests |-> None]
  /\ answered = {}
  /\ cases = [i \in Investigations |-> 0]
  /\ disposition = [i \in Investigations |-> "absent"]
  /\ rowLock = [e \in Events |-> None]
  /\ reqLock = [r \in Requests |-> None]
  /\ lock = [s \in Services |-> None]
  /\ marker = {}
  /\ used = 0
  /\ faults = 0

-----------------------------------------------------------------------------
(* Queries *)

\* The alerts linked to event e.
Linked(e) == {a \in Alerts : link[a] = e}

\* probe_event_ids_subquery: one probe makes the whole event a probe.
ProbeEvents == {link[a] : a \in Probes}

\* Mutant: the guard finds no probe.
IsProbeEvent_Never(e) == FALSE

\* event_is_probe, a query of its own.
IsProbeEvent(e) == e \in ProbeEvents

\* The committed investigations of event e.
InvestigationsOf(e) == {i \in Investigations : invEvent[i] = e}

\* stale._latest_investigation, and service._latest_human_investigation before
\* its verdict test: ORDER BY started_at DESC LIMIT 1.
IsLatest(i, e) ==
  /\ invEvent[i] = e
  /\ \A j \in InvestigationsOf(e) : j <= i

\* Requests other transactions can see in state "sent".
Sent == {r \in Requests : reqStatus[r] = "sent"}

\* Requests that have left but are not committed.
Drafts == {r \in Requests : reqStatus[r] = "draft"}

\* The request rows of event e that are committed, whatever their status.
RequestsOf(e) ==
  {r \in Requests :
     /\ reqEvent[r] = e
     /\ reqStatus[r] \in {"sent", "answered", "expired", "cancelled"}}

\* The next unused id of an ordered set of ids: the oldest that is absent.
IsNext(x, Ids, status) ==
  /\ status[x] = "absent"
  /\ \A y \in Ids : y < x => status[y] # "absent"

-----------------------------------------------------------------------------
(* The service locks: SET key token NX EX ttl, and GET / compare / DEL.      *)
(* Module RedisLock has the steps inside these operations and their clock.   *)

AcquireLock(s, w) ==
  /\ lock[s] = None
  /\ lock' = [lock EXCEPT ![s] = w]

ReleaseLock(s, w) ==
  lock' = [lock EXCEPT ![s] = IF @ = w THEN None ELSE @]

\* An UPDATE of the row by w can proceed.
EventRowFree(e, w) == rowLock[e] \in {None, w}
RequestRowFree(r, w) == reqLock[r] \in {None, w}

\* One exception or process death, within the bound.
Fault == faults < MaxFaults /\ faults' = faults + 1

\* What the database does to w's open transaction: its row locks go, and the
\* rows it inserted never existed.
Rollback(W) ==
  /\ rowLock' = [e \in Events |-> IF rowLock[e] \in W THEN None ELSE rowLock[e]]
  /\ reqLock' = [r \in Requests |-> IF reqLock[r] \in W THEN None ELSE reqLock[r]]
  /\ reqStatus' = [r \in Requests |->
                     IF reqStatus[r] = "draft" /\ reqLock[r] \in W
                     THEN "orphan" ELSE reqStatus[r]]

-----------------------------------------------------------------------------
(* TriageService commits an alert into one of the queue routes               *)
TriageAlert(a) ==
  /\ alertStatus[a] = "new"
  /\ alertStatus' = [alertStatus EXCEPT ![a] = "triaged"]
  /\ UNCHANGED <<link, evKey, alertCount, evStatus, invVars, reqVars,
                 assetVars, rowLock, lock, redisVars, faults>>
=============================================================================
