------------------------------- MODULE Triage --------------------------------
(***************************************************************************)
(* TriageService.run: each new alert goes through the handlers in one      *)
(* transaction.  The dedup handler keeps one group row per fingerprint;    *)
(* whitelist patterns, profiles and rules are abstracted to the score they *)
(* give.  A run in Unlocked has use_lock=False, as the health check does  *)
(* (eval/health_check/stage_runner.py:80).                                 *)
(***************************************************************************)
EXTENDS Integers, FiniteSets

CONSTANTS
  Alerts,           \* ids of ingested alerts, in order of occurred_at
  Fingerprints, FingerprintOf,
  Runs, Unlocked,   \* runs of the service; those that take no lock
  BatchSize,        \* triage.batch_size
  Window,           \* triage.dedup_window_minutes
  Low, BandLow, BandHigh, Deep,   \* the four thresholds of triage.*
  Scores,           \* rule scores before the profile discount
  Discounts,        \* what the profile hints take off
  AssistRoutes,     \* predicted routes the LLM may adjust; {} while it is off
  LlmScores, Weight,   \* what it answers; triage.llm_weight in percent
  Poison,           \* alerts on which some handler raises whenever it is tried
  MaxTime,          \* bound: the clock stops here
  MaxFaults,        \* bound: other exceptions and process deaths
  MayOverrun,       \* whether a run may outlive its lock's 300 seconds
  None

ASSUME TriageAssumption ==
  /\ Alerts \subseteq Nat
  /\ FingerprintOf \in [Alerts -> Fingerprints]
  /\ Unlocked \subseteq Runs
  /\ BatchSize \in Nat \ {0}
  /\ Window \in Nat
  /\ {Low, BandLow, BandHigh, Deep} \subseteq Int
  /\ Scores \subseteq Nat /\ Discounts \subseteq Nat
  /\ LlmScores \subseteq Nat /\ Weight \in 0..100
  /\ MayOverrun \in BOOLEAN
  /\ Poison \subseteq Alerts
  /\ MaxTime \in Nat /\ MaxFaults \in Nat
  /\ None \notin Alerts \cup Runs \cup Nat

VARIABLES
  status,     \* Alert.status
  result,     \* the alert's TriageResult, or None
  group,      \* the AlertDedupGroup of each fingerprint, or None
  groupLock,  \* the run whose open transaction has written the group's row
  lock,       \* Redis: who holds triage:lock:global
  pc,         \* where each run is
  todo,       \* the rest of its batch
  at,         \* the time its dedup handler read for the current alert
  read,       \* the group as that handler read it
  verdict,    \* what the handlers made of the alert
  clock, faults

vars == <<status, result, group, groupLock, lock, pc, todo, at, read, verdict, clock, faults>>

-----------------------------------------------------------------------------
(* Routing *)

\* rule_score: the weighted sum minus the discount for the profile hints.
RuleScore(raw, discount) == IF raw > discount THEN raw - discount ELSE 0

\* predict_route_decision, asked before the LLM may adjust the score.
Predict(score) ==
  IF score >= Deep THEN "queue_deep_review"
  ELSE IF BandLow <= score /\ score < BandHigh THEN "queue_uncertain"
  ELSE IF score < Low THEN "archive_low_risk"
  ELSE "queue_uncertain"

\* effective_score.  The LLM may be filtered out, used up, fail or answer.
Effective(rule, llm) ==
  IF llm = None THEN rule ELSE (rule * (100 - Weight) + llm * Weight) \div 100

Assists(rule) == {None} \cup (IF Predict(rule) \in AssistRoutes THEN LlmScores ELSE {})

\* RouteHandler: the routes it may take; a low score is sampled at random.
RouteOf(score) ==
  IF score >= Deep THEN {"queue_deep_review"}
  ELSE IF BandLow <= score /\ score < BandHigh THEN {"queue_uncertain"}
  ELSE IF score < Low THEN {"sample_audit", "archive_low_risk"}
  ELSE {"queue_uncertain"}

\* A route the dedup or the whitelist handler fixes; the scores are not computed.
ShortCircuit(route, time) ==
  [route |-> route, raw |-> None, rule |-> None, llm |-> None, seen |-> time]

Scored(time) ==
  UNION {UNION {{[route |-> route, raw |-> raw, rule |-> RuleScore(raw, d), llm |-> llm,
                  seen |-> time] : route \in RouteOf(Effective(RuleScore(raw, d), llm))}
                : llm \in Assists(RuleScore(raw, d))}
         : raw \in Scores, d \in Discounts}

\* What TriagePipeline may make of an alert its dedup handler looked at then.
Verdicts(hit, time) ==
  IF hit THEN {ShortCircuit("archive_dedup", time)}
  ELSE {ShortCircuit("archive_whitelist", time)} \cup Scored(time)

ArchiveRoutes == {"archive_low_risk", "archive_whitelist", "archive_dedup", "sample_audit"}

\* A TriageResult with the undiscounted score, and the time of its dedup handler.
Result == UNION {Verdicts(hit, t) : hit \in BOOLEAN, t \in 0..MaxTime}

\* An AlertDedupGroup.
Group == [start : 0..MaxTime, end : 0..(MaxTime + Window), count : Nat \ {0},
          rep : Alerts \cup {None}]

ASSUME NullAssumption == None \notin Result \cup Group

TypeOK ==
  /\ status \in [Alerts -> {"new", "triaged", "archived"}]
  /\ result \in [Alerts -> Result \cup {None}]
  /\ group \in [Fingerprints -> Group \cup {None}]
  /\ groupLock \in [Fingerprints -> Runs \cup {None}]
  /\ lock \in Runs \cup {None}
  /\ pc \in [Runs -> {"idle", "fetched", "read", "judged"}]
  /\ todo \in [Runs -> SUBSET Alerts]
  /\ at \in [Runs -> 0..MaxTime]
  /\ read \in [Runs -> Group \cup {None}]
  /\ verdict \in [Runs -> Result \cup {None}]
  /\ clock \in 0..MaxTime
  /\ faults \in 0..MaxFaults

Init ==
  /\ status = [a \in Alerts |-> "new"]
  /\ result = [a \in Alerts |-> None]
  /\ group = [f \in Fingerprints |-> None]
  /\ groupLock = [f \in Fingerprints |-> None]
  /\ lock = None
  /\ pc = [g \in Runs |-> "idle"]
  /\ todo = [g \in Runs |-> {}]
  /\ at = [g \in Runs |-> 0]
  /\ read = [g \in Runs |-> None]
  /\ verdict = [g \in Runs |-> None]
  /\ clock = 0
  /\ faults = 0

-----------------------------------------------------------------------------
(* One run *)

\* _fetch_new_alerts
NewAlerts == {a \in Alerts : status[a] = "new" /\ result[a] = None}

Batch == {a \in NewAlerts : Cardinality({b \in NewAlerts : b < a}) < BatchSize}

\* The lock is taken, or not asked for, and the batch is read.
Fetch(g) ==
  /\ pc[g] = "idle"
  /\ NewAlerts # {}
  /\ \/ g \in Unlocked /\ UNCHANGED lock
     \/ g \notin Unlocked /\ lock = None /\ lock' = g
  /\ todo' = [todo EXCEPT ![g] = Batch]
  /\ pc' = [pc EXCEPT ![g] = "fetched"]
  /\ UNCHANGED <<status, result, group, groupLock, at, read, verdict, clock, faults>>

\* The alert the run is at.
Current(g, a) == a \in todo[g] /\ \A b \in todo[g] : a <= b

\* The SELECT of the dedup handler.
ReadGroup(g) ==
  /\ pc[g] = "fetched"
  /\ \E a \in Alerts :
       /\ Current(g, a)
       /\ read' = [read EXCEPT ![g] = group[FingerprintOf[a]]]
  /\ at' = [at EXCEPT ![g] = clock]
  /\ pc' = [pc EXCEPT ![g] = "read"]
  /\ UNCHANGED <<status, result, group, groupLock, lock, todo, verdict, clock, faults>>

\* Mutants: a group is a duplicate's group for ever; its last minute is not in it.
InWindow_Forever(g) == TRUE

InWindow_Strict(g) == read[g].end > at[g]

InWindow(g) == read[g].end >= at[g]

\* dedup_hit
Hit(g) == read[g] # None /\ InWindow(g) /\ read[g].rep # None

GroupFree(f, g) == groupLock[f] \in {None, g}

\* All handlers but the last.  A new group is inserted, an expired one is updated
\* as soon as the whitelist handler queries: the row is locked until the commit.
Judge(g) ==
  /\ pc[g] = "read"
  /\ \E a \in Alerts :
       LET f == FingerprintOf[a]
       IN  /\ Current(g, a)
           /\ \/ Hit(g) /\ UNCHANGED groupLock
              \/ /\ ~Hit(g)
                 /\ GroupFree(f, g)
                 /\ read[g] = None => group[f] = None
                 /\ groupLock' = [groupLock EXCEPT ![f] = g]
  /\ \E v \in Verdicts(Hit(g), at[g]) : verdict' = [verdict EXCEPT ![g] = v]
  /\ pc' = [pc EXCEPT ![g] = "judged"]
  /\ UNCHANGED <<status, result, group, lock, todo, at, read, clock, faults>>

\* The first group of a fingerprint.
Founded(g, a) ==
  [start |-> at[g], end |-> at[g] + Window, count |-> 1, rep |-> a]

\* Mutant: the count of the last window is kept.
Renewed_KeepsCount(g, a, old) ==
  [start |-> at[g], end |-> at[g] + Window, count |-> old.count, rep |-> a]

\* What an expired group becomes.  An attribute whose value is as read is not in
\* the UPDATE.
Renewed(g, a, old) ==
  [start |-> at[g], end |-> at[g] + Window,
   count |-> IF read[g].count = 1 THEN old.count ELSE 1, rep |-> a]

\* The group as the dedup and persist handlers leave it.
GroupAfter(g, a, old) ==
  CASE Hit(g) -> [old EXCEPT !.count = read[g].count + 1]
    [] read[g] = None -> Founded(g, a)
    [] read[g] # None /\ read[g].end < at[g] -> Renewed(g, a, old)
    [] OTHER -> [old EXCEPT !.rep = a]

\* Mutant: the schema without the unique constraint.
UniqueResult_Dropped(a) == TRUE

\* uq_triage_results_alert_id lets the INSERT through.
UniqueResult(a) == result[a] = None

\* The persist handler and the commit.
Commit(g) ==
  /\ pc[g] = "judged"
  /\ \E a \in Alerts \ Poison :
       LET f == FingerprintOf[a]
       IN  /\ Current(g, a)
           /\ UniqueResult(a)
           /\ GroupFree(f, g)
           /\ result' = [result EXCEPT ![a] = verdict[g]]
           /\ status' = [status EXCEPT ![a] = IF verdict[g].route \in ArchiveRoutes
                                              THEN "archived" ELSE "triaged"]
           /\ group' = [group EXCEPT ![f] = GroupAfter(g, a, @)]
           /\ groupLock' = [groupLock EXCEPT ![f] = None]
           /\ todo' = [todo EXCEPT ![g] = @ \ {a}]
  /\ pc' = [pc EXCEPT ![g] = "fetched"]
  /\ read' = [read EXCEPT ![g] = None]
  /\ verdict' = [verdict EXCEPT ![g] = None]
  /\ UNCHANGED <<lock, at, clock, faults>>

\* The run is over: its transaction is rolled back and its lock released.
Over(g) ==
  /\ pc' = [pc EXCEPT ![g] = "idle"]
  /\ todo' = [todo EXCEPT ![g] = {}]
  /\ read' = [read EXCEPT ![g] = None]
  /\ verdict' = [verdict EXCEPT ![g] = None]
  /\ groupLock' = [f \in Fingerprints |-> IF groupLock[f] = g THEN None ELSE groupLock[f]]
  /\ lock' = IF lock = g THEN None ELSE lock
  /\ UNCHANGED <<status, result, group, at, clock>>

\* A unique constraint is violated: another run has created the group or triaged
\* the alert.  After the rollback the except branch reads the expired alert.id,
\* which raises again: as every exception this one ends the run.
Conflict(g) ==
  /\ \E a \in Alerts :
       /\ Current(g, a)
       /\ GroupFree(FingerprintOf[a], g)
       /\ \/ pc[g] = "read" /\ read[g] = None /\ group[FingerprintOf[a]] # None
          \/ pc[g] = "judged" /\ ~UniqueResult(a)
  /\ Over(g)
  /\ UNCHANGED faults

\* An exception in a handler: always on a poisoned alert, sometimes on others.
Fail(g) ==
  /\ pc[g] \in {"read", "judged"}
  /\ \/ (\E a \in Poison : Current(g, a)) /\ UNCHANGED faults
     \/ faults < MaxFaults /\ faults' = faults + 1
  /\ Over(g)

\* The batch is done.
End(g) ==
  /\ pc[g] = "fetched"
  /\ todo[g] = {}
  /\ Over(g)
  /\ UNCHANGED faults

RunStep(g) ==
  Fetch(g) \/ ReadGroup(g) \/ Judge(g) \/ Commit(g) \/ Conflict(g) \/ Fail(g) \/ End(g)

Tick ==
  /\ clock < MaxTime
  /\ clock' = clock + 1
  /\ UNCHANGED <<status, result, group, groupLock, lock, pc, todo, at, read, verdict,
                 faults>>

\* The process dies; of its runs only the Redis key stays.
Crash ==
  /\ faults < MaxFaults
  /\ faults' = faults + 1
  /\ pc' = [g \in Runs |-> "idle"]
  /\ todo' = [g \in Runs |-> {}]
  /\ read' = [g \in Runs |-> None]
  /\ verdict' = [g \in Runs |-> None]
  /\ groupLock' = [f \in Fingerprints |-> None]
  /\ UNCHANGED <<status, result, group, lock, at, clock>>

\* Mutant: SET without EX.
LockExpires_Never == FALSE

\* The key expires: of a dead run, or of one that takes too long.
LockExpires ==
  /\ lock # None
  /\ MayOverrun \/ pc[lock] = "idle"
  /\ lock' = None
  /\ UNCHANGED <<status, result, group, groupLock, pc, todo, at, read, verdict, clock,
                 faults>>

Next == (\E g \in Runs : RunStep(g)) \/ Tick \/ Crash \/ LockExpires

Spec == Init /\ [][Next]_vars

\* The job is started again and again and proceeds; the health check proceeds
\* once it has started.
Fairness ==
  /\ \A g \in Runs \ Unlocked : WF_vars(RunStep(g))
  /\ \A g \in Unlocked : WF_vars(pc[g] # "idle" /\ RunStep(g))
  /\ WF_vars(LockExpires)

FairSpec == Spec /\ Fairness

-----------------------------------------------------------------------------
(* Properties *)

IsDuplicate(a) == result[a] # None /\ result[a].route = "archive_dedup"

IsFirst(a) == result[a] # None /\ result[a].route # "archive_dedup"

SameFingerprint(a, b) == FingerprintOf[a] = FingerprintOf[b]

\* An alert is archived as a duplicate only if another alert of its fingerprint went
\* through the whole pipeline at most one window earlier: no fingerprint disappears
\* without having been judged, whatever overlaps or dies (dedup.py, persist.py).
DuplicateIsCovered ==
  \A b \in Alerts :
    IsDuplicate(b) =>
      \E a \in Alerts :
        /\ SameFingerprint(a, b) /\ IsFirst(a)
        /\ result[a].seen <= result[b].seen
        /\ result[b].seen <= result[a].seen + Window

\* Under the lock, of two alerts of one fingerprint within one window only one is
\* judged and queued: the other is its duplicate (dedup.py).
OneRepresentative ==
  \A a, b \in Alerts :
    a # b /\ SameFingerprint(a, b) /\ IsFirst(a) /\ IsFirst(b)
      => result[a].seen > result[b].seen + Window \/ result[b].seen > result[a].seen + Window

\* Under the lock, a group counts exactly the alerts triaged since its window
\* started, across rollbacks and crashes (occurrence_count in dedup.py).
OccurrenceExact ==
  \A f \in Fingerprints :
    group[f] # None =>
      group[f].count = Cardinality({a \in Alerts : /\ FingerprintOf[a] = f
                                                   /\ result[a] # None
                                                   /\ result[a].seen >= group[f].start})

\* An alert the LLM did not touch goes where predict_route_decision said it would,
\* or is drawn for audit instead of archived (llm_assist.py and router.py hold two
\* copies of the thresholds).
RouteAsPredicted ==
  \A a \in Alerts :
    result[a] # None /\ result[a].rule # None /\ result[a].llm = None
      => \/ result[a].route = Predict(result[a].rule)
         \/ result[a].route = "sample_audit" /\ Predict(result[a].rule) = "archive_low_risk"

\* An alert is triaged once: no run, however stale its batch, changes the result or
\* the status another one has committed (triage_service.py, models/triage.py).
TriagedOnce ==
  [][\A a \in Alerts : result[a] # None => UNCHANGED <<result[a], status[a]>>]_vars

\* Every alert older than all alerts whose triage raises leaves NEW, in spite of
\* conflicts, crashes and abandoned locks.  (A younger one may wait for ever.)
HealthyAlertsLeaveNew ==
  \A a \in Alerts : (\A p \in Poison : a < p) => <>(status[a] # "new")

=============================================================================
