----------------------------- MODULE Governance ------------------------------
(***************************************************************************)
(* What becomes of the suggestions an investigation leaves: the asset      *)
(* pipeline turns them into whitelist candidates and profile suggestions   *)
(* next to the dispositions and simulations of the agent; operators        *)
(* decide them through the API; a promoted whitelist rule makes triage     *)
(* archive alerts unseen; archived alerts are sampled for audit.           *)
(*                                                                         *)
(* Every API request reads its row, decides on the copy and commits.  Only *)
(* the pipeline holds a lock.                                              *)
(***************************************************************************)
EXTENDS Integers, FiniteSets

CONSTANTS
  Investigations,   \* with a settleable conclusion
  Suggests,         \* proposals in their suggested_assets, dispositions, simulations
  Blank,            \* profile updates without content
  PatternOf,        \* the pattern of the whitelist candidate
  Settlers,         \* runs of the pipeline
  Requests,         \* API requests, each made once
  Alerts,           \* archived with route sample_audit
  Threshold,        \* whitelist_promotion_threshold
  TTL,              \* whitelist_rule_ttl_days
  MaxTime, MaxFaults,      \* bounds
  None

Kinds == {"whitelist", "profile", "disposition", "simulation"}
Proposals == Kinds \X Investigations
Patterns == {PatternOf[i] : i \in Investigations}

ASSUME GovernanceAssumption ==
  /\ Suggests \subseteq Proposals
  /\ Blank \subseteq {"profile"} \X Investigations
  /\ PatternOf \in [Investigations -> Patterns]
  /\ Settlers \cap Requests = {}
  /\ IsFiniteSet(Requests)
  /\ Threshold \in Nat \ {0} /\ TTL \in Nat
  /\ MaxTime \in Nat /\ MaxFaults \in Nat
  /\ None \notin Settlers \cup Proposals

VARIABLES
  cases,          \* investigations with a judgment case
  status,         \* of the row of each proposal: absent, pending, accepted, rejected
  confirmations,  \* human_confirmations of the candidates
  effects,        \* whitelist_rules and entity_profile_memories: of which proposal,
                  \* by which request, since when
  samples,        \* audit_samples: rows per alert
  archived,       \* alerts archived by a whitelist rule: pattern and time
  settler,        \* what each run of the pipeline is doing
  lock,           \* Redis: defense_assets:lock:pipeline
  req,            \* what each request is doing
  clock, faults,
  granted,        \* history: decisions that were answered with success
  contended,      \* history: proposals and alerts two requests had open at a time
  lost            \* history: investigations whose settlement raised

vars == <<cases, status, confirmations, effects, samples, archived, settler, lock, req,
          clock, faults, granted, contended, lost>>

pipelineVars == <<cases, settler, lock, lost, faults>>
history == <<granted, contended>>

-----------------------------------------------------------------------------
(* The pipeline: AssetPipeline.run *)

Idle == [pc |-> "idle", todo |-> {}, added |-> {}, cases |-> {}]
Unused == [pc |-> "new", of |-> None, decision |-> None, status |-> None, count |-> 0,
           alerts |-> {}]

\* Dispositions and simulations come with the investigation.
Init ==
  /\ cases = {}
  /\ status = [p \in Proposals |->
                 IF p \in Suggests /\ p[1] \in {"disposition", "simulation"}
                 THEN "pending" ELSE "absent"]
  /\ confirmations = [i \in Investigations |-> 0]
  /\ effects = {} /\ archived = {}
  /\ samples = [a \in Alerts |-> 0]
  /\ settler = [w \in Settlers |-> Idle]
  /\ lock = None
  /\ req = [r \in Requests |-> Unused]
  /\ clock = 0 /\ faults = 0
  /\ granted = {} /\ contended = {} /\ lost = {}

Fault == faults < MaxFaults /\ faults' = faults + 1

\* The concluded events at this time, up to the batch size.
Pick(w) ==
  /\ settler[w].pc = "idle" /\ lock = None
  /\ lock' = w
  /\ \E picked \in (SUBSET (Investigations \ cases)) \ {{}} :
       settler' = [settler EXCEPT ![w] = [Idle EXCEPT !.pc = "settling", !.todo = picked]]
  /\ UNCHANGED <<cases, lost, faults, status, confirmations, effects, samples, archived,
                 req, clock, history>>

\* Mutant: the session does not flush before it queries.
PendingFor_Committed(w, i) ==
  \E j \in Investigations :
    PatternOf[j] = PatternOf[i] /\ status[<<"whitelist", j>>] = "pending"

\* A candidate with the pattern is waiting, in the table or in this transaction.
PendingFor(w, i) ==
  \E j \in Investigations :
    /\ PatternOf[j] = PatternOf[i]
    /\ status[<<"whitelist", j>>] = "pending" \/ <<"whitelist", j>> \in settler[w].added

\* The rows _settle_one adds after the case, in this order.  No conclusion holds a rule
\* candidate: SuggestedAssets has no such field.
Built(w, i) ==
  {<<"whitelist", i>> : x \in IF PendingFor(w, i) THEN {} ELSE {1}}
    \cup {<<"profile", i>>}

Settle(w) ==
  /\ settler[w].pc = "settling"
  /\ \E i \in settler[w].todo :
       settler' = [settler EXCEPT ![w].todo = @ \ {i},
                                  ![w].cases = @ \cup {i},
                                  ![w].added = @ \cup (Built(w, i) \cap Suggests)]
  /\ UNCHANGED <<cases, lock, lost, faults, status, confirmations, effects, samples,
                 archived, req, clock, history>>

\* A builder raises: run logs it and goes on, the case and what was built before it stay
\* in the transaction.
SettleFails(w) ==
  /\ settler[w].pc = "settling"
  /\ Fault
  /\ \E i \in settler[w].todo :
       /\ lost' = lost \cup {i}
       /\ \E built \in {{}, Built(w, i) \cap {<<"whitelist", i>>}, Built(w, i)} :
            settler' = [settler EXCEPT ![w].todo = @ \ {i},
                                       ![w].cases = @ \cup {i},
                                       ![w].added = @ \cup (built \cap Suggests)]
  /\ UNCHANGED <<cases, lock, status, confirmations, effects, samples, archived, req,
                 clock, history>>

Commit(w) ==
  /\ settler[w].pc = "settling" /\ settler[w].todo = {}
  /\ cases' = cases \cup settler[w].cases
  /\ status' = [p \in Proposals |->
                  IF p \in settler[w].added THEN "pending" ELSE status[p]]
  /\ settler' = [settler EXCEPT ![w] = Idle]
  /\ lock' = None
  /\ UNCHANGED <<lost, faults, confirmations, effects, samples, archived, req, clock,
                 history>>

\* The transaction fails or the process dies: the rows are gone, the key goes with the
\* finally or after its 600 seconds, which no run outlives.
Abort(w) ==
  /\ settler[w].pc = "settling"
  /\ Fault
  /\ settler' = [settler EXCEPT ![w] = Idle]
  /\ lock' = None
  /\ lost' = lost \ settler[w].cases
  /\ UNCHANGED <<cases, status, confirmations, effects, samples, archived, req, clock,
                 history>>

-----------------------------------------------------------------------------
(* Decisions: routes/defense_assets *)

Decisions(kind) == IF kind = "whitelist" THEN {"confirm", "reject"} ELSE {"accept", "reject"}

\* The rows a request has read, as pairs.
Copies(rows, alerts) == rows \cup ({"alert"} \X alerts)

OpenBy(q) == IF req[q].pc = "read" THEN Copies({req[q].of}, req[q].alerts) ELSE {}

Opens(r, rows) ==
  contended' = contended \cup (rows \cap UNION {OpenBy(q) : q \in Requests \ {r}})

\* session.get: the row as it is now.
Read(r) ==
  /\ req[r].pc = "new"
  /\ \E p \in Suggests :
       /\ status[p] # "absent"
       /\ \E d \in Decisions(p[1]) :
            req' = [req EXCEPT ![r] = [Unused EXCEPT
                      !.pc = "read", !.of = p, !.decision = d, !.status = status[p],
                      !.count = confirmations[p[2]]]]
       /\ Opens(r, {p})
  /\ UNCHANGED <<pipelineVars, status, confirmations, effects, samples, archived, clock,
                 granted>>

\* Mutant: the status is not looked at.
Decidable_Always(r) == TRUE

\* Everything is decided once, and an update without content is not applied.
Decidable(r) ==
  /\ req[r].status = "pending"
  /\ req[r].decision = "accept" => req[r].of \notin Blank

\* Mutant: off by one.
Promotes_Early(r) == req[r].decision = "confirm" /\ req[r].count + 2 >= Threshold

Promotes(r) == req[r].decision = "confirm" /\ req[r].count + 1 >= Threshold

\* What the request has decided: a confirmation below the threshold leaves it open.
Outcome(r) == IF Promotes(r) THEN "accept" ELSE req[r].decision

Answered(r) == req' = [req EXCEPT ![r].pc = "done"]

Decide(r) ==
  LET p == req[r].of
  IN  /\ req[r].pc = "read" /\ p # None
      /\ Decidable(r)
      /\ confirmations' = IF req[r].decision = "confirm"
                          THEN [confirmations EXCEPT ![p[2]] = req[r].count + 1]
                          ELSE confirmations
      /\ status' = CASE Outcome(r) = "accept" -> [status EXCEPT ![p] = "accepted"]
                     [] Outcome(r) = "reject" -> [status EXCEPT ![p] = "rejected"]
                     [] OTHER -> status
      /\ effects' = IF Outcome(r) = "accept" /\ p[1] \in {"whitelist", "profile"}
                    THEN effects \cup {[of |-> p, by |-> r, since |-> clock]} ELSE effects
      /\ granted' = granted \cup {[of |-> p, decision |-> Outcome(r), by |-> r]}
      /\ Answered(r)
      /\ UNCHANGED <<pipelineVars, samples, archived, clock, contended>>

\* 404, or for a confirmation {"promoted": false}.
Refuse(r) ==
  /\ req[r].pc = "read" /\ req[r].of # None
  /\ ~Decidable(r)
  /\ Answered(r)
  /\ UNCHANGED <<pipelineVars, status, confirmations, effects, samples, archived, clock,
                 history>>

-----------------------------------------------------------------------------
(* Audit samples: AuditSampleService *)

Unsampled == {a \in Alerts : samples[a] = 0}

SampleRead(r) ==
  /\ req[r].pc = "new"
  /\ Unsampled # {}
  /\ req' = [req EXCEPT ![r] = [Unused EXCEPT !.pc = "read", !.alerts = Unsampled]]
  /\ Opens(r, Copies({}, Unsampled))
  /\ UNCHANGED <<pipelineVars, status, confirmations, effects, samples, archived, clock,
                 granted>>

SampleCommit(r) ==
  /\ req[r].pc = "read" /\ req[r].alerts # {}
  /\ samples' = [a \in Alerts |-> samples[a] + IF a \in req[r].alerts THEN 1 ELSE 0]
  /\ Answered(r)
  /\ UNCHANGED <<pipelineVars, status, confirmations, effects, archived, clock, history>>

-----------------------------------------------------------------------------
(* Triage *)

\* WhitelistHandler: ACTIVE and within its dates.
Effective(rule) == rule.since <= clock /\ clock <= rule.since + TTL

Archive ==
  /\ \E rule \in effects :
       /\ rule.of[1] = "whitelist" /\ Effective(rule)
       /\ archived' = archived \cup {[pattern |-> PatternOf[rule.of[2]], at |-> clock]}
  /\ UNCHANGED <<pipelineVars, status, confirmations, effects, samples, req, clock,
                 history>>

Tick ==
  /\ clock < MaxTime
  /\ clock' = clock + 1
  /\ UNCHANGED <<pipelineVars, status, confirmations, effects, samples, archived, req,
                 history>>

Next ==
  \/ \E w \in Settlers : Pick(w) \/ Settle(w) \/ SettleFails(w) \/ Commit(w) \/ Abort(w)
  \/ \E r \in Requests :
       Read(r) \/ Decide(r) \/ Refuse(r) \/ SampleRead(r) \/ SampleCommit(r)
  \/ Archive \/ Tick

Spec == Init /\ [][Next]_vars

-----------------------------------------------------------------------------
(* Properties *)

Confirmers(i) ==
  {g.by : g \in {x \in granted : x.of = <<"whitelist", i>> /\ x.decision # "reject"}}

Made(p) == {e \in effects : e.of = p}

Final(p) == {g \in granted : g.of = p /\ g.decision # "confirm"}

\* An alert is archived unseen only with a promotion less than the time to live old
\* behind it and, however the requests overlap, at least Threshold confirmations of a
\* candidate with its pattern (confirm_candidate, WhitelistHandler).
ArchiveIsEarned ==
  \A a \in archived : \E i \in cases :
    /\ PatternOf[i] = a.pattern
    /\ Cardinality(Confirmers(i)) >= Threshold
    /\ \E e \in Made(<<"whitelist", i>>) : e.since <= a.at /\ a.at <= e.since + TTL

\* Unless two requests had the row open at once: one decision is answered with success,
\* the row keeps it, it has its effect exactly once, no confirmation is lost, and an
\* alert is sampled once (the promoter, the applier, AuditSampleService.run).
FirstDecisionStands ==
  /\ \A p \in Proposals \ contended :
       /\ Cardinality(Final(p)) <= 1
       /\ status[p] \in {"absent", "pending"} <=> Final(p) = {}
       /\ \A g \in Final(p) :
            status[p] = IF g.decision = "accept" THEN "accepted" ELSE "rejected"
       /\ p[1] \in {"whitelist", "profile"} =>
            {e.by : e \in Made(p)} = {g.by : g \in {x \in Final(p) : x.decision = "accept"}}
       /\ p[1] = "whitelist" => confirmations[p[2]] = Cardinality(Confirmers(p[2]))
  /\ \A a \in Alerts : <<"alert", a>> \notin contended => samples[a] <= 1

OnePending ==
  \A i, j \in Investigations :
    /\ PatternOf[i] = PatternOf[j]
    /\ status[<<"whitelist", i>>] = "pending" /\ status[<<"whitelist", j>>] = "pending"
    => i = j

\* A settled investigation whose builders did not raise has its suggestions, and its
\* pattern has a candidate; at most one with the same pattern is pending, since the
\* query for it would raise on two and take the suggestions of every later
\* investigation with it (create_whitelist_candidate_if_applicable).
SuggestionsKept ==
  /\ OnePending
  /\ \A i \in cases \ lost :
       /\ \A p \in Suggests : p[2] = i /\ p[1] # "whitelist" => status[p] # "absent"
       /\ <<"whitelist", i>> \in Suggests =>
            \E j \in Investigations :
              PatternOf[j] = PatternOf[i] /\ status[<<"whitelist", j>>] # "absent"
=============================================================================
