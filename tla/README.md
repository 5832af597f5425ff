# MA-MinSight: TLA+ models and proofs

MA-MinSight pulls security alerts from a SIEM, triages them, folds what is left into
*events*, lets an LLM agent investigate each event, asks a human where the agent
cannot decide, and settles decided events into reusable judgment cases and
suggestions, some of which make triage archive later alerts unseen. The backend is
one asyncio process with a PostgreSQL database and Redis; every stage is a job the
scheduler starts again and again and an API call an operator may make at the same
time.

What makes it hard is not any one stage but the rows the stages share. They read
a row, await something (an LLM, an IM gateway, Redis, a row lock) and write what
they decided before the wait; they commit per alert, per page, per event or per
batch; what keeps two runs of a job apart is a Redis key with a TTL. This directory
models that, checks it with TLC and proves with TLAPS what should hold for every
number of alerts, events, requests and runs.

All paths below are relative to `src/app/` unless they start with `docs/`.

## The system

| Component | State | Operations | Talks to |
|---|---|---|---|
| Ingestion (`ingestion/`) | cursor, counters and lookback of each source, `alerts` (NEW), audit log | scheduled and manual pulls, page by page: pull, map, insert what is new, advance the cursor, commit | SIEM over HTTP with retries; lock per source |
| Ingestion diagnostics (`services/ingestion_diagnostics.py`) | | diagnose a source; `extend_lookback`, with or without a cursor reset | indexer, source rows |
| Triage (`triage/`) | `alerts.status`, `triage_results`, dedup groups | per alert: dedup, whitelist, profile hint, rules, LLM assist, router, persist, commit | Redis lock, LLM |
| Aggregation (`aggregation/`) | `events`, `event_alerts` | per alert: find the newest PENDING_REVIEW event of its key or create one, link, add up, commit | Redis lock; the agent's row locks |
| Investigation (`agent/orchestrator.py`) | `events.status`, `investigations`, conclusions, daily counter and skip markers in Redis | pick a batch in the budget; per event: lock the row, run the loop, audit, conclude, cancel obsolete requests, charge Redis, commit | agent loop, human review |
| Agent loop (`agent/loop.py`) | messages, tool-call rows, step and retry counters | chat, run skills, check `submit_conclusion`, give up | LLM, skills |
| Evidence (`skills/query_asset.py`, `skills/query_threat_intel.py`, `threat_intel/`) | asset answers in Redis, threat intelligence rows with an expiry | look up through the cache; sync providers; query | Redis, providers |
| Entity relations (`entity_seed/`, `entity/graph.py`) | `entity_relations` | import and seed files; walk the graph | agent's skills |
| Human review (`human_review/`) | `human_review_requests`, `..._responses`, skip markers, audit samples | dispatcher: expire, sweep, pick, send, commit; API: reply, cancel; sample archived alerts | IM gateway, event and investigation status |
| Defense assets (`defense_assets/`) | `judgment_cases`, dispositions, simulations, whitelist, profile and rule candidates, whitelist rules | settle CONCLUDED events in one transaction per run, close them, build candidates; decide on each of them through the API | Redis lock; triage reads the promoted rules |
| Job locks (`*/lock.py`) | one Redis key per job | SET NX EX, GET / compare / DEL | every job |
| Health check (`eval/health_check/`, `eval/probe/`) | probe alerts, runs | push a probe alert through the stages *without* their locks | triage, aggregation, orchestrator |
| Regression evaluation (`eval/regression/`, `eval/evaluators/`) | cases, reports; two names of the process | run the agent loop over stored cases with a mock or the real LLM, compare, report | agent loop, and through the names every real investigation |
| License (`license/manager.py`) | the license, its backup, start and end of the trial: four files | `status` (writes some of them), `import_file`, startup | schedulers, professional routes |
| Scheduler and life cycle (`scheduler/`, `main.py`) | APScheduler jobs | start each job every few minutes, one instance at a time; start and stop | all services |
| Around the core | | geoip, playbooks, retrieval, console queries, statistics, web console | |

`PROJECT.json` lists every component with its status, and the hazards with the
line where each bites.

### Where it is hard

* **A lock that expires.** The dispatcher holds a 300 s key and commits once, at
  the end; the agent and the pulls hold 600 s keys and talk to an LLM or a SIEM. No
  code bounds a run.
* **Row locks and stale reads.** The agent flushes `INVESTIGATING` when it next
  queries and keeps that row locked, uncommitted, until the LLM is done. Others
  read the old status, and their UPDATEs wait and then land. A pull reads the row
  of its source before it takes the lock and writes the cursor from that copy.
* **Questions asked in two steps.** A dispatcher and a settlement ask of every event
  first whether it is a probe and then for its investigation; a dispatcher has picked
  its events before either.
* **Late answers.** Replies, cancellations, decisions on candidates and cursor
  resets take no lock. They check a status, wait, and write.
* **Effects outside the transaction.** IM messages, the budget counter and the
  skip marker are written before a commit that may never happen.
* **Failures that stay in the transaction.** The asset pipeline catches an
  exception without a rollback, the agent loop catches an SQL error of a skill
  without one, and the aggregation's except branch raises again.
* **Code that skips the locks.** The health check, and a pull with `--no-lock`.
* **Names replaced at run time.** A regression puts stand-ins for a function and a
  method into the process that investigates real events at the same time.
* **Files as a database.** The license is replaced by a handful of file operations,
  between any two of which the process may die, or a request in another thread may
  look at the files and write some of them.

## The modules

| Module | Models | Lines it follows |
|---|---|---|
| `EventStore` | the shared columns and keys, which events are probes, queries several services use, the lock operations, row locks and rollback | `models/`, `db/session.py`, `human_review/lock.py`, `stale.py`, `eval/probe/guard.py` |
| `Aggregation` | `AggregationService.run` | `aggregation/services/aggregation_service.py` |
| `Investigation` | `InvestigationOrchestrator.run` and the budget | `agent/orchestrator.py`, `agent/budget.py` |
| `HumanReview` | `HumanReviewService.run`, `handle_reply`, `cancel_request` | `human_review/service.py`, `stale.py`, `reinvestigation.py` |
| `DefenseAssets` | `AssetPipeline.run`, disposition decisions | `defense_assets/pipeline.py`, `disposition/service.py` |
| `EventPipeline` | all of them on one store, lock TTLs, midnight, crash; fairness and the properties | `scheduler/*_jobs.py`, `main.py` |
| `EventLife` | what the pipeline promises of the life of an event; `EventPipeline` refines it | |
| `HealthCheck` | `EventPipeline` with health checks as workers of its services | `eval/health_check/runner.py`, `stage_runner.py`, `eval/probe/` |
| `Inquiry` | what the orchestrator relies on when it calls the agent | |
| `AgentLoop` | `AgentLoop.run`, the closure evaluator, the registry's retries, the supervisor; refines `Inquiry` | `agent/loop.py`, `closure_evaluator.py`, `supervisor.py`, `skills/registry.py` |
| `Governance` | what a settlement suggests, the decisions on it, promotion, audit samples | `defense_assets/`, `api/routes/defense_assets.py`, `human_review/audit_sampler.py`, `triage/handlers/whitelist.py` |
| `Triage` | `TriageService.run` and its pipeline, one run step by step | `triage/services/triage_service.py`, `triage/handlers/*.py`, `triage/lock.py` |
| `Ingestion` | `IngestService`, the indexer's query, the lookback reset, the diagnosis | `ingestion/`, `services/ingestion_diagnostics.py` |
| `Mutex` | what a job lock promises | |
| `RedisLock` | a job lock step by step under a clock, refining `Mutex` | `*/lock.py` |
| `Regression` | regression runs beside real investigations | `eval/regression/runner.py`, `eval/lock.py` |
| `License` | status, import and startup | `license/manager.py`, `main.py`, `api/deps.py` |
| `EntityGraph` | relation imports and the walk | `entity_seed/`, `entity/graph.py` |
| `Evidence` | asset cache and threat intelligence | `skills/query_asset.py`, `skills/query_threat_intel.py`, `threat_intel/` |
| `...Types`, `...Proofs` (eight) | theorems | |
| `MC...` (seven) | constants and symmetry for TLC; `MCPlatform` puts `License`, `EntityGraph`, `Evidence`, `Regression` and `RedisLock` into one run | |

Each module declares the state of its own runs (`aggPc`, `agentTodo`, `dispExpire`,
`run`, `req`, ...), its `Init`, one action per step between two awaits that matter,
and the death of the process. `EventPipeline` extends the five services that share
the event store and lets their steps interleave; `HealthCheck` extends that.

### The event store

A variable of `EventStore` is the *committed* value of a column. What a
transaction has read or not yet committed is in the variables of its service
(`agentVerdict`, `dispCancel`, `opEvStatus`, `assetClose`). `rowLock` and
`reqLock` name the transaction whose UPDATE of a row is flushed but not
committed; another UPDATE of that row waits (`EventRowFree`, `RequestRowFree`)
and then overwrites, as READ COMMITTED does for an ORM that writes by primary
key. `INVESTIGATING` is therefore never in `evStatus`: no transaction commits it.

| Action | Code |
|---|---|
| `AggFetch`, `AggFind`, `AggCommit`, `AggConflict`, `AggEnd` | `_fetch_pending`; the SELECT of `_find_merge_target`; the rest of `_aggregate_one` with the commit; the unique violation and what the except branch does; the end of `run` |
| `AgentPick`, `AgentBegin`, `AgentConclude`, `AgentCharge`, `AgentCommit`, `AgentFail`, `AgentEnd` | `_pick_events`; `_investigate_event` up to the loop; the verdict and the SELECT of the requests to cancel; the flush of the cancellations before `event_is_probe` and the charge to Redis; the commit; rollback; the end of `run` |
| `DispExpire`, `DispSweep`, `DispPick`, `DispTest`, `DispLook`, `DispSend`, `DispSendFails`, `DispCommit`, `DispFail` | the dispatcher's `run`, whose own transaction is flushed between its queries: expire, sweep, the SELECT of the candidates, then of each of them `event_is_probe` and `_latest_human_investigation`; one action per message; the commit |
| `ReplyRead`, `ReplyFlush`, `ReplyUpdate`, `ReplyCommit` | `handle_reply`: the status check; the flush of response and request, the event and the Redis marker; the flush of the event's status and the investigation; the commit |
| `CancelRead`, `CancelCommit`, `OpFail` | `cancel_request`; an exception in either request, or the deadlock PostgreSQL breaks |
| `AssetFetch`, `AssetTest`, `AssetLook`, `AssetSettle`, `AssetSettleFails`, `AssetCommit`, `DecideDisposition` | `_pick_targets`: the SELECT of the concluded events, then of each `event_is_probe` and the query for its investigation; `_settle_one`; an exception in it; the commit; `confirm` and `reject` |
| `CheckStarts`, `CheckAggregates`, `CheckFindsEvent`, `CheckInvestigates`, `CheckStops` | inject and triage; `run(use_lock=False)`; the probe's event; `_investigate_event` with the mock LLM; the end of the scenario |
| `LockExpires`, `MarkerTtl`, `Midnight`, `Crash` | the TTLs of Redis, the daily key, the death of the process |

A request in flight is a `"draft"`; when its transaction rolls back the message
is an `"orphan"`. Both exist so that the properties can talk about messages that
left although no row says so.

Abstractions, and why they are safe for what is checked:

* Events, investigations, alerts and requests are numbers in the order of
  `created_at`, `started_at`, `occurred_at` and sending. Agent runs do not
  overlap while the lock holds, so `finished_at` has the order of `started_at`.
* The order of a batch (`queue_priority`, `risk_score`) is a free choice. The
  batch limit of the agent is kept because the budget depends on it, and the
  settlement's because probes are filtered after it (`FetchLimit`); those of the
  dispatcher and the aggregation are dropped (a batch is all there is).
* Which `SENT` rows have timed out is a free choice of the dispatcher.
* The commit of a run and the release of its lock are one step; a dead process
  releases nothing. An asset run takes the event's row at its commit only.
* `DispSweep` is one step for the SELECT of the open requests and the one of the
  latest investigation it makes of each; `AssetLook` for an event's investigation, its
  case and its dispositions. The events of a batch are looked at in any order.
* A reply and the agent may wait for each other (`service.py:178` and `stale.py:43`).
  Nothing in the model breaks that wait but a fault of one of them, as PostgreSQL
  aborts one; where the run's faults are used up both stay.
* The agent begins an investigation only while an id is left for it. `Recommends` bounds
  the verdicts that may come with a recommended action, and so with a disposition: a
  settleable one in `live` and `settle`, none in the other runs.
* The verdicts of the mock LLM (a setting; one that can be settled and one that asks for
  a human in `settle`) differ from what the real agent finds, which marks the
  investigations of a check; nothing else depends on it.
* Faults are counted: `MaxFaults` bounds exceptions and deaths together.

### The agent loop and what stands for it

`Investigation` sees the LLM, the skills, the closure check and the supervisor as
one step with a free verdict. `Inquiry` says what that step may rely on: skills are
tried, then there is *one* outcome, which settles the event only if every required
skill has been tried, or hands it to a human, or leaves nothing. `AgentLoop` is the
code: one answer of the LLM per `Chat` (any tools in any order, malformed
conclusions, unknown tools; `Chatter` for a text, `ChatFails` for an exception), one
tool call after the other (`CallSkill`, `Succeeds`, `SkillFails`; `Invalid`, `Accept`,
`Reject` for a conclusion), the limits, and `Conclude` or `RollBack` after the loop.
`KeepsContract` checks, and `LoopKeepsContract` proves, that it implements `Inquiry`.

An SQL error in a skill aborts the transaction and nobody rolls it back (`aborted`):
skills that need the database fail from then on, and so does the final commit. The
closure score is compared exactly, as a fraction, where the code adds floats. Whether
the reasoning cites what the tools returned is a free choice; prompts and texts are
left out, so is the limit of 20 alerts in a prompt.

### Job locks, triage, ingestion

`RedisLock` opens the lock operations up: SET NX EX, GET and compare, DEL are
separate steps, time passes between them and the key expires. `EventPipeline`
keeps them atomic and says with `Reliable` for which services the TTL outlasts
every run, which is `MaxRun < Ttl` there and what `LockRefinesMutex` is proved
under.

`Triage` stands beside `EventPipeline`, which only sees its last step (an alert
arrives, TRIAGED). `Fetch` is the lock and `_fetch_new_alerts`, `ReadGroup` the
SELECT of the dedup handler with the clock it read, `Judge` the rest of the
pipeline up to the persist handler with the group row it flushes and so locks,
`Commit` the persist handler and the commit, `Conflict` a unique violation, `Fail`
any other exception, `End` the end of the batch. Whitelist patterns, profiles and
weights are abstracted to the score they give; the discount, both copies of the
thresholds and the LLM's share are computed. The LLM's cache and call limit are a
free choice between an answer and none, the frequency counter is left out, and
`seen` in a result is the time its dedup handler read (`last_seen_at` of the
group). The handler's clock and its SELECT are one step.

`Ingestion` numbers documents in the order of the indexer's sort values; each has a
timestamp and reaches the indexer when it likes. `Start` reads the source rows,
`Enter` takes the lock of a source, `Pull` is a page of the indexer with
`search_after`, `Store` everything from the mapping to the commit and the refresh,
`PullFails` and `StoreFails` what the callers make of an exception, `Dies` the death
of the process, `ResetRead` and `ResetCommit` the two ends of `extend_lookback`.
`row` is the session's copy of the source row, which the cursor is computed from.
`unmappable` and `refused` documents are chosen once at the beginning. The diagnosis
is the branch an answering indexer leads to. Fields of an alert and the mock adapter
are left out.

### Governance, regression, license, graph and evidence

`Governance` follows the suggestions. `Pick`, `Settle`, `SettleFails`, `Commit`,
`Abort` are a settlement with the candidates its builders add, in their order; every
API request is a `Read` and a `Decide` or `Refuse`. Which rows two requests had open
at once is recorded in `contended`, what was answered with success in `granted`; both
are history variables. The random draw of the audit sample takes all that is
unsampled. `submit_review`, a single unconditional write, is left out; so is what an
applied profile contains, except that one without content has no effect (`Blank`). The
builder of rule candidates has nothing to build from (see below), so there are none.

`Regression` keeps of the process the two names a regression replaces. With the mock
LLM nothing in a case suspends (the session is a mock too), so a case is one action,
`JudgeMocked`, in which `PutBack` is what the `finally` does to the name. With the real
LLM a case is `Ask`, what others do meanwhile, and `Answered`. A real investigation
meets whatever `SkillRegistry.execute` is when it calls a skill. The verdicts, their
comparison and the report are left out; what `--no-lock` runs is another process, whose
names nobody else meets.

`License` keeps the four files by what is in them: a license, nothing, or a torn
rest. Cryptography and the fingerprint of the machine are the set `Genuine`. A call of
`status` is one action per file operation (`IsFile`, `Verify`, `ReadStart`,
`CreateStart`, `WriteStart`, ...), as is an import (`ImportBegins`, `ImportOpens`,
`ImportWrites`, ...). `require_pro_license` is a sync dependency, which runs in a
thread, so calls of `status` run beside each other and beside the import; the import's
route awaits nothing, so two of those do not overlap. `Dies` may come between any two.
Hours pass between operations only. `jobs` says whether this process has started the
professional schedulers: once started they run on when the trial is over, which the
code allows and no property denies.

`EntityGraph` has imports line by line in their transactions and a walk of the graph
with one query per entity, the rows in any order. A row is identified by its edge and
the import that inserted it, because nothing keeps two imports from storing one edge
twice. Of a relation it keeps the ends and whether it is valid. Profile upserts, the
filter on relation types and the edges and texts of the answer are left out.

`Evidence` follows one asset and one indicator and keeps of every answer only the
time it was read. Redis may fail at any read or write. The merge of the providers'
verdicts is left out.

## What is checked

| Run | Instance | What it shows |
|---|---|---|
| `review` | 1 alert, 1 event, 2 investigations, agent with a budget of one, 1 dispatcher, 2 API callers, 1 settler, 3 requests, one re-send, 1 fault | at most one open request per event, and no more than the re-sends allow; event and latest investigation agree; a recorded reply takes effect even if the row's status is overwritten; no day costs more than the budget; every event lives the life `EventLife` describes |
| `live` | 1 alert, 1 event, 2 investigations, 2 requests, budget of one, 1 fault, `FairSpec` | every stage passes its event on |
| `settle` | 2 alerts of one key, the second a probe; 2 events, 2 investigations; a health check beside aggregator, agent, dispatcher and settlement, 1 request, disposition confirmation on, 1 fault | a closed event has its case, an investigation at most one, nothing undecided is closed, counts are never too high, and what the mock LLM says is neither settled nor asked about |
| `locked` | 3 alerts of one fingerprint, the job and an API call, window 1 of time 2, scores on both sides of the threshold, LLM on, 1 fault | one judged alert per window, exact counts |
| `overlap` | 4 alerts, the youngest always raises; the job without a bound on its run and the unlocked health check, 1 fault | no alert is triaged twice, no fingerprint disappears, the older alerts are triaged |
| `ingest` | 1 source, 2 documents, one of which may be unmappable or refused; a job, a manual pull and an operator, pages of 1, 2 pages a run, 1 fault, 1 reset, keys that expire under a running pull, `FairSpec` | the cursor passes over nothing it could have read; the counters fit what is stored; the diagnosis advises what helps; alerts are stored in the end |
| `agent` | 3 skills (one unregistered, one answered from the cache, one that drafts simulations), 3 steps, 2 skill calls, 2 tool calls in an answer, 1 retry, 1 closure retry, `FairSpec` | every tool call has its answer, the limits hold together, `Inquiry` is implemented, and the loop ends |
| `govern` | 2 investigations with one pattern, one of them with an empty profile update; 1 settlement, 4 requests, 1 alert, threshold 2, a rule that ends the next day, 1 fault | what a rule archives was confirmed often enough; decisions stand; suggestions are not lost |
| `platform` | 2 genuine licenses, one of which expires, the call at startup and 2 requests at once, an import, grace 2 of 2 hours; 4 entities, 4 edges, 4 files (an edge twice, a refused line, a seed), 2 imports, walks of 2 hops and 4 nodes; 2 readers, 2 syncs, TTLs of 2 in 4; 2 regressions of up to 2 cases, 1 real investigation; a lock without a token (the evaluation's), 3 runs, TTL 4, runs up to 3 | trial and license survive crashes, imports and the requests beside them; imports are whole and a walk is the neighbourhood; no answer is older than its cache allows; the names a regression replaces come back before anyone else needs them; the lock refines `Mutex` |
| `reply`, `reopen`, `crowd` | see below | the code against three sentences of the docs |

**The bounds.** No run has every hazard: each has the actors its properties are about,
and the others at rest, so that all of them finish in minutes. A request's life needs a
dispatcher and two API callers for the races and three requests to send one too many
past a re-send, but of the alerts only the one that makes the event, and a second
investigation for what a reply leads to; a budget of one is passed by the second: these
are in `review`, with one fault at any point. That a count equals its links needs an
unbounded number of alerts to say much and is proved (`CountIsExact`). A probe must meet
a real alert of its key and a second event to be crowded out by; in `settle` nobody
replies, since the commit of a settlement beside replies is in `review`. One worker of
each locked job stands for all its runs, which never overlap under the lock. Triage needs
three alerts (one to start a window, a duplicate, one after the window's end) and a
clock that passes one window. A pull needs two documents and a page of one to have a
page behind it, and a job and a manual pull for the stale copy. The loop needs two
calls in one answer and more steps than skill calls to meet each limit first. Two
confirmations of a threshold of two, a rejection and one more request are what the
decisions race with; a disposition and a simulation are decided by the same steps as the
two kinds the run has (whitelist, profile), and the proofs cover all four. A trial of two
hours needs the hours before, in and after its last; two requests beside the call at
startup and an import are what can meet over the license files. Each mutant in `PROJECT.json` (a dropped guard, a missing TTL, a
wrong order) is found in the same instance, so the instances reach the cases their
properties are about.

`MCPlatform` explores five components in one run, `Evidence` in two halves (the asset
cache, the indicators). They share no variable, so one is explored with the others at
rest: an interleaving would reach no state of any of them that this does not. Deadlock
checking is off where the system comes to rest: alerts, requests, documents and time are
finite.

**Fairness.** A scheduled job is started again and again (`trigger="interval"`),
and a started run proceeds: weak fairness per run. An API request that has read
its row completes; nobody is obliged to send one, or to start a health check or an
unlocked aggregation, which are fair only once they run. A manual pull may even hang
halfway. The LLM and the
skills answer or time out. Keys of dead owners expire and days pass. Crashes,
failures and late documents are possible, never fair.

**Properties with exceptions.** `OneRepresentative` and `OccurrenceExact` are stated
for the fixed window the code has. `HealthyAlertsLeaveNew` is about alerts *older*
than one that always raises, `AlertsAreStored` about sources without a document the
database refuses: the others wait behind it (below). `FirstDecisionStands`
excepts rows two requests had open at once, `ImportsAreWhole` imports another commit
overlapped: there the last write wins, or an edge is stored twice. `StandInsAreGone` is
checked for regressions younger than their key (`MayOverrun = FALSE`).
`CountersFit` bounds `total_ingested` from above only, since a stale copy loses counts.
`ProbesStayApart` excepts an event whose *first* probe comes between a run's test of the
event and its query for the investigation (`exposed`); that window is open in the code,
and without the exception `settle` finds a mock verdict settled. `LicenseIsKept` excepts
what the next import does to the file of an import that died over it (`leftover`):
`manager.py:422-423` moves whatever is in the license file over the backup, and when that
is a torn file the backup was the only copy of the license. `ConcludedEventsClose` lets a
late reply take the event back. `ImplementsMutex` is stated for runs shorter than the
TTL, and says nothing of those that are not.

### Where code and docs disagree

* `reply`: after a human reply the docs promise another agent run
  (`docs/human-review-phase6.md:39-40`). `handle_reply` completes the
  investigation, and `_pick_events` excludes events with a completed one, so the
  event stays in PENDING_REVIEW. `EventLife` states what is promised, an event that a
  reply sends back may be judged again; the code does so only where `reopen` shows.
* `reopen`: a concluded event is closed and goes nowhere else
  (`docs/database-er.md:137`). A reply that has read its request as SENT waits for the
  row the agent is about to cancel, and when the agent has concluded the event writes
  PENDING_REVIEW over it (`human_review/service.py:181`). A request is out at such a time
  because the dispatcher picks the event (`:281`) and asks for its investigation (`:288`)
  in two steps: a reply in between completes the investigation, the dispatcher asks once
  more and sets it back to NEEDS_HUMAN (`:352`), and the agent picks the event up.
* `crowd`: probes take nothing of the defense assets
  (`docs/regression-health-phase9.md:8`). `_pick_targets` fetches three times the batch
  size of CONCLUDED events, oldest first, and skips the probes among them afterwards;
  a probe event is never settled and stays at the head. After 60 of them, with the
  default batch of 20, nothing is settled any more. `_pick_dispatch_candidates`
  (`human_review/service.py:283`) has the same shape.

Worth knowing beside these:

* A probe that is merged into an event, and investigated, between `event_is_probe` and
  the query for the latest investigation (`defense_assets/pipeline.py:131` and `:133`,
  `human_review/service.py:286` and `:288`) has its mock verdict settled into a case, or
  put before a human, against `docs/regression-health-phase9.md:8`. `settle` finds this
  if the exception of `ProbesStayApart` is taken out.
* After an import died over its file, the next one moves the torn file over the backup,
  and the license in force before is lost (`license/manager.py:422-423`).
* Rule candidates are among what a settlement stores (`docs/defense-assets-phase7.md:9`).
  The agent's conclusion has no field for one (`agent/conclusion.py:12-15`), so
  `create_rule_candidate_if_applicable` never returns any.

* Two regressions with the real LLM of which the first outlives its 900 s key may put
  back each other's `load_disposition_config`: the first one's stand-in then stays until
  the process ends, and no later investigation is offered `simulate_disposition`.
  `platform` with `MayOverrun = TRUE` violates `StandInsAreGone` in this way. An
  investigation that starts while the stand-in is rightly there misses the tool as well,
  although its prompt, which reads the flag elsewhere (`agent/context_builder.py:95`),
  asks for it.
* The real loop of a regression (`eval/regression/runner.py:208`) adds messages and tool
  calls to the session of the run with the id of an investigation that is in no table.
  The first flush violates the foreign key, so such a run ends without a report.
* Alerts join PENDING_REVIEW events only (`docs/aggregation-phase4.md:13-14`). An
  aggregation that has found its target waits for the agent's row lock and adds the
  alert afterwards: the agent has not seen it, and no one will.
* A health check may take a closed event back to CONCLUDED, which `EventLife` has no
  step for. An aggregation that has found a PENDING_REVIEW target waits for the agent's
  row lock, and links the probe after the event was concluded and picked by a settlement.
  The settlement closes the event; the check, which investigates the probe's event
  whatever its status (`eval/health_check/stage_runner.py:118`), concludes it again, and
  as a probe's event it is never settled any more.
* Profile hints must not archive (`docs/triage-phase3.md:38`,
  `triage/handlers/profile_hint.py:1`). They are subtracted from the rule score
  before it is compared with `low_risk_threshold`.
* One sent request per event (`docs/human-review-phase6.md:10`) holds only while the
  dispatcher's 300 s key outlasts its run: `AtMostOneSent` is checked and proved
  under `Reliable`.
* The dedup window is called sliding (`triage/handlers/dedup.py:1`). Its end is set
  when it starts and a duplicate moves `last_seen_at` only.
* After the rollback the except branch of `TriageService.run` reads the expired
  `alert.id`, which raises out of the loop, so one failing alert ends its batch and
  heads the next one.
* A document whose row the database refuses rolls its page back in every run, so
  the source stands still behind it.
* Two relation imports at once may both insert an edge; from then on
  `scalar_one_or_none` raises for that edge.
* `aggregation/key.py:31` uses `UTC`, which it does not import, for window lengths
  other than 24 hours.

## What is proved

| Theorem | Statement | Assumes |
|---|---|---|
| `EventPipelineTypes!TypeCorrect`, `EventPipelineProofs!ProbedTypeInvariant` | `Spec => []TypeOK`, `ProbedSpec => []TypeInv` | |
| `EventPipelineProofs!CountIsExact` | `Spec => []AlertCountExact` | the aggregation lock outlasts its runs, and nobody skips it |
| `CountIsNeverOver`, `ClosedWithCase` | `[]AlertCountNeverOver`, `[]ClosedHasCase`, with and without health checks | no lock |
| `ClosedAfterDecision` | `Spec => []ClosedIsDecided` | no lock |
| `OneCase` | `[]OneCasePerInvestigation`, with and without health checks | the defense-assets lock outlasts its runs |
| `BudgetIsRespected`, `StatusAgrees`, `RepliesTakeEffect` | `Spec => []BudgetRespected`, `[]StatusAgreesWithInvestigation`, `[]ReplyTakesEffect` | the investigation lock outlasts its runs |
| `PipelineImplementsLife` | `Spec => ImplementsEventLife` | the investigation lock outlasts its runs |
| `OneOpenRequest`, `RequestsAreCapped` | `Spec => []AtMostOneSent`, `[]RequestCap` | the human-review lock outlasts its runs |
| `ProbesApart` | `ProbedSpec => []ProbesStayApart` | no lock |
| `ProbedRequests` | `ProbedSpec => [](AtMostOneSent /\ RequestCap)` | the human-review lock outlasts its runs |
| `ProbedBudget` | `ProbedSpec => []BudgetRespected` | the investigation lock outlasts its runs |
| `GovernanceProofs!ArchivesAreEarned`, `DecisionsStand`, `SuggestionsAreKept` | `Spec => []ArchiveIsEarned`, `[]FirstDecisionStands`, `[]SuggestionsKept` | |
| `RedisLockProofs!LockInvariant`, `Mutual` | `LockSpec => []LockInv`, `LockSpec => []MutualExclusion` | `Mutual`: runs shorter than the TTL |
| `RedisLockProofs!ReleaseDeletesOwn` | `LockSpec => NoForeignDelete` | runs shorter than the TTL, or a token and no time between GET and DEL |
| `RedisLockProofs!LockRefinesMutex` | `LockSpec => ImplementsMutex` | runs shorter than the TTL |
| `TriageProofs!TriageTypes`, `DuplicatesAreCovered`, `ResultsAreFinal` | `Spec => []TypeOK`, `[]DuplicateIsCovered`, `TriagedOnce` | |
| `RepresentativesAreApart`, `OccurrencesAreExact` | `Spec => []OneRepresentative`, `[]OccurrenceExact` | nobody skips the lock and no run outlives it |
| `PredictionIsRight` | `Spec => []RouteAsPredicted` | both copies of the thresholds agree |
| `AgentLoopProofs!LoopTypes`, `EveryCallAnswered`, `WorkIsBounded` | `Spec => []TypeOK`, `[]CallsAnswered`, `[]WorkBounded` | |
| `LoopKeepsContract` | `Spec => KeepsContract` | |
| `IngestionProofs!IngestionTypes`, `CursorSkipsNothing`, `CountersAreRight`, `AdviceIsRight` | `Spec => []TypeOK`, `[]NothingSkipped`, `[]CountersFit`, `[]AdviceFits` | |
| `PlatformProofs!LicenseTypes`, `BoundedTrial`, `KeptLicense` | `Spec => []TypeOK`, `[]TrialIsBounded`, `[]LicenseIsKept` | |
| `Recent` | `EvidenceSpec => []AnswersAreRecent` | |
| `WholeImports`, `NeighbourhoodsAreFound` | `GraphSpec => ImportsAreWhole`, `[]GraphIsNeighbourhood` | |
| `NamesComeBack` | `RegressionSpec => []StandInsAreGone` | regressions end before their key (`~MayOverrun`) |

All of them hold for any values of the constants that satisfy the named assumptions
in the modules. These give types, say that what stands for SQL's NULL is no value of
its column (`None`, `Nothing`), and that the skills, the documents of the indexer, the
requests of the governance API, the importers and the edges are finitely many, which counting
needs. That a lock outlasts its runs (`Reliable`) is assumed where the table says so
and nowhere else: the TTLs are constants of the code (300 to 1800 s) that nothing
enforces on a run. The runs that check these properties make the same assumption.

*Types.* `TypeOK` of the event store is not inductive: an event's status is assigned
from `VERDICT_EVENT_STATUS[agentVerdict]`, and a reply writes to `reqEvent` of its
request, so types depend on a verdict or a request being there when the pc says
so. `TypeInv` adds exactly those facts. One lemma per service shows that its
steps keep it, framed by lemmas that say which parts a step leaves alone.

*One open request.* `AtMostOneSent` says nothing of messages in flight and is not
inductive. `DispatchInv` adds that a dispatcher past its first step owns the
lock, that every draft belongs to a dispatcher that is sending, and that what it
has sent or is going to send never concerns an event with another open request
it does not withdraw. Drafts become `SENT` together with the withdrawal, so the
commit keeps it; everyone else (agent, replies, cancellations, crash) only takes
requests out of `SENT`. What it is going to send includes the events it has picked and
not asked its two questions about yet (`Asking`).

*Requests.* `RequestCap` counts rows of any status. `CapInv` adds that what a dispatcher
has counted when it picked its candidates stays the count until it commits: every
event it has in hand (`InHand`), and that of every draft, has at most `MaxResend`
requests. `DispatchInv` gives that a run adds one request per event and that no other
dispatcher adds any in between.

*Counts.* `alert_count` is written from a value read before the row lock is awaited.
Under the lock the one run's copy is still what is there (`ExactInv`). Without it the
copy is at most what its target holds, since links are never removed (`CountInv`); this
uses no lock and covers the health check.

*Cases.* `SettleInv` says of every run, lock or not, that an event on its list to close
has its case in the same transaction or has had it before; hence `ClosedHasCase`. Under
the lock what the one run still has to settle, or has settled without a commit, has no
case in the table (`OneCaseInv`).

*The event's status.* Several services write it. `StatusInv` consists of what makes their
writes agree: the agent's run is alone, investigations are numbered as they are committed
(`InvestigationsInOrder`), and the batch of the run is still pending and without a sound
judgment, as it was picked (`BatchIsFresh`). An event with a sound judgment is therefore
never judged again (`SoundIsFinal`); a concluded or closed one has such a judgment
(`ConcludedIsSound`), and one that waits has a latest investigation that asks for a human
(`WaitingAsks`). Requests, drafts and candidates concern investigations that ask
(`QuestionsAreReal`). What a reply has loaded may be outdated: if it found its event
pending and so leaves it alone, and the event waits again by now, it does so for a later
investigation (`RepliesAreUseful`). The status and the replies' effect follow.
`ClosedIsDecided` needs only that nothing undecided is on a list to close
(`DecidedInv`), and no lock.

*The event's life.* `EventLife` knows of an event its status, what its last judgment found,
whether a human has replied and whether its case is filed; these are `evStatus`,
`Findings`, `Replied` and `Filed` in `EventPipeline`. Four steps move them: `AggCommit`
opens, `AgentCommit` judges, `ReplyCommit` replies, `AssetCommit` settles; everything else
is a stutter, a crash included. An event may be judged whenever it is pending and no
judgment of it was sound, so again after a reply. A reply sends its event back, or, if it
loaded it as pending, leaves it alone; it may come so late that it takes a concluded or a
closed event back, which the abstract life allows (`reopen`). `FiledInv` adds to
`StatusInv` that whatever has a case, or is about to get one, can be settled, so a case is
filed and an event closed over a sound judgment only. Only the investigation lock is
needed: two settlements at once close an event twice, which is one close and a stutter.
The health check investigates events of any status, so this is a theorem of `Spec` and
not of `ProbedSpec` (see above).

*Budget and probes.* `BudgetInv` adds the events of
the batch, each of which may still be charged, to the counter. It is stated for a set of
agents that take the lock (`OwnLock`): all of them in `Spec`, those that are not a health
check in `ProbedSpec`, where a check works without the lock but on a probe's event only
(`ChecksWorkOnProbes`) and so charges nothing (`CheckChargesNothing`). `ApartInv` says
that every mark of a real result (a case, a request, a place in a batch) is on a real
investigation or on an exposed event. A mark is made by the second of two queries; an
event that passed the first one had no probe then, and if it has one at the second its
first probe came in between, which is what `exposed` records. An event that has a probe
keeps it.

*The lock.* Inside the lock `holder = w` and `ttl + ran[w] = Ttl`: the key is as
old as the run. Since a run is younger than the TTL its key cannot be gone, so
NX keeps everyone else out.

*Duplicates.* A run archives an alert because of a group it read steps ago, so
`DuplicateIsCovered` needs `DedupInv`: every group, committed or in a run's hands,
started its window at the time of an alert of its fingerprint that was judged.
Results are final, so such an alert stays; a commit either keeps the window or
starts one with its own alert. The proof uses no lock, which is why the property
survives the health check. `PredictionIsRight` holds for any four thresholds, in
whatever order they lie. Under the lock a run's batch is untouched and its copy of a
group is the row (`AloneInv`), and no judged alert lies after its group's start
(`WindowsInv`); so a new window is later than all before it, and its count starts at one.

*The loop.* `CallsAnswered` follows from counting: while call `at` is being worked on,
the answers are those to the calls before it. For the contract, a settling result is
only ever accepted when `ClosurePasses`, which needs the required skills in `called`;
and a skill that is in `called` has a row, except the one just being run, for which
the loop cannot be looking at a conclusion. Every step of the loop then is a
`Gather`, a `Settle`, a `HandOver`, a `RollBack` or a stutter of `Inquiry`.
`WorkBounded` adds up rows over all skills. `WorkInv` ties the sums to the counter of
calls: a call being answered has spent at most its own attempts and none of them has
succeeded, the calls before it at most `SkillRetries + 1` each. That a change of one
row changes the sum by as much is proved from the definition of the fold, by a least
counterexample (`SumExists`, `OneMore`).

*The cursor.* `NothingSkipped` speaks of the committed cursor, but a commit writes
what a session copied long ago. `SkipInv` therefore says the same of every copy in
every run (a copy that is behind is harmless: it has passed less) and of a page in
hand: whatever its commit will pass is in the page, or was already passed, stored,
unmappable or out of reach when the page was read. It holds because a page is the
*first* `BatchSize` matches, which needs that finite sets of documents have a last
element; it uses no lock, so it covers `--no-lock` and keys that expire.
`CountersInv` says that no copy of a source's row, however stale, is ahead of the audit
log, and that a page holds alerts of its own source only.

*Files and caches.* A readable start of the trial lies no later than the hour the trial
counts from, the file is gone only when the count has ended, and whoever is about to write
it does so in the hour the count began (`TrialInv`); hence `BoundedTrial`, for any number
of requests at any of their file operations and an import at any of its own.
`KeptLicense` needs which file the license in force is in at each step of an import, and
`leftover`, which tells a file an import has left unverified from one that was (`KeptInv`);
`status` writes neither the license nor its backup. `Recent` bounds the
age of the cached value by what is left of its TTL, and that of a running query by
`MaxQuery`. `NamesInv`: a run at work holds the key, so only it has replaced a name and
what it has put aside is the original. `GraphInv` describes an import's transaction by the
lines it has dealt with: it has written the edges they are about, each as the last of
them says (`WrittenInv`), and as long as nobody else commits the row it has written is
the only one of its edge (`AloneInv`).

*The walk.* `WalkInv` says of a breadth-first walk that its queue is ordered by distance
and spans two distances at most, that what is nearer than its head is among the nodes,
and that a node's neighbours are nodes or queued no farther than one step beyond it
(`Covers`); and that nothing in it is too far (`Sound`). The neighbourhood `Ball` is
defined by recursion and changes with the relations, so it is given them as a parameter
(`BallIn`); that the recursive function exists and obeys its equations follows from the
least counterexample (`GrowsExists`, `BallFacts`), without an induction theorem.

*Governance.* A request decides on a copy of the row it read, and a settlement on a
query for a pending candidate of its pattern. `PipeInv` follows the pipeline's one
transaction from the pick to the commit: only the run with the lock has anything in
hand, for investigations without a case (`NewCases`); at most one candidate of a pattern
waits in what it sees (`OneWaiting`), and what it settles has its suggestions in the
table or in the transaction (`Gathered`). `DecideInv` says when a copy is fresh: two
requests with one row open have put it in `contended` (`OverlapsShow`), so a copy that is
alone is still the row (`CopyIsFresh`). However they overlap, no counter and no copy of
one is ahead of the confirmations (`CountsAreBacked`), and a promoted rule has them
behind it (`RulesAreEarned`).

Only model-checked: the properties under fairness (`QueuedAlertsAreLinked`,
`NewEventsAreInvestigated`, `ConcludedEventsClose`, `ObsoleteRequestsAreWithdrawn`,
`HealthyAlertsLeaveNew`, `InvestigationEnds`, `AlertsAreStored`): liveness needs
ENABLED, which the prover does not support. Every invariant and every action property
of the passing runs is a theorem.

## Not modelled

* *Regression evaluation*: the comparison with the expected verdict and skills, the
  counts of the report, the editing of cases.
* *Geoip and playbooks*: lookups in static files. *History skill, retrieval of cases,
  prompts*: read-only queries and texts behind the agent loop.
* *Console queries, rule noise, statistics*: read-only queries.
* *IM adapters*: a message is sent or not; formatting, the cached access token and
  the wire protocol are outside the core.
* *Health check*: the comparison of the stage it reached with the stage it expected.
* *Event keys* (`aggregation/key.py`): an opaque value per alert. *Frequency counter*
  of triage: part of a score, which is a free choice.
* *Web console, deployment, generators of documents*: no protocol of their own.

## Plan

1. Compose `Triage` with `EventStore` through `TriageAlert`, and with the whitelist
   rules of `Governance`; add the frequency counter.
2. Two licensed nodes on one volume, the provider merge of threat intelligence, the
   token cache of the IM adapters.
3. An abstract specification of a review request (sent once, answered, expired or
   withdrawn), refined by `EventPipeline` under the human-review lock.
