--------------------------- MODULE DefenseAssets ----------------------------
(***************************************************************************)
(* AssetPipeline.run: settle concluded events into judgment cases and      *)
(* close them, one commit per run, and the confirmation or rejection of a  *)
(* disposition record through the API.  The run asks for the concluded     *)
(* events once, and then of each of them first whether it is a probe and   *)
(* then for its latest investigation; other transactions commit between    *)
(* these queries.                                                          *)
(***************************************************************************)
EXTENDS EventStore

CONSTANTS
  Settlers,                    \* runs of the pipeline
  FetchLimit,                  \* defense_assets.batch_size * 3
  AutoCloseEvent,              \* defense_assets.auto_close_event
  RequireDispositionConfirm    \* defense_assets.require_disposition_confirm

ASSUME DefenseAssetsAssumption ==
  /\ Settlers \subseteq Workers
  /\ FetchLimit \in Nat \ {0}
  /\ AutoCloseEvent \in BOOLEAN
  /\ RequireDispositionConfirm \in BOOLEAN

VARIABLES
  assetPc,       \* where each run is
  assetFetched,  \* concluded events it has fetched and not looked at yet
  assetTested,   \* the one of them that was no probe when it asked, or None
  assetTodo,     \* investigations picked and not settled yet
  assetCases,    \* investigations whose case the transaction has added
  assetClose     \* events the transaction sets to CLOSED

pickVars == <<assetFetched, assetTested>>
settleVars == <<assetPc, pickVars, assetTodo, assetCases, assetClose>>

AssetTypeOK ==
  /\ assetPc \in [Settlers -> {"idle", "running"}]
  /\ assetFetched \in [Settlers -> SUBSET Events]
  /\ assetTested \in [Settlers -> Events \cup {None}]
  /\ assetTodo \in [Settlers -> SUBSET Investigations]
  /\ assetCases \in [Settlers -> SUBSET Investigations]
  /\ assetClose \in [Settlers -> SUBSET Events]

AssetInit ==
  /\ assetPc = [p \in Settlers |-> "idle"]
  /\ assetFetched = [p \in Settlers |-> {}]
  /\ assetTested = [p \in Settlers |-> None]
  /\ assetTodo = [p \in Settlers |-> {}]
  /\ assetCases = [p \in Settlers |-> {}]
  /\ assetClose = [p \in Settlers |-> {}]

\* The process dies: its runs are gone.
AssetDies ==
  /\ assetPc' = [p \in Settlers |-> "idle"]
  /\ assetFetched' = [p \in Settlers |-> {}]
  /\ assetTested' = [p \in Settlers |-> None]
  /\ assetTodo' = [p \in Settlers |-> {}]
  /\ assetCases' = [p \in Settlers |-> {}]
  /\ assetClose' = [p \in Settlers |-> {}]

\* The store variables only other services write.
AssetOthers ==
  <<alertVars, invVars, reqVars, rowLock, redisVars>>

\* _latest_settleable_investigation.  Runs of the agent do not overlap, so the
\* order of finished_at is that of started_at.
Settleable(i, e) ==
  /\ invEvent[i] = e
  /\ invStatus[i] = "completed"
  /\ \A j \in InvestigationsOf(e) : invStatus[j] = "completed" => j <= i
  /\ verdict[i] \in SettleVerdicts

\* Event.last_alert_at of e is before that of f.
LastAlertBefore(e, f) ==
  \E b \in Linked(f) : \A a \in Linked(e) : a < b

\* The CONCLUDED events the query returns: ORDER BY last_alert_at LIMIT, whatever
\* becomes of them afterwards.
Fetched ==
  LET Concluded == {e \in Events : evStatus[e] = "concluded"}
  IN  {e \in Concluded :
         Cardinality({f \in Concluded : LastAlertBefore(f, e)}) < FetchLimit}

\* _dispositions_resolved: there is at most one record per investigation.
DispositionsResolved(i) == disposition[i] # "suggested"

\* Mutant: auto-close forgets the confirmation.
ShouldClose_Unconfirmed(i) == AutoCloseEvent

\* _should_close_event, and the two branches at the end of _settle_one.
ShouldClose(i) ==
  /\ AutoCloseEvent
  /\ RequireDispositionConfirm => DispositionsResolved(i)

AssetReset(p) ==
  /\ assetPc' = [assetPc EXCEPT ![p] = "idle"]
  /\ assetFetched' = [assetFetched EXCEPT ![p] = {}]
  /\ assetTested' = [assetTested EXCEPT ![p] = None]
  /\ assetTodo' = [assetTodo EXCEPT ![p] = {}]
  /\ assetCases' = [assetCases EXCEPT ![p] = {}]
  /\ assetClose' = [assetClose EXCEPT ![p] = {}]
  /\ ReleaseLock("defense_assets", p)

\* Mutant: the query for an existing case finds nothing.
Settled_Missed == {}

\* The investigations whose case another run, or an earlier one, has committed.
Settled == {i \in Investigations : cases[i] > 0}

\* Mutant: an event whose case exists is skipped and never looked at again.
LeftOpen_Skipped(i) == FALSE

\* The event of a case that exists already may be closed (_should_close_event).
LeftOpen(i) == ShouldClose(i)

\* run up to the query of _pick_targets; a run that finds no concluded event is left
\* out.
AssetFetch(p) ==
  /\ assetPc[p] = "idle"
  /\ Fetched # {}
  /\ AcquireLock("defense_assets", p)
  /\ assetFetched' = [assetFetched EXCEPT ![p] = Fetched]
  /\ assetPc' = [assetPc EXCEPT ![p] = "running"]
  /\ UNCHANGED <<assetTested, assetTodo, assetCases, assetClose, evStatus, cases,
                 disposition, faults, AssetOthers>>

\* Is the next event a probe?  The limit on the targets themselves is left out, and
\* the events are looked at in any order.
AssetTest(p, e) ==
  /\ e \in assetFetched[p]
  /\ assetTested[p] = None
  /\ assetFetched' = [assetFetched EXCEPT ![p] = @ \ {e}]
  /\ assetTested' = [assetTested EXCEPT ![p] = IF IsProbeEvent(e) THEN None ELSE e]
  /\ UNCHANGED <<assetPc, assetTodo, assetCases, assetClose, evStatus, cases,
                 disposition, lock, faults, AssetOthers>>

\* Its latest investigation, if it can be settled, and the case of that: an event
\* whose case exists is closed here if it should be.  A second case of one
\* investigation makes scalar_one_or_none raise, outside the try of the loop, which
\* ends the run.
AssetLook(p) ==
  LET e == assetTested[p]
      found == {i \in Investigations : Settleable(i, e)}
  IN  /\ e # None
      /\ IF \E i \in found : cases[i] > 1
         THEN AssetReset(p)
         ELSE /\ assetTested' = [assetTested EXCEPT ![p] = None]
              /\ assetTodo' = [assetTodo EXCEPT ![p] = @ \cup (found \ Settled)]
              /\ assetClose' = [assetClose EXCEPT ![p] =
                    IF \E i \in found \cap Settled : LeftOpen(i) THEN @ \cup {e} ELSE @]
              /\ UNCHANGED <<assetPc, assetFetched, assetCases, lock>>
      /\ UNCHANGED <<evStatus, cases, disposition, faults, AssetOthers>>

\* _pick_targets has returned.
Picked(p) == assetFetched[p] = {} /\ assetTested[p] = None

\* session.add of the row build_judgment_case makes.
WithCase(p, i) == [assetCases EXCEPT ![p] = @ \cup {i}]

AssetSettle(p, i) ==
  /\ Picked(p) /\ i \in assetTodo[p]
  /\ assetTodo' = [assetTodo EXCEPT ![p] = @ \ {i}]
  /\ assetCases' = WithCase(p, i)
  /\ assetClose' = [assetClose EXCEPT ![p] =
                      IF ShouldClose(i) THEN @ \cup {invEvent[i]} ELSE @]
  /\ UNCHANGED <<assetPc, pickVars, evStatus, cases, disposition, lock, faults,
                 AssetOthers>>

\* Mutant: the event is closed first, so that a failed settlement leaves it closed.
AssetSettleFails_ClosesFirst(p, i) ==
  /\ Picked(p) /\ i \in assetTodo[p]
  /\ Fault
  /\ assetTodo' = [assetTodo EXCEPT ![p] = @ \ {i}]
  /\ assetClose' = [assetClose EXCEPT ![p] = @ \cup {invEvent[i]}]
  /\ UNCHANGED <<assetPc, pickVars, assetCases, evStatus, cases, disposition, lock,
                 AssetOthers>>

\* An exception in _settle_one, before or after session.add(case).  run catches
\* it without a rollback, so an added case stays in the transaction.
AssetSettleFails(p, i) ==
  /\ Picked(p) /\ i \in assetTodo[p]
  /\ Fault
  /\ assetTodo' = [assetTodo EXCEPT ![p] = @ \ {i}]
  /\ \/ assetCases' = WithCase(p, i)
     \/ UNCHANGED assetCases
  /\ UNCHANGED <<assetPc, pickVars, assetClose, evStatus, cases, disposition, lock,
                 AssetOthers>>

AssetCommit(p) ==
  /\ assetPc[p] = "running"
  /\ Picked(p) /\ assetTodo[p] = {}
  /\ \A e \in assetClose[p] : EventRowFree(e, p)
  /\ cases' = [i \in Investigations |->
                 IF i \in assetCases[p] THEN cases[i] + 1 ELSE cases[i]]
  /\ evStatus' = [e \in Events |->
                    IF e \in assetClose[p] THEN "closed" ELSE evStatus[e]]
  /\ AssetReset(p)
  /\ UNCHANGED <<disposition, faults, AssetOthers>>

\* DispositionService.confirm and reject.
DecideDisposition(i, decision) ==
  /\ disposition[i] = "suggested"
  /\ disposition' = [disposition EXCEPT ![i] = decision]
  /\ UNCHANGED <<settleVars, evStatus, cases, lock, faults, AssetOthers>>

AssetStep(p) ==
  \/ AssetFetch(p)
  \/ \E e \in Events : AssetTest(p, e)
  \/ AssetLook(p)
  \/ \E i \in Investigations : AssetSettle(p, i) \/ AssetSettleFails(p, i)
  \/ AssetCommit(p)
=============================================================================
