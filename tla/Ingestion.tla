------------------------------ MODULE Ingestion -------------------------------
(***************************************************************************)
(* IngestService: pull a page from the Wazuh indexer, map it, store what   *)
(* is new and move the source's cursor, in one transaction per page.  Runs *)
(* are started by the scheduler (every active source), by the API and by   *)
(* the CLI (one source, --no-lock skips the lock); an operator may reset   *)
(* the cursor at any time.                                                 *)
(*                                                                         *)
(* A document is a number in the order of its sort values (timestamp, _id) *)
(* and it reaches the indexer whenever it likes, also behind the cursor.   *)
(***************************************************************************)
EXTENDS Integers, FiniteSets, FiniteSetsExt

CONSTANTS
  Sources,
  Docs, SourceOf, Stamp,   \* documents, their source and timestamp
  Bad,                     \* those that may be unmappable, or refused by the database
  Jobs, Manual, Unlocked,  \* scheduled runs; API and CLI runs; runs with --no-lock
  Operators,               \* callers of extend-lookback
  BatchSize, MaxBatches,   \* page size; ingestion_max_batches_per_run
  Lookback, LongLookback,  \* initial_lookback_hours before and after extend-lookback
  MaxTime, MaxFaults, MaxResets,   \* bounds
  MayOverrun,              \* whether a run may outlive its lock's 600 seconds
  None

Runs == Jobs \cup Manual
Workers == Runs \cup Operators

ASSUME IngestionAssumption ==
  /\ Docs \subseteq Nat \ {0} /\ IsFiniteSet(Docs)
  /\ SourceOf \in [Docs -> Sources]
  /\ Stamp \in [Docs -> Nat]
  /\ \A d, e \in Docs : d < e => Stamp[d] <= Stamp[e]
  /\ Bad \subseteq Docs
  /\ Unlocked \subseteq Manual
  /\ Jobs \cap Manual = {} /\ Runs \cap Operators = {}
  /\ BatchSize \in Nat \ {0} /\ MaxBatches \in Nat \ {0}
  /\ Lookback \in Nat /\ LongLookback \in Nat
  /\ MaxTime \in Nat /\ MaxFaults \in Nat /\ MaxResets \in Nat
  /\ MayOverrun \in BOOLEAN
  /\ None \notin Workers \cup Sources

VARIABLES
  index,    \* documents the indexer holds
  unmappable,  \* documents map_to_normalized raises on (environment, fixed)
  refused,  \* documents whose row the database refuses (environment, fixed)
  stored,   \* alerts: documents with a row
  src,      \* data_sources: cursor_state (position, total_ingested) and lookback
  audited,  \* inserted, added up over the source's audit_logs
  lock,     \* Redis: who holds ingest:lock:<source>
  run,      \* what each worker is doing
  clock, faults, resets,
  unseen    \* history: documents no page could contain when the cursor passed them

vars == <<index, unmappable, refused, stored, src, audited, lock, run, clock, faults, resets, unseen>>

environment == <<index, unmappable, refused, clock>>
tables == <<stored, src, audited, unseen>>

-----------------------------------------------------------------------------
(* The indexer: search_alerts *)

\* CursorState; position 0 stands for last_sort_values = None.
Cursor == [pos : Docs \cup {0}, total : Nat, lookback : {Lookback, LongLookback}]

OfSource(s) == {d \in Docs : SourceOf[d] = s}

WindowStart(c) == IF c.pos = 0 THEN clock - c.lookback ELSE Stamp[c.pos]

\* The range clause, which the diagnosis counts.
InWindow(s, c) == {d \in index \cap OfSource(s) : Stamp[d] >= WindowStart(c)}

\* ... and search_after.
Matching(s, c) == {d \in InWindow(s, c) : d > c.pos}

\* The page: the first BatchSize hits.
Hits(s, c) ==
  {d \in Matching(s, c) : Cardinality({e \in Matching(s, c) : e <= d}) <= BatchSize}

\* Mutant: the cursor is moved to the clock's end of the page's window.
NextPos_Newest(c, hits) == IF hits = {} THEN c.pos ELSE Max(index)

NextPos(c, hits) == IF hits = {} THEN c.pos ELSE Max(hits)

HasMore(hits) == Cardinality(hits) >= BatchSize

Mapped(hits) == hits \ unmappable

-----------------------------------------------------------------------------
(* Runs *)

NewSource == [pos |-> 0, total |-> 0, lookback |-> Lookback]

\* A run serves the sources in todo one by one; row is its session's copy of their
\* rows, batches counts the pages of the current source, page is what it has pulled.
Idle == [pc |-> "idle", at |-> None, todo |-> {}, row |-> [s \in Sources |-> NewSource],
         batches |-> 0, page |-> None]

Init ==
  /\ index = {}
  /\ unmappable \in SUBSET Bad /\ refused \in SUBSET (Bad \ unmappable)
  /\ stored = {}
  /\ src = [s \in Sources |-> NewSource]
  /\ audited = [s \in Sources |-> 0]
  /\ lock = [s \in Sources |-> None]
  /\ run = [w \in Workers |-> Idle]
  /\ clock = 0 /\ faults = 0 /\ resets = 0
  /\ unseen = {}

Does(w, becomes) == run' = [run EXCEPT ![w] = becomes]

Fault == faults < MaxFaults /\ faults' = faults + 1

\* run_all_active and run_for_source read the rows before any lock is taken.
Start(r) ==
  /\ run[r].pc = "idle"
  /\ \E served \in IF r \in Jobs THEN {Sources} ELSE {{s} : s \in Sources} :
       Does(r, [Idle EXCEPT !.pc = "listed", !.todo = served, !.row = src])
  /\ UNCHANGED <<environment, tables, lock, faults, resets>>

\* The run after its current source: a job goes on with the next.
Left(r, s) ==
  IF run[r].todo = {s} THEN Idle
  ELSE [Idle EXCEPT !.pc = "listed", !.todo = run[r].todo \ {s},
                    !.row = [run[r].row EXCEPT ![s] = NewSource]]

\* ingest_lock: SET NX EX; a busy source is skipped.
Enter(r) ==
  /\ run[r].pc = "listed"
  /\ \E s \in run[r].todo :
       \/ /\ r \in Unlocked \/ lock[s] = None
          /\ Does(r, [run[r] EXCEPT !.pc = "pull", !.at = s])
          /\ lock' = IF r \in Unlocked THEN lock ELSE [lock EXCEPT ![s] = r]
       \/ /\ r \notin Unlocked /\ lock[s] # None
          /\ Does(r, Left(r, s))
          /\ UNCHANGED lock
  /\ UNCHANGED <<environment, tables, faults, resets>>

\* The finally of ingest_lock: GET, compare the token, DEL.
Release(r, s) == lock' = IF lock[s] = r THEN [lock EXCEPT ![s] = None] ELSE lock

\* adapter.pull with the cursor of the session's copy.
Pull(r) ==
  LET s == run[r].at
      c == run[r].row[s]
  IN  /\ run[r].pc = "pull"
      /\ Does(r, [run[r] EXCEPT !.pc = "store",
                   !.page = [hits |-> Hits(s, c),
                             gone |-> {d \in OfSource(s) : d > c.pos} \ InWindow(s, c)]])
      /\ UNCHANGED <<environment, tables, lock, faults, resets>>

\* The three attempts of _request_with_retry have failed, or the credentials have:
\* run_all_active goes on to the next source.
PullFails(r) ==
  /\ run[r].pc = "pull"
  /\ Fault
  /\ Release(r, run[r].at)
  /\ Does(r, Left(r, run[r].at))
  /\ UNCHANGED <<environment, tables, resets>>

\* Mutant: total_ingested adds what was fetched.
Inserted_Fetched(hits) == hits

\* The rows ON CONFLICT DO NOTHING lets in.
Inserted(hits) == Mapped(hits) \ stored

\* The row the batch writes: computed from the copy, whatever the table holds now.
Advanced(r, s) ==
  [src[s] EXCEPT !.pos = NextPos(run[r].row[s], run[r].page.hits),
                 !.total = run[r].row[s].total + Cardinality(Inserted(run[r].page.hits))]

Accepted(hits) == Mapped(hits) \cap refused = {}

\* The run after a page: another one, or the next source.
AfterPage(r, s) ==
  IF HasMore(run[r].page.hits) /\ run[r].batches + 1 < MaxBatches
  THEN [run[r] EXCEPT !.pc = "pull", !.batches = @ + 1, !.page = None,
                      !.row[s] = Advanced(r, s)]
  ELSE Left(r, s)

\* Map, INSERT, cursor, audit log, commit, refresh: one transaction.
Store(r) ==
  LET s == run[r].at
      hits == run[r].page.hits
  IN  /\ run[r].pc = "store"
      /\ Accepted(hits)
      /\ stored' = stored \cup (Inserted(hits) \ refused)
      /\ src' = [src EXCEPT ![s] = Advanced(r, s)]
      /\ audited' = [audited EXCEPT ![s] = @ + Cardinality(Inserted(hits))]
      /\ unseen' = unseen \cup {d \in run[r].page.gone : d <= Advanced(r, s).pos}
      /\ Does(r, AfterPage(r, s))
      /\ IF AfterPage(r, s).pc = "pull" THEN UNCHANGED lock ELSE Release(r, s)
      /\ UNCHANGED <<environment, faults, resets>>

\* The database refuses a row of the page or is unreachable.  The transaction stays
\* aborted, so that the other sources of a job fail too.
StoreFails(r) ==
  /\ run[r].pc = "store"
  /\ \/ ~Accepted(run[r].page.hits) /\ UNCHANGED faults
     \/ Fault
  /\ Release(r, run[r].at)
  /\ Does(r, Idle)
  /\ UNCHANGED <<environment, tables, resets>>

\* The process dies; the key stays.
Dies(r) ==
  /\ run[r].pc # "idle"
  /\ Fault
  /\ Does(r, Idle)
  /\ UNCHANGED <<environment, tables, lock, resets>>

RunStep(r) ==
  Start(r) \/ Enter(r) \/ Pull(r) \/ PullFails(r) \/ Store(r) \/ StoreFails(r) \/ Dies(r)

-----------------------------------------------------------------------------
(* The operator, the indexer, time *)

\* extend_lookback reads the row ...
ResetRead(u) ==
  /\ run[u].pc = "idle" /\ resets < MaxResets
  /\ resets' = resets + 1
  /\ \E s \in Sources : Does(u, [Idle EXCEPT !.pc = "reset", !.at = s, !.row[s] = src[s]])
  /\ UNCHANGED <<environment, tables, lock, faults>>

\* ... and writes the configuration and, with reset_cursor, an empty cursor.  No lock.
ResetCommit(u) ==
  LET s == run[u].at
  IN  /\ run[u].pc = "reset"
      /\ \/ src' = [src EXCEPT ![s] = [pos |-> 0, total |-> run[u].row[s].total,
                                       lookback |-> LongLookback]]
         \/ src' = [src EXCEPT ![s].lookback = LongLookback]
      /\ Does(u, Idle)
      /\ UNCHANGED <<environment, stored, audited, unseen, lock, faults, resets>>

Arrive(d) ==
  /\ d \notin index /\ Stamp[d] <= clock
  /\ index' = index \cup {d}
  /\ UNCHANGED <<unmappable, refused, clock, tables, lock, run, faults, resets>>

Tick ==
  /\ clock < MaxTime
  /\ clock' = clock + 1
  /\ UNCHANGED <<index, unmappable, refused, tables, lock, run, faults, resets>>

\* Mutant: SET without EX.
LockExpires_Never(s) == FALSE

\* The key's 600 seconds are over: its run is dead, or takes longer.
LockExpires(s) ==
  /\ lock[s] # None
  /\ MayOverrun \/ run[lock[s]].at # s
  /\ lock' = [lock EXCEPT ![s] = None]
  /\ UNCHANGED <<environment, tables, run, faults, resets>>

Next ==
  \/ \E r \in Runs : RunStep(r)
  \/ \E u \in Operators : ResetRead(u) \/ ResetCommit(u)
  \/ \E d \in Docs : Arrive(d)
  \/ Tick
  \/ \E s \in Sources : LockExpires(s)

Spec == Init /\ [][Next]_vars

\* The scheduler starts its job every few minutes and a started one goes on.  Nothing is
\* asked of a manual run: if it hangs, its key runs out.
Fairness ==
  /\ \A r \in Jobs : WF_vars(RunStep(r))
  /\ \A s \in Sources : WF_vars(LockExpires(s))

FairSpec == Spec /\ Fairness

-----------------------------------------------------------------------------
(* The diagnosis an operator asks for: _diagnose_wazuh with an indexer that answers *)

HasAlerts(s) == index \cap OfSource(s) # {}

\* Mutant: the count leaves out the cursor's own timestamp.
WindowCount_After(s) ==
  Cardinality({d \in InWindow(s, src[s]) : Stamp[d] > WindowStart(src[s])})

WindowCount(s) == Cardinality(InWindow(s, src[s]))

Latest(s) == Max({Stamp[d] : d \in index \cap OfSource(s)})

\* What the operator is told about the window.
Advice(s) ==
  IF ~HasAlerts(s) THEN "indexer_data"
  ELSE IF WindowCount(s) > 0 THEN "pending_pull"
  ELSE IF Latest(s) < WindowStart(src[s]) THEN "lookback_gap"
  ELSE IF src[s].pos # 0 THEN "caught_up"
  ELSE "empty_window"

\* actions_available
OffersReset(s) ==
  \/ Advice(s) \in {"lookback_gap", "empty_window"}
  \/ Advice(s) = "caught_up" /\ Latest(s) # Stamp[src[s].pos]

\* _status_from_checks
Overall(s) ==
  IF \/ Advice(s) = "indexer_data" \/ OffersReset(s)
     \/ Advice(s) = "pending_pull" /\ stored \cap OfSource(s) = {}
  THEN "warn" ELSE "ok"

-----------------------------------------------------------------------------
(* Properties *)

Pages == [hits : SUBSET Docs, gone : SUBSET Docs]

Activity ==
  [pc : {"idle", "listed", "pull", "store", "reset"}, at : Sources \cup {None},
   todo : SUBSET Sources, row : [Sources -> Cursor], batches : Nat, page : Pages \cup {None}]

TypeOK ==
  /\ index \subseteq Docs /\ unmappable \subseteq Docs /\ refused \subseteq Docs
  /\ stored \subseteq Docs /\ unseen \subseteq Docs
  /\ src \in [Sources -> Cursor]
  /\ audited \in [Sources -> Nat]
  /\ lock \in [Sources -> Runs \cup {None}]
  /\ run \in [Workers -> Activity]
  /\ clock \in Nat /\ faults \in Nat /\ resets \in Nat

\* The cursor never passes an alert without its row, except one that cannot be mapped
\* and one no query could return at that moment (indexed behind the cursor, or older
\* than the lookback): whatever overlaps, resets, fails or dies (_run_batch).
NothingSkipped ==
  \A d \in index :
    d <= src[SourceOf[d]].pos => d \in stored \cup unmappable \cup unseen

\* The audit log adds up to the alerts of the source, whoever inserted them;
\* total_ingested may lose a batch to a stale copy of the row, but it never counts an
\* alert that is not there (_run_batch, extend_lookback).
CountersFit ==
  \A s \in Sources :
    /\ audited[s] = Cardinality(stored \cap OfSource(s))
    /\ src[s].total <= audited[s]

\* As long as a pull would find something the operator is told to pull; if the source
\* has alerts and its empty cursor's window has none, he is offered the reset
\* (_diagnose_wazuh counts with a query of its own).
AdviceFits ==
  \A s \in Sources :
    /\ Matching(s, src[s]) # {} => Advice(s) = "pending_pull" /\ ~OffersReset(s)
    /\ HasAlerts(s) /\ src[s].pos = 0 /\ Matching(s, src[s]) = {}
         => OffersReset(s) /\ Overall(s) = "warn"

TooOld(d) == src[SourceOf[d]].pos = 0 /\ Stamp[d] < WindowStart(src[SourceOf[d]])

Missing ==
  {d \in index \ unmappable : d \notin stored \cup unseen /\ ~TooOld(d)}

\* If the database refuses nothing, every alert that can be mapped is stored in the end,
\* unless it was behind the cursor or too old when it was indexed, and no pull or reset
\* brings a missing one back (IngestService.run_all_active).
AlertsAreStored == <>[](refused = {} => Missing = {})
=============================================================================
