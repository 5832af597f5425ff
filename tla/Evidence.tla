------------------------------- MODULE Evidence -------------------------------
(***************************************************************************)
(* What the agent's skills are told about an asset and an indicator comes  *)
(* from caches: query_asset keeps its answers in Redis for CACHE_TTL,      *)
(* query_threat_intel reads rows a sync run has stored with an expiry.     *)
(* The model follows one asset, one indicator and the age of what is said. *)
(***************************************************************************)
EXTENDS Integers

CONSTANTS
  Readers,    \* investigations
  CacheTtl,   \* CACHE_TTL
  MaxQuery,   \* bound on the time one query_asset takes
  IntelTtl,   \* threat_intel_cache_ttl_hours
  Syncs,      \* runs of the threat intelligence sync
  LastTime,   \* bound on the clock
  Missing

ASSUME EvidenceAssumption ==
  /\ CacheTtl \in Nat /\ MaxQuery \in Nat /\ IntelTtl \in Nat /\ LastTime \in Nat
  /\ Missing \notin Nat

VARIABLES
  now,
  cached,    \* the Redis value: when its data was read and when the key expires
  reading,   \* reading[r]: when r read the rows it has not yet cached, or Missing
  told,      \* the last answer of query_asset: the age of its data
  entries,   \* committed threat_intel_entries: their fetched_at
  syncing,   \* syncing[s]: the start of s, or Missing
  found,     \* whether s has a row to store
  intel      \* the last answer of query_threat_intel: its age since fetched_at

assetVars == <<cached, reading, told>>
intelVars == <<entries, syncing, found, intel>>
evidenceVars == <<now, assetVars, intelVars>>

Time == 0 .. LastTime

EvidenceTypeOK ==
  /\ now \in Time
  /\ cached = Missing \/ cached \in [read : Time, until : 0 .. LastTime + CacheTtl]
  /\ reading \in [Readers -> Time \cup {Missing}]
  /\ told \in Time
  /\ entries \subseteq Time
  /\ syncing \in [Syncs -> Time \cup {Missing}]
  /\ found \in [Syncs -> BOOLEAN]
  /\ intel \in Time

EvidenceInit ==
  /\ now = 0
  /\ cached = Missing
  /\ reading = [r \in Readers |-> Missing]
  /\ told = 0
  /\ entries = {}
  /\ syncing = [s \in Syncs |-> Missing]
  /\ found = [s \in Syncs |-> FALSE]
  /\ intel = 0

-----------------------------------------------------------------------------
(* query_asset *)

InCache == cached # Missing /\ now < cached.until

\* Mutant: an answer from the cache renews the key.
AfterHit_Renewed == [cached EXCEPT !.until = now + CacheTtl]

AfterHit == cached

\* _read_cache finds a value.
AssetHit(r) ==
  /\ reading[r] = Missing
  /\ InCache
  /\ told' = now - cached.read
  /\ cached' = AfterHit
  /\ UNCHANGED <<now, reading, intelVars>>

\* It finds none, or Redis fails: the rows are read.
AssetMiss(r) ==
  /\ reading[r] = Missing
  /\ reading' = [reading EXCEPT ![r] = now]
  /\ UNCHANGED <<now, cached, told, intelVars>>

\* The graph and the gateway have been asked; the answer is cached, if Redis allows.
AssetAnswer(r) ==
  /\ reading[r] # Missing
  /\ told' = now - reading[r]
  /\ cached' \in {cached, [read |-> reading[r], until |-> now + CacheTtl]}
  /\ reading' = [reading EXCEPT ![r] = Missing]
  /\ UNCHANGED <<now, intelVars>>

\* A query raises.
AssetFails(r) ==
  /\ reading[r] # Missing
  /\ reading' = [reading EXCEPT ![r] = Missing]
  /\ UNCHANGED <<now, cached, told, intelVars>>

-----------------------------------------------------------------------------
(* ThreatIntelSyncService.run and query_threat_intel *)

\* expires_at >= now, in both.
Unexpired(t) == {f \in entries : f + IntelTtl >= t}

SyncStarts(s) ==
  /\ syncing[s] = Missing
  /\ syncing' = [syncing EXCEPT ![s] = now]
  /\ UNCHANGED <<now, assetVars, entries, found, intel>>

\* The indicator is not fresh, or the run is forced, and a provider answers.
SyncLooksUp(s, force) ==
  /\ syncing[s] # Missing /\ ~found[s]
  /\ force \/ Unexpired(syncing[s]) = {}
  /\ found' = [found EXCEPT ![s] = TRUE]
  /\ UNCHANGED <<now, assetVars, entries, syncing, intel>>

\* The row carries the time of the run's start.
SyncEnds(s) ==
  /\ syncing[s] # Missing
  /\ entries' = IF found[s] THEN entries \cup {syncing[s]} ELSE entries
  /\ syncing' = [syncing EXCEPT ![s] = Missing]
  /\ found' = [found EXCEPT ![s] = FALSE]
  /\ UNCHANGED <<now, assetVars, intel>>

SyncFails(s) ==
  /\ syncing[s] # Missing
  /\ syncing' = [syncing EXCEPT ![s] = Missing]
  /\ found' = [found EXCEPT ![s] = FALSE]
  /\ UNCHANGED <<now, assetVars, entries, intel>>

\* The latest unexpired row, if any, is the answer.
AskIntel ==
  /\ \E f \in Unexpired(now) :
       /\ \A g \in Unexpired(now) : g <= f
       /\ intel' = now - f
  /\ UNCHANGED <<now, assetVars, entries, syncing, found>>

EvidenceTick ==
  /\ now < LastTime
  /\ \A r \in Readers : reading[r] # Missing => now - reading[r] < MaxQuery
  /\ now' = now + 1
  /\ UNCHANGED <<assetVars, intelVars>>

AssetStep == \E r \in Readers : AssetHit(r) \/ AssetMiss(r) \/ AssetAnswer(r) \/ AssetFails(r)

IntelStep ==
  \/ \E s \in Syncs : SyncStarts(s) \/ SyncEnds(s) \/ SyncFails(s)
  \/ \E s \in Syncs : \E force \in BOOLEAN : SyncLooksUp(s, force)
  \/ AskIntel

EvidenceNext == AssetStep \/ IntelStep \/ EvidenceTick

EvidenceSpec == EvidenceInit /\ [][EvidenceNext]_evidenceVars

-----------------------------------------------------------------------------
(* Properties *)

\* No investigation is told anything older than the cache's time plus one query's, also
\* when a slow query overwrites the newer value of a faster one; and no verdict older
\* than its time to live, however long the sync that stored it took (query_asset,
\* query_threat_intel).
AnswersAreRecent ==
  /\ told <= CacheTtl + MaxQuery
  /\ intel <= IntelTtl
=============================================================================
