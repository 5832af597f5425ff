---------------------------- MODULE PlatformProofs ----------------------------
(***************************************************************************)
(* What the services around the pipeline promise, each for any values of   *)
(* its constants: the license (any files, any expiry, any length of the    *)
(* trial), the caches behind the skills (any number of investigations and  *)
(* syncs, any times to live), the names the regression evaluation replaces *)
(* (any number of runs, cases and investigations), and the entity graph    *)
(* (any relations, files and imports, any hops and any limit).             *)
(***************************************************************************)
EXTENDS License, EntityGraph, Evidence, Regression, FiniteSetTheorems,
        WellFoundedInduction, TLAPS

-----------------------------------------------------------------------------
(* The license *)

\* Why the trial cannot start again: the file with its start is no younger than its
\* count, is gone only when the count has ended, and is written in the hour it begins.
TrialInv ==
  /\ start \in Nat /\ trialFrom # Absent => start <= trialFrom
  /\ start = Absent => trialFrom = Absent
  /\ \A c \in Callers : check[c] \in {"create", "write"} => trialFrom \in {Absent, hour}
  /\ answer.at <= hour

\* Where the license in force is, at each operation of an import and after its death.
KeptInv ==
  /\ importPc \in {"open", "restore"} => lic = Absent
  /\ inForce # Absent /\ leftover # "moved" =>
       /\ inForce \in {lic, bak}
       /\ importPc \in {"open", "write", "verify", "refuse", "restore"} => inForce = bak
       /\ importPc \in {"clear", "unmark", "unback"} => inForce = lic
       /\ importPc = "idle" /\ leftover = "none" => lic \in {inForce, Absent}

LicenseInv == TypeOK /\ TrialInv /\ KeptInv /\ TrialIsBounded

\* Nothing is installed at the start.
LEMMA LicenseInitially == Init => LicenseInv
<1> SUFFICES ASSUME Init PROVE LicenseInv
  OBVIOUS
<1>1. 0 \in 0 .. LastHour /\ Absent \notin Nat
  BY LicenseAssumption
<1>2. TypeOK
  BY <1>1 DEF Init, TypeOK, Contents
<1>3. TrialInv /\ KeptInv /\ TrialIsBounded
  BY <1>1 DEF Init, TrialInv, KeptInv, TrialIsBounded
<1> QED
  BY <1>2, <1>3 DEF LicenseInv

\* Where a call of status goes on, or what it answers, has its type.
CallTypes ==
  /\ check' \in [Callers -> {"idle", "verify", "unstart", "unmark",
                             "over", "start", "mark", "again", "create", "write"}]
  /\ answer' \in [allowed : BOOLEAN, licensed : BOOLEAN, at : 0 .. LastHour]
  /\ serving' \in BOOLEAN /\ jobs' \in BOOLEAN

LEMMA GoesOnTypes ==
  ASSUME TypeOK, NEW c \in Callers,
         NEW to \in {"verify", "unstart", "unmark", "over", "start", "mark", "again",
                     "create", "write"},
         CheckGoesOn(c, to)
  PROVE  CallTypes
  BY DEF CallTypes, TypeOK, CheckGoesOn, process

LEMMA AnswersTypes ==
  ASSUME TypeOK, NEW c \in Callers, NEW allowed \in BOOLEAN, NEW licensed \in BOOLEAN,
         Answers(c, allowed, licensed)
  PROVE  CallTypes
<1>1. /\ serving' \in BOOLEAN /\ jobs' \in BOOLEAN
  <2>1. CASE c = Boot
    BY <2>1 DEF Answers
  <2>2. CASE c # Boot
    BY <2>2 DEF Answers, TypeOK, process
  <2> QED
    BY <2>1, <2>2
<1> QED
  BY <1>1 DEF CallTypes, TypeOK, Answers

\* The operations of status: each keeps the types, and none touches what an import has.
LEMMA CheckTypes ==
  ASSUME TypeOK, NEW c \in Callers, CheckStep(c)
  PROVE  TypeOK' /\ UNCHANGED <<hour, lic, bak, importVars>>
<1> USE LicenseAssumption, GoesOnTypes, AnswersTypes
<1>1. ASSUME CallTypes, UNCHANGED <<hour, lic, bak, importVars>>,
             start' \in 0 .. LastHour \cup {Absent, Torn}, over' \in BOOLEAN,
             trialFrom' \in 0 .. LastHour \cup {Absent}
      PROVE  TypeOK' /\ UNCHANGED <<hour, lic, bak, importVars>>
  BY <1>1 DEF CallTypes, TypeOK, importVars
<1>2. ASSUME CallTypes, UNCHANGED <<hour, licenseFiles, importVars, trialFrom>>
      PROVE  TypeOK' /\ UNCHANGED <<hour, lic, bak, importVars>>
  BY <1>1, <1>2 DEF TypeOK, licenseFiles
<1>3. CASE IsFile(c)
  BY <1>2, <1>3 DEF IsFile
<1>4. CASE Verify(c)
  BY <1>2, <1>4 DEF Verify
<1>5. CASE Unstart(c)
  BY <1>1, <1>5 DEF Unstart, TypeOK
<1>6. CASE Unmark(c)
  BY <1>1, <1>6 DEF Unmark, TypeOK
<1>7. CASE CheckOver(c)
  BY <1>2, <1>7 DEF CheckOver
<1>8. CASE ReadStart(c)
  BY <1>2, <1>8 DEF ReadStart, AfterStart
<1>9. CASE Mark(c)
  BY <1>1, <1>9 DEF Mark, TypeOK
<1>10. CASE LookAgain(c)
  BY <1>2, <1>10 DEF LookAgain
<1>11. CASE CreateStart(c)
  BY <1>1, <1>11 DEF CreateStart, TypeOK
<1>12. CASE WriteStart(c)
  BY <1>1, <1>12 DEF WriteStart, TypeOK
<1> QED
  BY <1>3, <1>4, <1>5, <1>6, <1>7, <1>8, <1>9, <1>10, <1>11, <1>12 DEF CheckStep

\* The operations of status keep the count: the two that let a caller through without
\* a license do so in the grace that is left, or in the hour the count begins.
LEMMA CheckBounds ==
  ASSUME TypeOK, TrialInv, TrialIsBounded, NEW c \in Callers, CheckStep(c)
  PROVE  TrialInv' /\ TrialIsBounded'
<1> USE LicenseAssumption DEF TrialInv, TypeOK
<1>1. ASSUME UNCHANGED <<hour, start, trialFrom>>,
             NEW to \in {"verify", "unstart", "unmark", "over", "start", "mark", "again"},
             CheckGoesOn(c, to)
      PROVE  TrialInv' /\ TrialIsBounded'
  BY <1>1 DEF CheckGoesOn, TrialIsBounded
<1>2. ASSUME NEW same \in BOOLEAN, Answers(c, same, same), UNCHANGED <<hour, start, trialFrom>>
      PROVE  TrialInv' /\ TrialIsBounded'
  BY <1>2 DEF Answers, TrialIsBounded
<1>3. CASE IsFile(c)
  BY <1>1, <1>2, <1>3 DEF IsFile, licenseFiles
<1>4. CASE Verify(c)
  BY <1>1, <1>2, <1>4 DEF Verify, licenseFiles
<1>5. CASE Unstart(c)
  BY <1>5 DEF Unstart, CheckGoesOn, TrialIsBounded
<1>6. CASE Unmark(c)
  BY <1>2, <1>6 DEF Unmark
<1>7. CASE CheckOver(c)
  BY <1>1, <1>2, <1>7 DEF CheckOver, licenseFiles
<1>8. CASE ReadStart(c)
  <2>1. CASE InGrace
    <3>1. TrialInv'
      BY <1>8, <2>1 DEF ReadStart, licenseFiles, Answers
    <3>2. trialFrom # Absent => hour - trialFrom < GraceHours
      BY <2>1 DEF InGrace
    <3>3. answer'.at = hour /\ trialFrom' = trialFrom
      BY <1>8, <2>1 DEF ReadStart, Answers
    <3> QED
      BY <3>1, <3>2, <3>3 DEF TrialIsBounded
  <2>2. CASE ~InGrace
    BY <1>1, <1>8, <2>2 DEF ReadStart, AfterStart, licenseFiles
  <2> QED
    BY <2>1, <2>2
<1>9. CASE Mark(c)
  BY <1>2, <1>9 DEF Mark
<1>10. CASE LookAgain(c)
  <2>1. CASE start = Absent
    BY <1>10, <2>1 DEF LookAgain, licenseFiles, CheckGoesOn, TrialIsBounded
  <2>2. CASE start # Absent
    BY <1>2, <1>10, <2>2 DEF LookAgain, licenseFiles
  <2> QED
    BY <2>1, <2>2
<1>11. CASE CreateStart(c)
  <2>1. trialFrom \in {Absent, hour} /\ trialFrom' = hour /\ hour' = hour
    BY <1>11 DEF CreateStart, CheckAt
  <2>2. TrialInv'
    BY <1>11, <2>1 DEF CreateStart, CheckGoesOn
  <2>3. answer' = answer
    BY <1>11 DEF CreateStart, CheckGoesOn
  <2> QED
    BY <2>1, <2>2, <2>3 DEF TrialIsBounded
<1>12. CASE WriteStart(c)
  <2>1. trialFrom \in {Absent, hour} /\ trialFrom' = trialFrom /\ hour' = hour
    BY <1>12 DEF WriteStart, CheckAt
  <2>2. TrialInv'
    BY <1>12, <2>1 DEF WriteStart, Answers
  <2>3. answer'.at = hour
    BY <1>12 DEF WriteStart, Answers
  <2> QED
    BY <2>1, <2>2, <2>3 DEF TrialIsBounded
<1> QED
  BY <1>3, <1>4, <1>5, <1>6, <1>7, <1>8, <1>9, <1>10, <1>11, <1>12 DEF CheckStep

\* The operations of an import: each keeps the types, the license in force and the count.
LEMMA ImportKeeps == ASSUME LicenseInv, ImportStep PROVE LicenseInv'
<1> USE LicenseAssumption DEF ImportGoesOn
<1>1. ASSUME TypeOK', KeptInv', UNCHANGED <<hour, check, answer, start, trialFrom>>
      PROVE  LicenseInv'
  BY <1>1 DEF LicenseInv, TrialInv, TrialIsBounded
<1>2. ASSUME NEW f \in Licenses, ImportBegins(f) PROVE LicenseInv'
  <2>1. TypeOK'
    BY <1>2 DEF LicenseInv, TypeOK, ImportBegins, Backup, Contents, process
  <2>2. KeptInv'
    BY <1>2 DEF LicenseInv, TypeOK, KeptInv, ImportBegins, Backup
  <2> QED
    BY <1>1, <1>2, <2>1, <2>2 DEF ImportBegins
<1>3. CASE ImportOpens
  <2>1. TypeOK' /\ KeptInv'
    BY <1>3 DEF LicenseInv, TypeOK, KeptInv, ImportOpens, Contents, process
  <2> QED
    BY <1>1, <1>3, <2>1 DEF ImportOpens
<1>4. CASE ImportWrites
  <2>1. TypeOK' /\ KeptInv'
    BY <1>4 DEF LicenseInv, TypeOK, KeptInv, ImportWrites, Contents, process
  <2> QED
    BY <1>1, <1>4, <2>1 DEF ImportWrites
<1>5. CASE WriteFails
  <2>1. TypeOK' /\ KeptInv'
    BY <1>5 DEF LicenseInv, TypeOK, KeptInv, WriteFails, Contents, licenseFiles, process
  <2> QED
    BY <1>1, <1>5, <2>1 DEF WriteFails, licenseFiles
<1>6. CASE ImportVerifies
  <2>1. TypeOK'
    BY <1>6 DEF LicenseInv, TypeOK, ImportVerifies, Verifies, licenseFiles, process
  <2>2. KeptInv'
    BY <1>6 DEF LicenseInv, TypeOK, KeptInv, ImportVerifies, licenseFiles
  <2> QED
    BY <1>1, <1>6, <2>1, <2>2 DEF ImportVerifies, licenseFiles
<1>7. CASE ImportClears
  <2>1. TypeOK'
    BY <1>7 DEF LicenseInv, TypeOK, ImportClears, process
  <2>2. KeptInv'
    BY <1>7 DEF LicenseInv, TypeOK, KeptInv, ImportClears
  <2>3. TrialInv' /\ TrialIsBounded'
    BY <1>7 DEF LicenseInv, TrialInv, TrialIsBounded, ImportClears
  <2> QED
    BY <2>1, <2>2, <2>3 DEF LicenseInv
<1>8. CASE ImportUnmarks
  <2>1. TypeOK'
    BY <1>8 DEF LicenseInv, TypeOK, ImportUnmarks, process
  <2>2. KeptInv'
    BY <1>8 DEF LicenseInv, TypeOK, KeptInv, ImportUnmarks
  <2> QED
    BY <1>1, <1>8, <2>1, <2>2 DEF ImportUnmarks
<1>9. CASE ImportEnds
  <2>1. TypeOK' /\ KeptInv'
    BY <1>9 DEF LicenseInv, TypeOK, KeptInv, ImportEnds, Contents, process
  <2> QED
    BY <1>1, <1>9, <2>1 DEF ImportEnds
<1>10. CASE ImportRefused
  <2>1. TypeOK' /\ KeptInv'
    BY <1>10 DEF LicenseInv, TypeOK, KeptInv, ImportRefused, Contents, process
  <2> QED
    BY <1>1, <1>10, <2>1 DEF ImportRefused
<1>11. CASE ImportRestores
  <2>1. TypeOK' /\ KeptInv'
    BY <1>11 DEF LicenseInv, TypeOK, KeptInv, ImportRestores, Contents, process
  <2> QED
    BY <1>1, <1>11, <2>1 DEF ImportRestores
<1> QED
  BY <1>2, <1>3, <1>4, <1>5, <1>6, <1>7, <1>8, <1>9, <1>10, <1>11 DEF ImportStep

\* Every step keeps the invariant.
LEMMA LicenseStep == LicenseInv /\ [Next]_vars => LicenseInv'
<1> SUFFICES ASSUME LicenseInv, [Next]_vars PROVE LicenseInv'
  OBVIOUS
<1> USE LicenseAssumption
<1>1. ASSUME NEW c \in Callers, CheckStep(c) PROVE LicenseInv'
  <2>1. TypeOK' /\ UNCHANGED <<lic, bak, importVars>>
    BY <1>1, CheckTypes DEF LicenseInv
  <2>2. KeptInv'
    BY <2>1 DEF LicenseInv, KeptInv, importVars
  <2>3. TrialInv' /\ TrialIsBounded'
    BY <1>1, CheckBounds DEF LicenseInv
  <2> QED
    BY <2>1, <2>2, <2>3 DEF LicenseInv
<1>2. CASE Dies
  <2>1. TypeOK'
    BY <1>2 DEF LicenseInv, TypeOK, Dies, licenseFiles
  <2>2. KeptInv'
    BY <1>2 DEF LicenseInv, TypeOK, KeptInv, Dies, licenseFiles
  <2>3. TrialInv' /\ TrialIsBounded'
    BY <1>2 DEF LicenseInv, TrialInv, TrialIsBounded, Dies, licenseFiles
  <2> QED
    BY <2>1, <2>2, <2>3 DEF LicenseInv
<1>3. CASE HourPasses
  <2>1. TypeOK'
    BY <1>3 DEF LicenseInv, TypeOK, HourPasses, licenseFiles, importVars, process
  <2>2. KeptInv'
    BY <1>3 DEF LicenseInv, KeptInv, HourPasses, licenseFiles, importVars
  <2>3. TrialInv' /\ TrialIsBounded'
    <3>1. hour \in Nat /\ answer.at \in Nat /\ hour' = hour + 1
      BY <1>3 DEF LicenseInv, TypeOK, HourPasses
    <3>2. UNCHANGED <<start, trialFrom, answer, check>> /\ \A c \in Callers : check[c] = "idle"
      BY <1>3 DEF HourPasses, licenseFiles
    <3> QED
      BY <3>1, <3>2 DEF LicenseInv, TrialInv, TrialIsBounded
  <2> QED
    BY <2>1, <2>2, <2>3 DEF LicenseInv
<1>4. CASE UNCHANGED vars
  BY <1>4 DEF LicenseInv, TypeOK, TrialInv, KeptInv, TrialIsBounded, vars, licenseFiles,
    importVars, process
<1> QED
  BY <1>1, <1>2, <1>3, <1>4, ImportKeeps DEF Next

\* Every file and mark keeps its type (status, import_file).
THEOREM LicenseTypes == Spec => []TypeOK
<1>1. LicenseInv => TypeOK
  BY DEF LicenseInv
<1> QED
  BY <1>1, LicenseInitially, LicenseStep, PTL DEF Spec

\* A node without a license is let through for grace_hours from the hour its trial
\* began, however calls of status, an import, deaths and restarts interleave (status).
THEOREM BoundedTrial == Spec => []TrialIsBounded
<1>1. LicenseInv => TrialIsBounded
  BY DEF LicenseInv
<1> QED
  BY <1>1, LicenseInitially, LicenseStep, PTL DEF Spec

\* The license in force survives any import, whichever operation of import_file fails or
\* is the last one of the process, but for an import begun over the file that an import
\* which died had not verified (import_file).
THEOREM KeptLicense == Spec => []LicenseIsKept
<1>1. LicenseInv => LicenseIsKept
  BY DEF LicenseInv, KeptInv, LicenseIsKept, TypeOK
<1> QED
  BY <1>1, LicenseInitially, LicenseStep, PTL DEF Spec

-----------------------------------------------------------------------------
(* The caches behind the skills *)

\* What bounds the next answer: a value in Redis outlives its data by no more than the
\* query that read it and the TTL, and a query is no older than MaxQuery.
AgeInv ==
  /\ EvidenceTypeOK
  /\ cached # Missing => cached.until <= cached.read + MaxQuery + CacheTtl
  /\ \A r \in Readers : reading[r] # Missing => reading[r] <= now /\ now - reading[r] <= MaxQuery
  /\ cached # Missing => cached.read <= now
  /\ \A f \in entries : f <= now
  /\ \A s \in Syncs : syncing[s] # Missing => syncing[s] <= now

\* Nothing is cached, read or stored at the start.
LEMMA AgeInit == EvidenceInit => AgeInv /\ AnswersAreRecent
  BY EvidenceAssumption
  DEF EvidenceInit, AgeInv, EvidenceTypeOK, AnswersAreRecent, Time

\* query_asset keeps the bound: a hit answers what the bound is about, a miss starts a
\* query, and its end caches data no older than MaxQuery.
LEMMA AssetAge == AgeInv /\ AnswersAreRecent /\ AssetStep => AgeInv' /\ AnswersAreRecent'
<1> SUFFICES ASSUME AgeInv, AnswersAreRecent, NEW r \in Readers,
                    AssetHit(r) \/ AssetMiss(r) \/ AssetAnswer(r) \/ AssetFails(r)
             PROVE  AgeInv' /\ AnswersAreRecent'
  BY DEF AssetStep
<1> USE EvidenceAssumption DEF AgeInv, AnswersAreRecent, EvidenceTypeOK, Time, intelVars
<1>1. CASE AssetHit(r)
  BY <1>1 DEF AssetHit, InCache, AfterHit
<1>2. CASE AssetMiss(r)
  BY <1>2 DEF AssetMiss
<1>3. CASE AssetAnswer(r)
  <2> DEFINE kept == [read |-> reading[r], until |-> now + CacheTtl]
  <2>1. /\ reading[r] \in Time /\ reading[r] <= now /\ now - reading[r] <= MaxQuery
        /\ now' = now /\ entries' = entries /\ syncing' = syncing
        /\ found' = found /\ intel' = intel
        /\ told' = now - reading[r]
        /\ reading' = [reading EXCEPT ![r] = Missing]
        /\ cached' \in {cached, kept}
    BY <1>3 DEF AssetAnswer
  <2>2. /\ kept \in [read : Time, until : 0 .. LastTime + CacheTtl]
        /\ kept.until <= kept.read + MaxQuery + CacheTtl
        /\ kept.read <= now
    BY <2>1
  <2>3. /\ cached' # Missing => /\ cached'.until <= cached'.read + MaxQuery + CacheTtl
                                /\ cached'.read <= now'
        /\ cached' = Missing \/ cached' \in [read : Time, until : 0 .. LastTime + CacheTtl]
    BY <2>1, <2>2
  <2>4. /\ told' \in Time /\ told' <= CacheTtl + MaxQuery
    BY <2>1
  <2> QED
    BY <2>1, <2>3, <2>4
<1>4. CASE AssetFails(r)
  BY <1>4 DEF AssetFails
<1> QED
  BY <1>1, <1>2, <1>3, <1>4

\* The sync and query_threat_intel keep it: a row's fetched_at is the start of a run.
LEMMA IntelAge == AgeInv /\ AnswersAreRecent /\ IntelStep => AgeInv' /\ AnswersAreRecent'
<1> USE EvidenceAssumption DEF AgeInv, AnswersAreRecent, EvidenceTypeOK, Time, assetVars
<1> SUFFICES ASSUME AgeInv, AnswersAreRecent, IntelStep
             PROVE  AgeInv' /\ AnswersAreRecent'
  OBVIOUS
<1>1. ASSUME NEW s \in Syncs, SyncStarts(s) PROVE AgeInv' /\ AnswersAreRecent'
  <2>1. /\ UNCHANGED <<now, cached, reading, told, entries, found, intel>>
        /\ syncing' \in [Syncs -> Time \cup {Missing}]
        /\ \A u \in Syncs : syncing'[u] # Missing => syncing'[u] <= now
    BY <1>1 DEF SyncStarts
  <2> QED
    BY <2>1
<1>2. ASSUME NEW s \in Syncs, SyncEnds(s) PROVE AgeInv' /\ AnswersAreRecent'
  BY <1>2 DEF SyncEnds
<1>3. ASSUME NEW s \in Syncs, SyncFails(s) PROVE AgeInv' /\ AnswersAreRecent'
  BY <1>3 DEF SyncFails
<1>4. ASSUME NEW s \in Syncs, NEW force \in BOOLEAN, SyncLooksUp(s, force)
      PROVE  AgeInv' /\ AnswersAreRecent'
  BY <1>4 DEF SyncLooksUp
<1>5. ASSUME AskIntel PROVE AgeInv' /\ AnswersAreRecent'
  <2> PICK f \in Unexpired(now) : intel' = now - f
    BY <1>5 DEF AskIntel
  <2>1. f \in Time /\ f <= now /\ f + IntelTtl >= now
    BY DEF Unexpired
  <2>2. intel' \in Time /\ intel' <= IntelTtl
    BY <2>1
  <2> QED
    BY <1>5, <2>2 DEF AskIntel
<1> QED
  BY <1>1, <1>2, <1>3, <1>4, <1>5 DEF IntelStep

\* No investigation is told anything older than the caches allow, whatever queries and
\* syncs overlap, fail or run late (query_asset, query_threat_intel).
THEOREM Recent == EvidenceSpec => []AnswersAreRecent
<1>1. AgeInv /\ AnswersAreRecent /\ [EvidenceNext]_evidenceVars => AgeInv' /\ AnswersAreRecent'
  <2> SUFFICES ASSUME AgeInv, AnswersAreRecent, [EvidenceNext]_evidenceVars
               PROVE  AgeInv' /\ AnswersAreRecent'
    OBVIOUS
  <2>1. CASE AssetStep
    BY <2>1, AssetAge
  <2>2. CASE IntelStep
    BY <2>2, IntelAge
  <2>3. CASE EvidenceTick
    BY <2>3, EvidenceAssumption
    DEF EvidenceTick, AgeInv, AnswersAreRecent, EvidenceTypeOK, Time, assetVars, intelVars
  <2>4. CASE UNCHANGED evidenceVars
    BY <2>4
    DEF evidenceVars, assetVars, intelVars, AgeInv, AnswersAreRecent, EvidenceTypeOK, Time
  <2> QED
    BY <2>1, <2>2, <2>3, <2>4 DEF EvidenceNext
<1> QED
  BY AgeInit, <1>1, PTL DEF EvidenceSpec

-----------------------------------------------------------------------------
(* The names the regression evaluation replaces *)

\* What keeps the stand-ins apart: while a run does anything the key is its own, the key
\* of a run at work does not expire, and only the run that waits has replaced a name.
NamesInv ==
  /\ registry = Nobody
  /\ evidence \in [Investigators -> {"none", "real"}]
  /\ \A r \in Runs : regression[r].pc # "idle" => lock = r
  /\ loader # Nobody => loader \in Runs /\ regression[loader].pc = "asking"
  /\ \A r \in Runs : regression[r].pc = "asking" => regression[r].saved = Nobody
  /\ lock \in Runs \cup {Nobody}

RegressionRows ==
  regression \in [Runs -> [pc : {"idle", "cases", "asking"}, real : BOOLEAN,
                          todo : SUBSET Cases, saved : Runs \cup {Nobody}]]

\* Nothing is replaced at the start.
LEMMA NamesInit == RegressionInit => NamesInv /\ RegressionRows
  BY RegressionAssumption DEF RegressionInit, NamesInv, RegressionRows, Idle

\* A run keeps the names in order: it starts when no other one is at work, so that what
\* it saves is the process's own, and is over with what it saved back in place.
LEMMA RunKeepsNames ==
  ASSUME NamesInv, RegressionRows, NEW r \in Runs, RegressionStep(r)
  PROVE  NamesInv' /\ RegressionRows'
<1> USE RegressionAssumption DEF NamesInv, RegressionRows, Idle
<1>1. CASE Begin(r)
  <2>1. lock = Nobody /\ loader = Nobody /\ lock' = r
    BY <1>1 DEF Begin, KeyIsFree
  <2>2. PICK cs \in SUBSET Cases, real \in BOOLEAN :
          regression' = [regression EXCEPT ![r] = [pc |-> "cases", real |-> real, todo |-> cs,
                                                   saved |-> Nobody]]
    BY <1>1 DEF Begin
  <2>3. RegressionRows'
    BY <2>2
  <2>4. UNCHANGED <<loader, registry, evidence>>
    BY <1>1 DEF Begin
  <2> QED
    BY <2>1, <2>2, <2>3, <2>4
<1>2. CASE JudgeMocked(r)
  BY <1>2 DEF JudgeMocked, PutBack
<1>3. CASE Ask(r)
  <2>1. lock = r /\ loader = Nobody /\ loader' = r /\ UNCHANGED <<registry, lock, evidence>>
    BY <1>3 DEF Ask
  <2>2. regression' = [regression EXCEPT ![r].pc = "asking", ![r].saved = Nobody]
    BY <1>3, <2>1 DEF Ask
  <2>3. RegressionRows'
    <3>1. regression[r] \in [pc : {"idle", "cases", "asking"}, real : BOOLEAN,
                             todo : SUBSET Cases, saved : Runs \cup {Nobody}]
      OBVIOUS
    <3>2. [regression[r] EXCEPT !.pc = "asking", !.saved = Nobody]
            \in [pc : {"idle", "cases", "asking"}, real : BOOLEAN,
                 todo : SUBSET Cases, saved : Runs \cup {Nobody}]
      BY <3>1
    <3> QED
      BY <2>2, <3>2
  <2>4. /\ regression'[r].pc = "asking" /\ regression'[r].saved = Nobody
        /\ \A s \in Runs \ {r} : regression'[s] = regression[s]
    BY <2>2
  <2> QED
    BY <2>1, <2>3, <2>4
<1>4. CASE Answered(r)
  <2>1. lock = r /\ loader' = Nobody
    BY <1>4 DEF Answered
  <2>2. \A s \in Runs : regression[s].pc = "asking" => s = r
    BY <2>1
  <2>3. registry' = registry /\ evidence' = evidence
    BY <1>4 DEF Answered
  <2>4. CASE EndRun(r)
    BY <2>1, <2>2, <2>3, <2>4 DEF EndRun
  <2>5. CASE ~EndRun(r)
    BY <1>4, <2>1, <2>2, <2>3, <2>5 DEF Answered
  <2> QED
    BY <2>4, <2>5
<1>5. CASE Finish(r)
  BY <1>5 DEF Finish, EndRun
<1> QED
  BY <1>1, <1>2, <1>3, <1>4, <1>5 DEF RegressionStep

\* So does everything around the runs, as long as the key of a run at work stays.
LEMMA RestKeepsNames ==
  ASSUME NamesInv, RegressionRows, ~MayOverrun,
         \/ \E n \in Investigators : CallSkill(n) \/ EndLoop(n)
         \/ ProcessDies \/ KeyExpires \/ UNCHANGED regressionVars
  PROVE  NamesInv' /\ RegressionRows'
<1> USE RegressionAssumption DEF NamesInv, RegressionRows, Idle
<1>1. ASSUME NEW n \in Investigators, CallSkill(n) \/ EndLoop(n)
      PROVE  NamesInv' /\ RegressionRows'
  BY <1>1 DEF CallSkill, EndLoop
<1>2. CASE ProcessDies
  BY <1>2 DEF ProcessDies
<1>3. CASE KeyExpires
  <2>1. \A r \in Runs : regression[r].pc = "idle"
    BY <1>3 DEF KeyExpires
  <2> QED
    BY <1>3, <2>1 DEF KeyExpires
<1>4. CASE UNCHANGED regressionVars
  BY <1>4 DEF regressionVars
<1> QED
  BY <1>1, <1>2, <1>3, <1>4

\* As long as no run outlasts its key: no real investigation is answered by a mock skill
\* and no stand-in outlives the case that put it in place (_run_case, regression_lock).
THEOREM NamesComeBack == ASSUME ~MayOverrun PROVE RegressionSpec => []StandInsAreGone
<1>1. NamesInv /\ RegressionRows => StandInsAreGone
  BY DEF NamesInv, StandInsAreGone
<1>2. NamesInv /\ RegressionRows /\ [RegressionNext]_regressionVars
        => NamesInv' /\ RegressionRows'
  BY RunKeepsNames, RestKeepsNames DEF RegressionNext
<1> QED
  BY <1>1, <1>2, NamesInit, PTL DEF RegressionSpec

-----------------------------------------------------------------------------
(* The imports of the entity graph *)

GraphRows ==
  /\ rows \in [Edges -> [Importers -> Data \cup {Nothing}]]
  /\ file \in [Importers -> Files \cup {Nothing}]
  /\ line \in [Importers -> Nat \ {0}]
  /\ written \in [Importers -> [Edges -> [by : Importers, data : Data] \cup {Nothing}]]
  /\ overlapped \in [Importers -> BOOLEAN]

\* Line i, one that p has dealt with, is about e; it is the last one so far.
IsAbout(p, e, i) == i \in 1..(line[p] - 1) /\ Lines[file[p]][i].edge = e

IsLastAbout(p, e, i) == IsAbout(p, e, i) /\ \A j \in 1..(line[p] - 1) : IsAbout(p, e, j) => j <= i

\* What the transaction of p has written is what its lines so far say, and none of them
\* was refused.
FollowsLines(p) ==
  /\ line[p] <= Len(Lines[file[p]]) + 1
  /\ \A i \in 1..(line[p] - 1) : Lines[file[p]][i] # BadLine
  /\ \A e \in Edges : written[p][e] = Nothing => \A i \in 1..(line[p] - 1) : ~IsAbout(p, e, i)
  /\ \A e \in Edges : written[p][e] # Nothing =>
       \E i \in 1..(line[p] - 1) :
         /\ IsLastAbout(p, e, i)
         /\ file[p] \notin SeedFiles => written[p][e].data = Lines[file[p]][i].data

WrittenInv ==
  \A p \in Importers :
    /\ file[p] = Nothing => written[p] = Unwritten /\ line[p] = 1
    /\ file[p] # Nothing => FollowsLines(p)

\* As long as nobody else commits, the row p has written is the only one of its edge,
\* and the seed has found in it what it writes.
AloneInv ==
  \A p \in Importers, e \in Edges :
    ~overlapped[p] /\ written[p][e] # Nothing =>
      \A q \in Importers : rows[e][q] # Nothing =>
        /\ q = written[p][e].by
        /\ file[p] \in SeedFiles => written[p][e].data = rows[e][q]

GraphInv == GraphRows /\ WrittenInv /\ AloneInv

\* No run has read a line at the start.
LEMMA GraphInitially == GraphInit => GraphInv
  BY EntityGraphAssumption
  DEF GraphInit, GraphInv, GraphRows, WrittenInv, AloneInv, Unwritten

\* The end of a transaction leaves the run without lines and rows of its own.
LEMMA EndedRun ==
  ASSUME GraphRows, NEW p \in Importers, LoadEnds(p)
  PROVE  /\ file' \in [Importers -> Files \cup {Nothing}]
         /\ line' \in [Importers -> Nat \ {0}]
         /\ written' \in [Importers -> [Edges -> [by : Importers, data : Data] \cup {Nothing}]]
         /\ file'[p] = Nothing /\ line'[p] = 1 /\ written'[p] = Unwritten
         /\ \A q \in Importers \ {p} : /\ file'[q] = file[q] /\ line'[q] = line[q]
                                       /\ written'[q] = written[q]
  BY DEF GraphRows, LoadEnds, Unwritten

\* A run that a step does not touch still follows its lines.
LEMMA FollowsStays ==
  ASSUME NEW q \in Importers, FollowsLines(q),
         file'[q] = file[q], line'[q] = line[q], written'[q] = written[q]
  PROVE  FollowsLines(q)'
  BY DEF FollowsLines, IsAbout, IsLastAbout

\* Lines are rows of an edge, but for those that are refused.
LEMMA LineIsRow ==
  ASSUME NEW f \in Files, NEW i \in 1..Len(Lines[f]), Lines[f][i] # BadLine
  PROVE  Lines[f][i] \in [edge : Edges, data : Data]
  BY EntityGraphAssumption

\* One match at most: the row of a line is that match, and the only one.
LEMMA RowIsTheMatch ==
  ASSUME NEW p \in Importers, NEW e \in Edges, Cardinality(Matches(p, e)) < 2
  PROVE  /\ RowFor(p, e) \in Importers
         /\ Matches(p, e) = {} => RowFor(p, e) = p
         /\ Matches(p, e) # {} => RowFor(p, e) \in Matches(p, e)
         /\ \A q \in Matches(p, e) : q = RowFor(p, e)
<1>1. IsFiniteSet(Matches(p, e)) /\ Matches(p, e) \subseteq Importers
  BY FS_Subset, EntityGraphAssumption DEF Matches
<1>2. ASSUME NEW a \in Matches(p, e), NEW b \in Matches(p, e), a # b
      PROVE  FALSE
  <2>1. {a, b} \subseteq Matches(p, e)
    OBVIOUS
  <2>2. IsFiniteSet({b}) /\ Cardinality({b}) = 1
    BY FS_Singleton
  <2>3. Cardinality({b} \cup {a}) = Cardinality({b}) + 1
    BY <1>2, <2>2, FS_AddElement
  <2>4. {b} \cup {a} = {a, b}
    OBVIOUS
  <2>5. Cardinality({a, b}) = 2
    BY <2>2, <2>3, <2>4
  <2>6. Cardinality({a, b}) <= Cardinality(Matches(p, e))
    BY <1>1, <2>1, FS_Subset
  <2>7. Cardinality(Matches(p, e)) \in Nat
    BY <1>1, FS_CardinalityType
  <2> QED
    BY <2>5, <2>6, <2>7
<1>3. Matches(p, e) # {} => RowFor(p, e) \in Matches(p, e)
  BY DEF RowFor
<1>4. Matches(p, e) = {} => RowFor(p, e) = p
  BY DEF RowFor
<1> QED
  BY <1>1, <1>2, <1>3, <1>4

LEMMA BeginKeeps ==
  ASSUME GraphInv, NEW p \in Importers, NEW f \in Files, LoadBegins(p, f)
  PROVE  GraphInv'
<1> USE EntityGraphAssumption DEF GraphInv
<1>1. GraphRows'
  BY DEF GraphRows, LoadBegins
<1>2. written[p] = Unwritten /\ line[p] = 1
  BY DEF WrittenInv, LoadBegins
<1>3. FollowsLines(p)'
  <2>1. line'[p] = 1 /\ written'[p] = Unwritten /\ file'[p] = f /\ 1..(1 - 1) = {}
    BY <1>2 DEF LoadBegins, GraphRows
  <2>2. Len(Lines[f]) \in Nat
    OBVIOUS
  <2> QED
    BY <2>1, <2>2 DEF FollowsLines, Unwritten
<1>4. WrittenInv'
  <2> SUFFICES ASSUME NEW q \in Importers
               PROVE  /\ file'[q] = Nothing => written'[q] = Unwritten /\ line'[q] = 1
                      /\ file'[q] # Nothing => FollowsLines(q)'
    BY DEF WrittenInv, Unwritten
  <2>1. CASE q = p
    BY <1>3, <2>1 DEF LoadBegins, GraphRows
  <2>2. CASE q # p
    <3>1. file'[q] = file[q] /\ line'[q] = line[q] /\ written'[q] = written[q]
      BY <2>2 DEF LoadBegins, GraphRows
    <3> QED
      BY <3>1, FollowsStays DEF WrittenInv
  <2> QED
    BY <2>1, <2>2
<1>5. AloneInv'
  <2>1. \A q \in Importers, e \in Edges : written'[q][e] # Nothing => file'[q] = file[q]
    BY <1>2 DEF LoadBegins, GraphRows, Unwritten
  <2> QED
    BY <2>1 DEF AloneInv, LoadBegins
<1> QED
  BY <1>1, <1>4, <1>5

LEMMA FailKeeps ==
  ASSUME GraphInv, NEW p \in Importers, LoadFails(p)
  PROVE  GraphInv'
<1> USE DEF GraphInv
<1>1. LoadEnds(p) /\ rows' = rows
  BY DEF LoadFails
<1>2. GraphRows'
  BY <1>1, EndedRun DEF GraphRows, LoadFails
<1>3. WrittenInv'
  <2> SUFFICES ASSUME NEW q \in Importers
               PROVE  /\ file'[q] = Nothing => written'[q] = Unwritten /\ line'[q] = 1
                      /\ file'[q] # Nothing => FollowsLines(q)'
    BY DEF WrittenInv, Unwritten
  <2> QED
    BY <1>1, EndedRun, FollowsStays DEF WrittenInv
<1>4. AloneInv'
  <2> SUFFICES ASSUME NEW q \in Importers, NEW e \in Edges, ~overlapped'[q],
                      written'[q][e] # Nothing
               PROVE  \A r \in Importers : rows[e][r] # Nothing =>
                        /\ r = written'[q][e].by
                        /\ file'[q] \in SeedFiles => written'[q][e].data = rows[e][r]
    BY <1>1 DEF AloneInv
  <2>1. q # p
    BY <1>1, EndedRun DEF Unwritten
  <2>2. file'[q] = file[q] /\ written'[q] = written[q] /\ overlapped'[q] = overlapped[q]
    BY <1>1, <2>1, EndedRun DEF LoadFails, GraphRows
  <2> QED
    BY <2>2 DEF AloneInv
<1> QED
  BY <1>2, <1>3, <1>4

LEMMA CommitsKeep ==
  ASSUME GraphInv, NEW p \in Importers, LoadCommits(p)
  PROVE  GraphInv'
<1> USE DEF GraphInv
<1>1. LoadEnds(p)
  BY DEF LoadCommits
<1>2. GraphRows'
  <2>1. rows' \in [Edges -> [Importers -> Data \cup {Nothing}]]
    BY DEF GraphRows, LoadCommits
  <2>2. overlapped' \in [Importers -> BOOLEAN]
    BY DEF LoadCommits
  <2> QED
    BY <1>1, <2>1, <2>2, EndedRun DEF GraphRows
<1>3. WrittenInv'
  <2> SUFFICES ASSUME NEW q \in Importers
               PROVE  /\ file'[q] = Nothing => written'[q] = Unwritten /\ line'[q] = 1
                      /\ file'[q] # Nothing => FollowsLines(q)'
    BY DEF WrittenInv, Unwritten
  <2> QED
    BY <1>1, EndedRun, FollowsStays DEF WrittenInv
<1>4. AloneInv'
  <2> SUFFICES ASSUME NEW q \in Importers, NEW e \in Edges, ~overlapped'[q],
                      written'[q][e] # Nothing
               PROVE  FALSE
    BY DEF AloneInv
  <2>1. q # p
    BY <1>1, EndedRun DEF Unwritten
  <2>2. written[q] = written'[q] /\ file[q] # Nothing
    BY <1>1, <2>1, EndedRun DEF WrittenInv, Unwritten
  <2> QED
    BY <2>1, <2>2 DEF LoadCommits
<1> QED
  BY <1>2, <1>3, <1>4

\* The line goes to the only row of its edge, or to a new one; the seed writes what it
\* has found.
LEMMA LineKeeps ==
  ASSUME GraphInv, NEW p \in Importers, LoadLine(p)
  PROVE  GraphInv'
<1> USE EntityGraphAssumption DEF GraphInv
<1> DEFINE f == file[p]
           n == line[p]
           l == Lines[f][n]
           d == l.edge
           new == [by |-> RowFor(p, d), data |-> LineData(p, l)]
<1>1. /\ f \in Files /\ n \in 1..Len(Lines[f]) /\ l # BadLine
      /\ Cardinality(Matches(p, d)) < 2
      /\ written' = [written EXCEPT ![p][d] = new]
      /\ line' = [line EXCEPT ![p] = @ + 1]
      /\ UNCHANGED <<rows, file, overlapped>>
  BY DEF LoadLine, GraphRows
<1>2. l \in [edge : Edges, data : Data] /\ d \in Edges
  BY <1>1, LineIsRow
<1>3. /\ RowFor(p, d) \in Importers
      /\ Matches(p, d) = {} => RowFor(p, d) = p
      /\ Matches(p, d) # {} => RowFor(p, d) \in Matches(p, d)
      /\ \A q \in Matches(p, d) : q = RowFor(p, d)
  BY <1>1, <1>2, RowIsTheMatch
<1>4. new \in [by : Importers, data : Data]
  <2>1. CASE f \in SeedFiles /\ Matches(p, d) # {}
    <3> DEFINE q == RowFor(p, d)
    <3>1. LineData(p, l) = Says(p, d, q)
      BY <2>1 DEF LineData
    <3>2. CASE written[p][d] # Nothing /\ written[p][d].by = q
      <4>1. written[p][d].data \in Data
        BY <1>2, <3>2 DEF GraphRows
      <4>2. LineData(p, l) = written[p][d].data
        BY <3>1, <3>2 DEF Says
      <4> QED
        BY <1>3, <4>1, <4>2
    <3>3. CASE ~(written[p][d] # Nothing /\ written[p][d].by = q)
      <4>1. rows[d][q] # Nothing
        BY <1>3, <2>1, <3>3 DEF Matches
      <4>2. rows[d][q] \in Data
        BY <1>2, <1>3, <4>1 DEF GraphRows
      <4>3. LineData(p, l) = rows[d][q]
        BY <3>1, <3>3 DEF Says
      <4> QED
        BY <1>3, <4>2, <4>3
    <3> QED
      BY <3>2, <3>3
  <2>2. CASE ~(f \in SeedFiles /\ Matches(p, d) # {})
    BY <1>2, <1>3, <2>2 DEF LineData
  <2> QED
    BY <2>1, <2>2
<1> HIDE DEF new
<1>5. new # Nothing
  BY <1>4
<1>6. /\ \A q \in Importers \ {p} : written'[q] = written[q] /\ line'[q] = line[q]
      /\ \A e \in Edges \ {d} : written'[p][e] = written[p][e]
      /\ written'[p][d] = new /\ line'[p] = n + 1
  BY <1>1, <1>2 DEF GraphRows
<1>7. GraphRows'
  BY <1>1, <1>2, <1>4 DEF GraphRows
<1>8. FollowsLines(p)'
  <2>1. FollowsLines(p) /\ n \in Nat \ {0} /\ Len(Lines[f]) \in Nat
    BY <1>1 DEF WrittenInv, GraphRows
  <2>2. 1..(line'[p] - 1) = 1..(n - 1) \cup {n}
    BY <1>6, <2>1
  <2>3. \A e \in Edges : \A i : IsAbout(p, e, i)' <=> IsAbout(p, e, i) \/ (i = n /\ e = d)
    BY <1>1, <2>1, <2>2 DEF IsAbout
  <2>4. \A i \in 1..(line'[p] - 1) : Lines[f][i] # BadLine
    BY <1>1, <2>1, <2>2 DEF FollowsLines
  <2>5. ASSUME NEW e \in Edges, written'[p][e] = Nothing
        PROVE  \A i \in 1..(line'[p] - 1) : ~IsAbout(p, e, i)'
    <3>1. e # d /\ written[p][e] = Nothing
      BY <1>5, <1>6, <2>5
    <3> QED
      BY <2>1, <2>2, <2>3, <3>1 DEF FollowsLines, IsAbout
  <2>6. ASSUME NEW e \in Edges, written'[p][e] # Nothing
        PROVE  \E i \in 1..(line'[p] - 1) :
                 /\ IsLastAbout(p, e, i)'
                 /\ f \notin SeedFiles => written'[p][e].data = Lines[f][i].data
    <3>1. CASE e = d
      <4>0. PICK m : m = n
        OBVIOUS
      <4>1. IsLastAbout(p, e, m)'
        <5>1. IsAbout(p, e, m)'
          BY <2>3, <3>1, <4>0
        <5>2. \A j \in 1..(line'[p] - 1) : j <= m
          BY <2>1, <2>2, <4>0
        <5> QED
          BY <5>1, <5>2 DEF IsLastAbout
      <4>2. new.data = LineData(p, l) /\ (f \notin SeedFiles => LineData(p, l) = l.data)
        BY DEF new, LineData
      <4>3. f \notin SeedFiles => written'[p][d].data = Lines[f][n].data
        BY <1>6, <4>2
      <4>4. m \in 1..(line'[p] - 1)
        BY <2>2, <4>0
      <4> QED
        BY <3>1, <4>0, <4>1, <4>3, <4>4
    <3>2. CASE e # d
      <4>1. PICK i \in 1..(n - 1) :
              /\ IsLastAbout(p, e, i)
              /\ f \notin SeedFiles => written[p][e].data = Lines[f][i].data
        BY <1>6, <2>1, <2>6, <3>2 DEF FollowsLines
      <4>2. IsLastAbout(p, e, i)'
        <5>1. IsAbout(p, e, i)'
          BY <2>3, <4>1 DEF IsLastAbout
        <5>2. ASSUME NEW j \in 1..(line'[p] - 1), IsAbout(p, e, j)' PROVE j <= i
          BY <2>3, <3>2, <4>1, <5>2 DEF IsLastAbout, IsAbout
        <5> QED
          BY <5>1, <5>2 DEF IsLastAbout
      <4> QED
        BY <1>6, <2>2, <2>6, <3>2, <4>1, <4>2
    <3> QED
      BY <3>1, <3>2
  <2>7. line'[p] <= Len(Lines[f]) + 1
    <3>1. n <= Len(Lines[f]) /\ line'[p] = n + 1
      BY <1>1, <1>6, <2>1
    <3> HIDE DEF n, f
    <3> QED
      BY <2>1, <3>1
  <2>8. file'[p] = f
    BY <1>1
  <2> HIDE DEF f
  <2> QED
    BY <2>4, <2>5, <2>6, <2>7, <2>8 DEF FollowsLines
<1>9. WrittenInv'
  <2> SUFFICES ASSUME NEW q \in Importers
               PROVE  /\ file'[q] = Nothing => written'[q] = Unwritten /\ line'[q] = 1
                      /\ file'[q] # Nothing => FollowsLines(q)'
    BY DEF WrittenInv, Unwritten
  <2>1. CASE q = p
    BY <1>1, <1>8, <2>1
  <2>2. CASE q # p
    <3>1. written'[q] = written[q] /\ line'[q] = line[q] /\ file'[q] = file[q]
      BY <1>1, <1>6, <2>2
    <3> QED
      BY <1>1, <3>1, FollowsStays DEF WrittenInv
  <2> QED
    BY <2>1, <2>2
<1>10. AloneInv'
  <2> SUFFICES ASSUME NEW q \in Importers, NEW e \in Edges, NEW r \in Importers,
                      ~overlapped[q], written'[q][e] # Nothing, rows[e][r] # Nothing
               PROVE  /\ r = written'[q][e].by
                      /\ file[q] \in SeedFiles => written'[q][e].data = rows[e][r]
    BY <1>1 DEF AloneInv
  <2>1. CASE q # p \/ e # d
    <3>1. written'[q][e] = written[q][e]
      <4>1. CASE q # p
        BY <1>6, <4>1
      <4>2. CASE q = p /\ e # d
        BY <1>6, <4>2
      <4> QED
        BY <2>1, <4>1, <4>2
    <3> QED
      BY <3>1 DEF AloneInv
  <2>2. CASE q = p /\ e = d
    <3>1. r \in Matches(p, d) /\ r = RowFor(p, d)
      BY <1>3, <2>2 DEF Matches
    <3>2. new.by = r
      BY <3>1 DEF new
    <3>3. ASSUME f \in SeedFiles PROVE new.data = rows[d][r]
      <4>1. new.data = Says(p, d, r)
        BY <3>1, <3>3 DEF new, LineData
      <4>2. CASE written[p][d] # Nothing /\ written[p][d].by = r
        <5>1. new.data = written[p][d].data
          BY <4>1, <4>2 DEF Says
        <5>2. /\ d \in Edges /\ rows[d][r] # Nothing /\ ~overlapped[p]
              /\ file[p] \in SeedFiles
          BY <1>2, <2>2, <3>3
        <5>3. written[p][d].data = rows[d][r]
          <6> HIDE DEF d
          <6> QED
            BY <4>2, <5>2 DEF AloneInv
        <5> QED
          BY <5>1, <5>3
      <4>3. CASE ~(written[p][d] # Nothing /\ written[p][d].by = r)
        BY <4>1, <4>3 DEF Says
      <4> QED
        BY <4>2, <4>3
    <3> QED
      BY <1>6, <2>2, <3>2, <3>3
  <2> QED
    BY <2>1, <2>2
<1> QED
  BY <1>7, <1>9, <1>10

LEMMA GraphStep == ASSUME GraphInv, [GraphNext]_graphVars PROVE GraphInv'
<1>1. ASSUME NEW p \in Importers, NEW f \in Files, LoadBegins(p, f) PROVE GraphInv'
  BY <1>1, BeginKeeps
<1>2. ASSUME NEW p \in Importers, LoadLine(p) \/ LoadCommits(p) \/ LoadFails(p) PROVE GraphInv'
  BY <1>2, LineKeeps, CommitsKeep, FailKeeps
<1>3. CASE AskGraph \/ SkipVisited \/ AddLeaf \/ Expand \/ AnswerGraph \/ UNCHANGED graphVars
  <2>1. UNCHANGED <<rows, file, line, written, overlapped>>
    BY <1>3 DEF AskGraph, SkipVisited, AddLeaf, Expand, AnswerGraph, graphVars, importVarsOf
  <2> QED
    BY <2>1 DEF GraphInv, GraphRows, WrittenInv, AloneInv, FollowsLines, IsLastAbout, IsAbout,
       Unwritten
<1> QED
  BY <1>1, <1>2, <1>3 DEF GraphNext

\* A commit that nobody overlapped stores each edge of the file once, as its last line
\* says, and no other edge.
LEMMA WholeFile ==
  ASSUME GraphInv, NEW p \in Importers, LoadCommits(p), ~overlapped[p], NEW e \in Edges
  PROVE  LET f == file[p]
             ls == {i \in DOMAIN Lines[f] : Lines[f][i] = BadLine \/ Lines[f][i].edge = e}
             stored == {q \in Importers : rows'[e][q] # Nothing}
         IN IF ls = {} THEN rows'[e] = rows[e]
            ELSE /\ \A i \in ls : Lines[f][i] # BadLine
                 /\ Cardinality(stored) = 1
                 /\ f \notin SeedFiles => \A q \in stored : rows'[e][q] = LastLine(f, e).data
                 /\ f \in SeedFiles => \A q \in Importers : rows[e][q] # Nothing => rows'[e] = rows[e]
<1> USE EntityGraphAssumption DEF GraphInv
<1> DEFINE f == file[p]
           ls == {i \in DOMAIN Lines[f] : Lines[f][i] = BadLine \/ Lines[f][i].edge = e}
           stored == {q \in Importers : rows'[e][q] # Nothing}
           w == written[p][e]
<1>1. f \in Files /\ FollowsLines(p) /\ line[p] = Len(Lines[f]) + 1
  <2>1. f \in Files /\ FollowsLines(p) /\ line[p] > Len(Lines[f]) /\ line[p] \in Nat
    BY DEF LoadCommits, WrittenInv, GraphRows
  <2> QED
    BY <2>1 DEF FollowsLines
<1>2. DOMAIN Lines[f] = 1..(line[p] - 1) /\ Len(Lines[f]) \in Nat
  BY <1>1
<1>3. \A i \in DOMAIN Lines[f] : Lines[f][i] # BadLine
  BY <1>1, <1>2 DEF FollowsLines
<1>4. rows'[e] = IF w = Nothing THEN rows[e] ELSE [rows[e] EXCEPT ![w.by] = w.data]
  BY DEF LoadCommits
<1>5. CASE w = Nothing
  <2>1. ls = {}
    BY <1>1, <1>2, <1>3, <1>5 DEF FollowsLines, IsAbout
  <2> QED
    BY <1>4, <1>5, <2>1
<1>6. CASE w # Nothing
  <2>1. w \in [by : Importers, data : Data] /\ w.data # Nothing
    BY <1>6 DEF GraphRows
  <2>2. PICK i \in 1..(line[p] - 1) :
          IsLastAbout(p, e, i) /\ (f \notin SeedFiles => w.data = Lines[f][i].data)
    BY <1>1, <1>6 DEF FollowsLines
  <2>3. ls # {}
    BY <1>2, <2>2 DEF IsLastAbout, IsAbout
  <2>4. \A q \in Importers : rows'[e][q] = IF q = w.by THEN w.data ELSE rows[e][q]
    BY <1>4, <1>6, <2>1 DEF GraphRows
  <2>5. \A q \in Importers : rows[e][q] # Nothing
          => q = w.by /\ (f \in SeedFiles => w.data = rows[e][q])
    BY <1>6 DEF AloneInv
  <2>6. stored = {w.by}
    BY <2>1, <2>4, <2>5
  <2>7. Cardinality(stored) = 1
    BY <2>6, FS_Singleton
  <2>8. LastLine(f, e) = Lines[f][i]
    <3> DEFINE at == {j \in DOMAIN Lines[f] : Lines[f][j] # BadLine /\ Lines[f][j].edge = e}
    <3>1. i \in at /\ \A j \in at : j <= i
      BY <1>2, <1>3, <2>2 DEF IsLastAbout, IsAbout
    <3>2. \A k \in at : (\A j \in at : j <= k) => k = i
      BY <1>2, <3>1
    <3>3. (CHOOSE k \in at : \A j \in at : j <= k) = i
      BY <3>1, <3>2
    <3> QED
      BY <3>3 DEF LastLine
  <2>9. f \notin SeedFiles => \A q \in stored : rows'[e][q] = LastLine(f, e).data
    BY <2>1, <2>2, <2>4, <2>6, <2>8
  <2>10. ASSUME f \in SeedFiles, NEW q \in Importers, rows[e][q] # Nothing
         PROVE  rows'[e] = rows[e]
    BY <1>4, <1>6, <2>1, <2>5, <2>10 DEF GraphRows
  <2> QED
    BY <1>3, <2>3, <2>7, <2>9, <2>10
<1> QED
  BY <1>5, <1>6

\* For any files, any seeds and any number of runs and walks at a time: an import that no
\* other commit overlaps changes the relations as its whole file says, or not at all
\* (import_relations_jsonl, seed_entity_assets).
THEOREM WholeImports == GraphSpec => ImportsAreWhole
<1> DEFINE Whole ==
      \A p \in Importers :
        rows' # rows /\ file[p] # Nothing /\ file'[p] = Nothing /\ ~overlapped[p] =>
          \A e \in Edges :
            LET f == file[p]
                ls == {i \in DOMAIN Lines[f] : Lines[f][i] = BadLine \/ Lines[f][i].edge = e}
                stored == {q \in Importers : rows'[e][q] # Nothing}
            IN IF ls = {} THEN rows'[e] = rows[e]
               ELSE /\ \A i \in ls : Lines[f][i] # BadLine
                    /\ Cardinality(stored) = 1
                    /\ f \notin SeedFiles => \A q \in stored : rows'[e][q] = LastLine(f, e).data
                    /\ f \in SeedFiles => \A q \in Importers : rows[e][q] # Nothing => rows'[e] = rows[e]
<1>1. ASSUME GraphInv, [GraphNext]_graphVars, NEW p \in Importers,
             rows' # rows, file[p] # Nothing, file'[p] = Nothing
      PROVE  LoadCommits(p)
  <2>1. PICK q \in Importers : LoadCommits(q)
    BY <1>1 DEF GraphNext, LoadBegins, LoadLine, LoadFails, AskGraph, SkipVisited, AddLeaf,
       Expand, AnswerGraph, graphVars
  <2>2. q = p
    BY <1>1, <2>1, EndedRun DEF LoadCommits, GraphInv
  <2> QED
    BY <2>1, <2>2
<1>2. GraphInv /\ [GraphNext]_graphVars => [Whole]_graphVars
  <2>1. ASSUME GraphInv, [GraphNext]_graphVars PROVE Whole
    BY <1>1, <2>1, WholeFile
  <2> QED
    BY <2>1
<1> QED
  BY <1>2, GraphInitially, GraphStep, PTL DEF GraphSpec, ImportsAreWhole

-----------------------------------------------------------------------------
(* The neighbourhood.  Its definition is recursive and the relations change, so it   *)
(* is given the relations as a parameter; that the recursive function exists, and    *)
(* what it says of the numbers up to n, follows from the least counterexample.       *)

\* The natural numbers are well founded.
LEMMA LeastNumber ==
  ASSUME NEW T \in SUBSET Nat, T # {}
  PROVE  \E n \in T : \A m \in T : n <= m
<1>1. PICK n \in T : \A m \in T : ~(<<m, n>> \in OpToRel(<, Nat))
  BY NatLessThanWellFounded, WFMin
<1>2. \A m \in T : ~(m < n)
  BY <1>1 DEF OpToRel
<1> QED
  BY <1>2

\* Induction over the natural numbers, for a set of them.
LEMMA AllNumbers ==
  ASSUME NEW T \in SUBSET Nat, 0 \in T, \A n \in Nat : n \in T => n + 1 \in T
  PROVE  T = Nat
<1> SUFFICES ASSUME Nat \ T # {} PROVE FALSE
  OBVIOUS
<1>1. PICK n \in Nat \ T : \A m \in Nat \ T : n <= m
  <2>1. Nat \ T \in SUBSET Nat
    OBVIOUS
  <2> QED
    BY <2>1, LeastNumber
<1>2. n # 0 /\ n - 1 \in Nat
  BY <1>1
<1>3. n - 1 \in T
  BY <1>1, <1>2
<1>4. (n - 1) + 1 \in T
  BY <1>2, <1>3
<1> QED
  BY <1>1, <1>4

RelationsIn(w, n) ==
  {r \in Edges \X Importers : w[r[1]][r[2]] \in Current /\ n \in {From[r[1]], To[r[1]]}}

Grown(w, X) == X \cup UNION {{Neighbour(n, r) : r \in RelationsIn(w, n)} : n \in X}

\* Ball under the relations w.
BallIn(w) == CHOOSE f : f = [k \in Nat |-> IF k = 0 THEN {Seed} ELSE Grown(w, f[k - 1])]

LEMMA BallIs == Ball = BallIn(rows)
  BY DEF Ball, BallIn, Grown, RelationsIn, Relations

LEMMA BallNext == Ball' = BallIn(rows')
  BY DEF Ball, BallIn, Grown, RelationsIn, Relations, Neighbour

\* f is the neighbourhood as far as n.
Grows(w, n, f) ==
  /\ f = [k \in 0..n |-> f[k]]
  /\ f[0] = {Seed}
  /\ \A k \in 1..n : f[k] = Grown(w, f[k - 1])

LEMMA GrowsExists == ASSUME NEW w PROVE \A n \in Nat : \E f : Grows(w, n, f)
<1> DEFINE T == {n \in Nat : \E f : Grows(w, n, f)}
<1>1. 0 \in T
  <2>1. Grows(w, 0, [k \in 0..0 |-> {Seed}])
    BY DEF Grows
  <2> QED
    BY <2>1
<1>2. ASSUME NEW n \in Nat, n \in T PROVE n + 1 \in T
  <2>1. PICK f : Grows(w, n, f)
    BY <1>2
  <2> DEFINE g == [k \in 0..(n + 1) |-> IF k = n + 1 THEN Grown(w, f[n]) ELSE f[k]]
  <2>2. Grows(w, n + 1, g)
    <3>1. g = [k \in 0..(n + 1) |-> g[k]] /\ g[0] = {Seed}
      BY <2>1 DEF Grows
    <3>2. ASSUME NEW k \in 1..(n + 1) PROVE g[k] = Grown(w, g[k - 1])
      <4>1. CASE k = n + 1
        BY <4>1
      <4>2. CASE k # n + 1
        <5>1. k \in 1..n /\ g[k] = f[k] /\ g[k - 1] = f[k - 1]
          BY <4>2
        <5> QED
          BY <2>1, <5>1 DEF Grows
      <4> QED
        BY <4>1, <4>2
    <3> QED
      BY <3>1, <3>2 DEF Grows
  <2> QED
    BY <2>2
<1>3. T = Nat
  <2> HIDE DEF T
  <2>1. T \in SUBSET Nat
    BY DEF T
  <2> QED
    BY <1>1, <1>2, <2>1, AllNumbers
<1> QED
  BY <1>3

LEMMA GrowsAgree ==
  ASSUME NEW w, NEW m \in Nat, NEW n \in Nat, m <= n, NEW f, NEW g, Grows(w, m, f), Grows(w, n, g)
  PROVE  \A k \in 0..m : f[k] = g[k]
<1> DEFINE T == {k \in Nat : k <= m => f[k] = g[k]}
<1>1. 0 \in T
  BY DEF Grows
<1>2. ASSUME NEW k \in Nat, k \in T PROVE k + 1 \in T
  <2> SUFFICES ASSUME k + 1 <= m PROVE f[k + 1] = g[k + 1]
    OBVIOUS
  <2>1. f[k] = g[k] /\ k + 1 \in 1..m /\ k + 1 \in 1..n /\ (k + 1) - 1 = k
    BY <1>2
  <2> QED
    BY <2>1 DEF Grows
<1>3. T = Nat
  <2> HIDE DEF T
  <2>1. T \in SUBSET Nat
    BY DEF T
  <2> QED
    BY <1>1, <1>2, <2>1, AllNumbers
<1> QED
  BY <1>3

\* The recursive definition defines what it says.
LEMMA BallFacts ==
  ASSUME NEW w
  PROVE  /\ BallIn(w)[0] = {Seed}
         /\ \A k \in Nat : BallIn(w)[k + 1] = Grown(w, BallIn(w)[k])
<1> DEFINE part(n) == CHOOSE f : Grows(w, n, f)
           F == [k \in Nat |-> part(k)[k]]
           Step(f) == [k \in Nat |-> IF k = 0 THEN {Seed} ELSE Grown(w, f[k - 1])]
<1>1. \A n \in Nat : Grows(w, n, part(n))
  BY GrowsExists
<1>2. F = Step(F)
  <2>1. ASSUME NEW k \in Nat PROVE F[k] = Step(F)[k]
    <3>1. CASE k = 0
      BY <1>1, <3>1 DEF Grows
    <3>2. CASE k # 0
      <4>1. k - 1 \in Nat /\ k - 1 <= k /\ k - 1 \in 0..(k - 1) /\ k \in 1..k
        BY <3>2
      <4> HIDE DEF part
      <4>2. part(k - 1)[k - 1] = part(k)[k - 1]
        BY <1>1, <4>1, GrowsAgree
      <4>3. part(k)[k] = Grown(w, part(k)[k - 1])
        BY <1>1, <4>1 DEF Grows
      <4> QED
        BY <3>2, <4>1, <4>2, <4>3
    <3> QED
      BY <3>1, <3>2
  <2> HIDE DEF part
  <2> QED
    BY <2>1
<1>3. BallIn(w) = Step(BallIn(w))
  <2> DEFINE c == CHOOSE f : f = Step(f)
  <2>1. BallIn(w) = c
    BY DEF BallIn
  <2>2. c = Step(c)
    <3> HIDE DEF F, Step
    <3>1. \E f : f = Step(f)
      BY <1>2
    <3> QED
      BY <3>1, Zenon
  <2> HIDE DEF c
  <2> QED
    BY <2>1, <2>2
<1>4. BallIn(w)[0] = {Seed}
  BY <1>3
<1>5. ASSUME NEW k \in Nat PROVE BallIn(w)[k + 1] = Grown(w, BallIn(w)[k])
  <2>1. k + 1 \in Nat /\ k + 1 # 0 /\ (k + 1) - 1 = k
    OBVIOUS
  <2>2. Step(BallIn(w))[k + 1] = Grown(w, BallIn(w)[k])
    BY <2>1
  <2> HIDE DEF Step
  <2> QED
    BY <1>3, <2>2
<1> QED
  BY <1>4, <1>5

\* The neighbourhood grows with the distance, by the neighbours.
LEMMA BallGrows ==
  ASSUME NEW w, NEW i \in Nat, NEW j \in Nat, i <= j
  PROVE  BallIn(w)[i] \subseteq BallIn(w)[j]
<1> DEFINE T == {d \in Nat : BallIn(w)[i] \subseteq BallIn(w)[i + d]}
<1>1. 0 \in T
  OBVIOUS
<1>2. ASSUME NEW d \in Nat, d \in T PROVE d + 1 \in T
  <2>1. i + d \in Nat /\ i + (d + 1) = (i + d) + 1
    OBVIOUS
  <2>2. BallIn(w)[i + d] \subseteq BallIn(w)[(i + d) + 1]
    BY <2>1, BallFacts DEF Grown
  <2> QED
    BY <1>2, <2>1, <2>2
<1>3. T = Nat
  <2> HIDE DEF T
  <2>1. T \in SUBSET Nat
    BY DEF T
  <2> QED
    BY <1>1, <1>2, <2>1, AllNumbers
<1>4. j - i \in Nat /\ i + (j - i) = j
  OBVIOUS
<1>5. j - i \in T
  <2> HIDE DEF T
  <2> QED
    BY <1>3, <1>4
<1> QED
  BY <1>4, <1>5

LEMMA BallNeighbours ==
  ASSUME NEW w, NEW k \in Nat
  PROVE  /\ \A n \in BallIn(w)[k] : \A r \in RelationsIn(w, n) : Neighbour(n, r) \in BallIn(w)[k + 1]
         /\ \A x \in BallIn(w)[k + 1] :
              \/ x \in BallIn(w)[k]
              \/ \E n \in BallIn(w)[k] : \E r \in RelationsIn(w, n) : x = Neighbour(n, r)
<1>1. BallIn(w)[k + 1] = Grown(w, BallIn(w)[k])
  BY BallFacts
<1> QED
  BY <1>1 DEF Grown

-----------------------------------------------------------------------------
(* The walk *)

Entry == [entity : Entities, depth : Nat]

Queued(Q, x, d) == \E i \in DOMAIN Q : Q[i].entity = x /\ Q[i].depth <= d

\* Nothing in the queue or among the nodes is too far.
Sound(w, N, Q) ==
  /\ \A i \in DOMAIN Q : Q[i].depth <= MaxHops /\ Q[i].entity \in BallIn(w)[Q[i].depth]
  /\ N \subseteq BallIn(w)[MaxHops]

\* The queue is ordered; what is nearer than its head is among the nodes; the neighbours
\* of a node are nodes, or queued with a distance that is no greater than theirs.
Covers(w, N, Q) ==
  /\ \A i, j \in DOMAIN Q : i <= j =>
       Q[i].depth <= Q[j].depth /\ Q[j].depth <= Q[1].depth + 1
  /\ Seed \in N \/ Queued(Q, Seed, 0)
  /\ \A k \in Nat : k < MaxHops =>
       \A n \in N \cap BallIn(w)[k] : \A r \in RelationsIn(w, n) :
         Neighbour(n, r) \in N \/ Queued(Q, Neighbour(n, r), k + 1)
  /\ Q # <<>> => \A k \in Nat : k < Q[1].depth => BallIn(w)[k] \subseteq N

\* P is the queue without its head, and with the new ones.
Follows(Q, new, P) ==
  /\ Len(P) = Len(Q) - 1 + Len(new)
  /\ \A i \in 1..(Len(Q) - 1) : P[i] = Q[i + 1]
  /\ \A i \in 1..Len(new) : P[Len(Q) - 1 + i] = new[i]

\* They are one step farther, and all there are if the head is looked at.
Continues(w, N, Q, new, M) ==
  /\ \A i \in 1..Len(new) : new[i].depth = Q[1].depth + 1
  /\ M = N \cup {Q[1].entity}
  /\ Q[1].entity \notin N /\ Q[1].depth < MaxHops =>
       \A r \in RelationsIn(w, Q[1].entity) :
         \/ Neighbour(Q[1].entity, r) \in M
         \/ \E i \in 1..Len(new) : new[i].entity = Neighbour(Q[1].entity, r)

LEMMA CoversStep ==
  ASSUME NEW w, NEW N, NEW Q \in Seq(Entry), Q # <<>>, Covers(w, N, Q), Q[1].depth <= MaxHops,
         NEW new \in Seq(Entry), NEW P \in Seq(Entry), Follows(Q, new, P),
         NEW M, Continues(w, N, Q, new, M)
  PROVE  Covers(w, M, P)
<1> USE DEF Follows, Continues
<1> DEFINE c == Q[1].depth
           e == Q[1].entity
<1>0. /\ Len(Q) \in Nat \ {0} /\ Len(new) \in Nat /\ Len(P) \in Nat
      /\ DOMAIN Q = 1..Len(Q) /\ DOMAIN P = 1..Len(P) /\ 1 \in 1..Len(Q)
      /\ c \in Nat /\ MaxHops \in Nat
      /\ \A i \in 1..Len(Q) : Q[i].depth \in Nat
  <2>1. Len(Q) \in Nat \ {0} /\ Len(new) \in Nat /\ Len(P) \in Nat
    OBVIOUS
  <2>2. DOMAIN Q = 1..Len(Q) /\ DOMAIN P = 1..Len(P) /\ 1 \in 1..Len(Q)
    BY <2>1
  <2>3. \A i \in 1..Len(Q) : Q[i].depth \in Nat
    <3> TAKE i \in 1..Len(Q)
    <3>1. Q[i] \in Entry
      BY <2>1
    <3> QED
      BY <3>1 DEF Entry
  <2>4. c \in Nat
    BY <2>2, <2>3
  <2>5. MaxHops \in Nat
    BY EntityGraphAssumption
  <2> HIDE DEF c
  <2> QED
    BY <2>1, <2>2, <2>3, <2>4, <2>5
<1>1. \A i \in 1..Len(Q) : Q[i].depth = c \/ Q[i].depth = c + 1
  <2> TAKE i \in 1..Len(Q)
  <2>1. Q[1].depth <= Q[i].depth /\ Q[i].depth <= Q[1].depth + 1
    <3>1. \A h, j \in DOMAIN Q : h <= j =>
            Q[h].depth <= Q[j].depth /\ Q[j].depth <= Q[1].depth + 1
      BY DEF Covers
    <3>2. 1 \in DOMAIN Q /\ i \in DOMAIN Q /\ 1 <= i
      BY <1>0
    <3>3. \A h \in DOMAIN Q : h <= i =>
            Q[h].depth <= Q[i].depth /\ Q[i].depth <= Q[1].depth + 1
      BY <3>1, <3>2
    <3> QED
      BY <3>2, <3>3
  <2>2. Q[i].depth \in Nat /\ c \in Nat
    BY <1>0
  <2>3. c <= Q[i].depth /\ Q[i].depth <= c + 1
    BY <2>1
  <2> HIDE DEF c
  <2>4. PICK a \in Nat, b \in Nat : a = Q[i].depth /\ b = c
    BY <2>2
  <2>5. b <= a /\ a <= b + 1
    BY <2>3, <2>4
  <2>6. a = b \/ a = b + 1
    BY <2>5
  <2> QED
    BY <2>4, <2>6
<1>2. \A i \in 1..Len(P) :
        \/ i \in 1..(Len(Q) - 1) /\ P[i] = Q[i + 1]
        \/ /\ i > Len(Q) - 1 /\ i - (Len(Q) - 1) \in 1..Len(new)
           /\ P[i] = new[i - (Len(Q) - 1)]
  <2> SUFFICES ASSUME NEW i \in 1..Len(P), i > Len(Q) - 1
               PROVE  i - (Len(Q) - 1) \in 1..Len(new) /\ P[i] = new[i - (Len(Q) - 1)]
    BY <1>0
  <2> DEFINE j == i - (Len(Q) - 1)
  <2>1. j \in 1..Len(new) /\ Len(Q) - 1 + j = i
    BY <1>0
  <2> HIDE DEF j
  <2>2. P[i] = new[j]
    BY <2>1
  <2> QED
    BY <2>1, <2>2 DEF j
<1>3. \A i \in 1..Len(P) : P[i].depth = c \/ P[i].depth = c + 1
  <2> TAKE i \in 1..Len(P)
  <2>1. CASE i \in 1..(Len(Q) - 1) /\ P[i] = Q[i + 1]
    <3>1. i + 1 \in 1..Len(Q)
      BY <1>0, <2>1
    <3> QED
      BY <1>1, <2>1, <3>1
  <2>2. CASE i - (Len(Q) - 1) \in 1..Len(new) /\ P[i] = new[i - (Len(Q) - 1)]
    BY <2>2
  <2> QED
    BY <1>2, <2>1, <2>2
<1>4. \A i, j \in 1..Len(P) : i <= j => P[i].depth <= P[j].depth
  <2> SUFFICES ASSUME NEW i \in 1..Len(P), NEW j \in 1..Len(P), i <= j
               PROVE  P[i].depth <= P[j].depth
    OBVIOUS
  <2>1. CASE j \in 1..(Len(Q) - 1) /\ P[j] = Q[j + 1]
    <3>1. i \in 1..(Len(Q) - 1) /\ i + 1 \in 1..Len(Q) /\ j + 1 \in 1..Len(Q) /\ i + 1 <= j + 1
      BY <1>0, <2>1
    <3>2. Q[i + 1].depth <= Q[j + 1].depth
      BY <1>0, <3>1 DEF Covers
    <3> QED
      BY <2>1, <3>1, <3>2
  <2>2. CASE j - (Len(Q) - 1) \in 1..Len(new) /\ P[j] = new[j - (Len(Q) - 1)]
    <3>1. P[j].depth = c + 1
      BY <2>2
    <3>2. P[i].depth = c \/ P[i].depth = c + 1
      BY <1>3
    <3>3. c \in Nat
      BY <1>0
    <3> HIDE DEF c
    <3> QED
      BY <3>1, <3>2, <3>3
  <2> QED
    BY <1>2, <2>1, <2>2
<1>5. ASSUME NEW x, NEW d, Queued(Q, x, d) PROVE x \in M \/ Queued(P, x, d)
  <2>1. PICK i \in 1..Len(Q) : Q[i].entity = x /\ Q[i].depth <= d
    BY <1>0, <1>5 DEF Queued
  <2>2. CASE i = 1
    BY <2>1, <2>2
  <2>3. CASE i # 1
    <3>1. i - 1 \in 1..(Len(Q) - 1) /\ (i - 1) + 1 = i /\ i - 1 \in 1..Len(P)
      BY <1>0, <2>3
    <3>2. P[i - 1] = Q[i]
      BY <3>1
    <3> QED
      BY <1>0, <2>1, <3>1, <3>2 DEF Queued
  <2> QED
    BY <2>2, <2>3
<1>6. ASSUME NEW x, \E i \in 1..Len(new) : new[i].entity = x PROVE Queued(P, x, c + 1)
  <2>1. PICK i \in 1..Len(new) : new[i].entity = x
    BY <1>6
  <2>2. Len(Q) - 1 + i \in 1..Len(P) /\ P[Len(Q) - 1 + i] = new[i]
    BY <1>0
  <2>3. new[i].depth <= c + 1
    BY <1>0
  <2>4. PICK j \in DOMAIN P : P[j] = new[i]
    BY <1>0, <2>2
  <2> HIDE DEF c
  <2> QED
    BY <2>1, <2>3, <2>4 DEF Queued
<1>7. Seed \in M \/ Queued(P, Seed, 0)
  BY <1>5 DEF Covers
<1>8. ASSUME NEW k \in Nat, k < MaxHops, NEW n \in M \cap BallIn(w)[k],
             NEW r \in RelationsIn(w, n)
      PROVE  Neighbour(n, r) \in M \/ Queued(P, Neighbour(n, r), k + 1)
  <2>1. CASE n \in N
    <3>1. Neighbour(n, r) \in N \/ Queued(Q, Neighbour(n, r), k + 1)
      BY <1>8, <2>1 DEF Covers
    <3> QED
      BY <1>5, <3>1
  <2>2. CASE n \notin N
    <3>1. n = e /\ e \notin N
      BY <1>8, <2>2
    <3>2. c <= k
      BY <1>0, <1>8, <3>1 DEF Covers
    <3>3. c < MaxHops
      BY <1>0, <1>8, <3>2
    <3>4. Neighbour(n, r) \in M \/ Queued(P, Neighbour(n, r), c + 1)
      BY <1>6, <3>1, <3>3
    <3>5. Queued(P, Neighbour(n, r), c + 1) => Queued(P, Neighbour(n, r), k + 1)
      <4>1. \A i \in DOMAIN P : P[i].depth <= c + 1 => P[i].depth <= k + 1
        <5> TAKE i \in DOMAIN P
        <5>1. P[i].depth = c \/ P[i].depth = c + 1
          BY <1>0, <1>3
        <5>2. c \in Nat
          BY <1>0
        <5> HIDE DEF c
        <5> QED
          BY <3>2, <5>1, <5>2
      <4> QED
        BY <4>1 DEF Queued
    <3> QED
      BY <3>4, <3>5
  <2> QED
    BY <2>1, <2>2
<1>9. ASSUME P # <<>>, NEW k \in Nat, k < P[1].depth PROVE BallIn(w)[k] \subseteq M
  <2>1. 1 \in 1..Len(P)
    BY <1>0, <1>9
  <2>2. CASE k < c
    BY <2>2 DEF Covers
  <2>3. CASE k >= c
    <3>1. k = c /\ P[1].depth = c + 1
      BY <1>0, <1>3, <1>9, <2>1, <2>3
    <3>2. \A i \in 1..Len(P) : P[i].depth = c + 1
      <4> TAKE i \in 1..Len(P)
      <4>1. P[1].depth <= P[i].depth
        <5>1. 1 <= i
          BY <1>0
        <5> QED
          BY <1>4, <2>1, <5>1
      <4>2. P[i].depth = c \/ P[i].depth = c + 1
        BY <1>3
      <4>3. c \in Nat
        BY <1>0
      <4> HIDE DEF c
      <4> QED
        BY <3>1, <4>1, <4>2, <4>3
    <3>3. \A x : ~Queued(P, x, c)
      <4> SUFFICES ASSUME NEW x, Queued(P, x, c) PROVE FALSE
        OBVIOUS
      <4>1. PICK i \in DOMAIN P : P[i].depth <= c
        BY DEF Queued
      <4>2. P[i].depth = c + 1
        BY <1>0, <3>2
      <4>3. c \in Nat
        BY <1>0
      <4> HIDE DEF c
      <4> QED
        BY <4>1, <4>2, <4>3
    <3>4. CASE c = 0
      <4>1. Seed \in M
        BY <1>7, <3>3, <3>4
      <4> QED
        BY <3>1, <3>4, <4>1, BallFacts
    <3>5. CASE c # 0
      <4>1. c - 1 \in Nat /\ c - 1 < MaxHops /\ c - 1 < c /\ (c - 1) + 1 = c
        BY <1>0, <3>5
      <4>2. BallIn(w)[c - 1] \subseteq N
        BY <4>1 DEF Covers
      <4>3. ASSUME NEW x \in BallIn(w)[c] PROVE x \in M
        <5>1. CASE x \in BallIn(w)[c - 1]
          BY <4>2, <5>1
        <5>2. CASE \E n \in BallIn(w)[c - 1] : \E r \in RelationsIn(w, n) : x = Neighbour(n, r)
          <6>1. PICK n \in BallIn(w)[c - 1] : \E r \in RelationsIn(w, n) : x = Neighbour(n, r)
            BY <5>2
          <6>2. PICK r \in RelationsIn(w, n) : x = Neighbour(n, r)
            BY <6>1
          <6>3. n \in M \cap BallIn(w)[c - 1]
            BY <4>2
          <6>4. x \in M \/ Queued(P, x, (c - 1) + 1)
            BY <1>8, <4>1, <6>2, <6>3
          <6> QED
            BY <3>3, <4>1, <6>4
        <5>3. x \in BallIn(w)[(c - 1) + 1]
          BY <4>1
        <5> QED
          BY <4>1, <5>1, <5>2, <5>3, BallNeighbours
      <4> QED
        BY <3>1, <4>3
    <3> QED
      BY <3>4, <3>5
  <2> QED
    BY <1>0, <2>2, <2>3
<1>10. \A i, j \in 1..Len(P) : i <= j => P[j].depth <= P[1].depth + 1
  <2> SUFFICES ASSUME NEW j \in 1..Len(P) PROVE P[j].depth <= P[1].depth + 1
    OBVIOUS
  <2>1. 1 \in 1..Len(P)
    BY <1>0
  <2>2. P[j].depth = c \/ P[j].depth = c + 1
    BY <1>3
  <2>3. P[1].depth = c \/ P[1].depth = c + 1
    BY <1>3, <2>1
  <2>4. c \in Nat
    BY <1>0
  <2> HIDE DEF c
  <2> QED
    BY <2>2, <2>3, <2>4
<1> HIDE DEF c, e
<1> QED
  BY <1>0, <1>4, <1>7, <1>8, <1>9, <1>10 DEF Covers

\* The same of what is sound.
LEMMA SoundStep ==
  ASSUME NEW w, NEW N, NEW Q \in Seq(Entry), Q # <<>>, Sound(w, N, Q),
         NEW new \in Seq(Entry), NEW P \in Seq(Entry), Follows(Q, new, P),
         \A i \in 1..Len(new) :
           new[i].depth <= MaxHops /\ new[i].entity \in BallIn(w)[new[i].depth],
         NEW M, M = N \cup {Q[1].entity}
  PROVE  Sound(w, M, P)
<1> USE DEF Follows
<1>1. /\ Len(Q) \in Nat \ {0} /\ Len(new) \in Nat /\ Len(P) \in Nat
      /\ DOMAIN Q = 1..Len(Q) /\ DOMAIN P = 1..Len(P)
  OBVIOUS
<1>2. ASSUME NEW i \in 1..Len(P)
      PROVE  P[i].depth <= MaxHops /\ P[i].entity \in BallIn(w)[P[i].depth]
  <2>1. CASE i <= Len(Q) - 1
    <3>1. i \in 1..(Len(Q) - 1) /\ i + 1 \in DOMAIN Q
      BY <1>1, <2>1
    <3>2. P[i] = Q[i + 1]
      BY <3>1
    <3> QED
      BY <3>1, <3>2 DEF Sound
  <2>2. CASE i > Len(Q) - 1
    <3> DEFINE j == i - (Len(Q) - 1)
    <3>1. j \in 1..Len(new) /\ Len(Q) - 1 + j = i
      BY <1>1, <2>2
    <3> HIDE DEF j
    <3>2. P[i] = new[j]
      BY <3>1
    <3> QED
      BY <3>1, <3>2
  <2> QED
    BY <1>1, <2>1, <2>2
<1>3. Q[1].entity \in BallIn(w)[MaxHops]
  <2>1. Q[1] \in Entry /\ 1 \in DOMAIN Q
    BY <1>1
  <2>2. Q[1].depth \in Nat /\ MaxHops \in Nat
    BY <2>1, EntityGraphAssumption DEF Entry
  <2>3. Q[1].depth <= MaxHops /\ Q[1].entity \in BallIn(w)[Q[1].depth]
    BY <2>1 DEF Sound
  <2> QED
    BY <2>2, <2>3, BallGrows
<1> QED
  BY <1>1, <1>2, <1>3 DEF Sound

\* When only nodes are queued, everything near enough is a node.
LEMMA CoversAll ==
  ASSUME NEW w, NEW N, NEW Q \in Seq(Entry), Covers(w, N, Q),
         \A i \in DOMAIN Q : Q[i].entity \in N
  PROVE  BallIn(w)[MaxHops] \subseteq N
<1> DEFINE T == {k \in Nat : k <= MaxHops => BallIn(w)[k] \subseteq N}
<1>1. \A x, d : Queued(Q, x, d) => x \in N
  BY DEF Queued
<1>2. 0 \in T
  BY <1>1, BallFacts DEF Covers
<1>3. ASSUME NEW k \in Nat, k \in T PROVE k + 1 \in T
  <2> SUFFICES ASSUME k + 1 <= MaxHops, NEW x \in BallIn(w)[k + 1] PROVE x \in N
    OBVIOUS
  <2>1. k < MaxHops /\ BallIn(w)[k] \subseteq N
    BY <1>3, EntityGraphAssumption
  <2>2. CASE x \in BallIn(w)[k]
    BY <2>1, <2>2
  <2>3. CASE \E n \in BallIn(w)[k] : \E r \in RelationsIn(w, n) : x = Neighbour(n, r)
    <3>1. PICK n \in BallIn(w)[k] : \E r \in RelationsIn(w, n) : x = Neighbour(n, r)
      BY <2>3
    <3>2. PICK r \in RelationsIn(w, n) : x = Neighbour(n, r)
      BY <3>1
    <3>3. n \in N \cap BallIn(w)[k]
      BY <2>1
    <3>4. x \in N \/ Queued(Q, x, k + 1)
      BY <2>1, <3>2, <3>3 DEF Covers
    <3> QED
      BY <1>1, <3>4
  <2> QED
    BY <2>2, <2>3, BallNeighbours
<1>4. T = Nat
  <2> HIDE DEF T
  <2>1. T \in SUBSET Nat
    BY DEF T
  <2> QED
    BY <1>2, <1>3, <2>1, AllNumbers
<1>5. MaxHops \in T
  <2> HIDE DEF T
  <2> QED
    BY <1>4, EntityGraphAssumption
<1> QED
  BY <1>5, EntityGraphAssumption

\* An order of a finite set has all its elements.
LEMMA OrderHasAll ==
  ASSUME NEW S, IsFiniteSet(S), NEW order \in SetToSeqs(S)
  PROVE  /\ Cardinality(S) \in Nat
         /\ order \in [1..Cardinality(S) -> S]
         /\ \A x \in S : \E i \in 1..Cardinality(S) : order[i] = x
<1> DEFINE D == 1..Cardinality(S)
<1>1. Cardinality(S) \in Nat
  BY FS_CardinalityType
<1>2. order \in [D -> S] /\ \A i, j \in D : i # j => order[i] # order[j]
  BY DEF SetToSeqs
<1>3. order \in Injection(D, S)
  BY <1>2 DEF Injection, IsInjective
<1>4. Cardinality(D) = Cardinality(S)
  BY <1>1, FS_Interval
<1>5. order \in Surjection(D, S)
  <2> HIDE DEF D
  <2> QED
    BY <1>3, <1>4, FS_Injection
<1> QED
  BY <1>1, <1>2, <1>5 DEF Surjection

\* While a walk is on: the limit holds; if the relations have not changed it is sound,
\* and if nothing was left out it covers what is near.
WalkInv ==
  /\ frontier \in Seq(Entry) /\ short \in BOOLEAN /\ dirty \in BOOLEAN
  /\ asking \in {"idle", "walking", "answered"}
  /\ asking = "walking" =>
       /\ IsFiniteSet(nodes) /\ Cardinality(nodes) <= MaxNodes
       /\ ~dirty => Sound(rows, nodes, frontier)
       /\ ~dirty /\ ~short => Covers(rows, nodes, frontier)
  /\ GraphIsNeighbourhood

LEMMA Neighbourhood ==
  GraphIsNeighbourhood <=>
    (asking = "answered" =>
      /\ Cardinality(nodes) <= MaxNodes
      /\ ~dirty => nodes \subseteq BallIn(rows)[MaxHops]
      /\ ~dirty /\ ~short => nodes = BallIn(rows)[MaxHops])
  BY BallIs DEF GraphIsNeighbourhood

LEMMA NeighbourhoodNext ==
  GraphIsNeighbourhood' <=>
    (asking' = "answered" =>
      /\ Cardinality(nodes') <= MaxNodes
      /\ ~dirty' => nodes' \subseteq BallIn(rows')[MaxHops]
      /\ ~dirty' /\ ~short' => nodes' = BallIn(rows')[MaxHops])
  BY BallNext DEF GraphIsNeighbourhood

LEMMA WalkInit == GraphInit => WalkInv
<1>1. <<>> \in Seq(Entry)
  OBVIOUS
<1> QED
  BY <1>1 DEF GraphInit, WalkInv, GraphIsNeighbourhood

\* The imports, and whatever else leaves the walk alone.
LEMMA WalkFrame ==
  ASSUME WalkInv, UNCHANGED <<asking, frontier, nodes, short>>, dirty' \in BOOLEAN,
         asking # "idle" /\ ~dirty' => ~dirty /\ rows' = rows
  PROVE  WalkInv'
<1>1. /\ frontier' \in Seq(Entry) /\ short' \in BOOLEAN /\ dirty' \in BOOLEAN
      /\ asking' \in {"idle", "walking", "answered"}
  BY DEF WalkInv
<1>2. GraphIsNeighbourhood'
  <2> SUFFICES ASSUME asking' = "answered"
               PROVE  /\ Cardinality(nodes') <= MaxNodes
                      /\ ~dirty' => nodes' \subseteq BallIn(rows')[MaxHops]
                      /\ ~dirty' /\ ~short' => nodes' = BallIn(rows')[MaxHops]
    BY NeighbourhoodNext
  <2> QED
    BY Neighbourhood DEF WalkInv
<1>3. ASSUME asking' = "walking"
      PROVE  /\ IsFiniteSet(nodes') /\ Cardinality(nodes') <= MaxNodes
             /\ ~dirty' => Sound(rows', nodes', frontier')
             /\ ~dirty' /\ ~short' => Covers(rows', nodes', frontier')
  BY <1>3 DEF WalkInv
<1>4. Sound(rows, nodes, frontier)' <=> Sound(rows', nodes', frontier')
  BY DEF Sound
<1>5. Covers(rows, nodes, frontier)' <=> Covers(rows', nodes', frontier')
  BY DEF Covers, Queued, RelationsIn, Neighbour
<1> QED
  BY <1>1, <1>2, <1>3, <1>4, <1>5 DEF WalkInv

\* What a walking step has to keep.
LEMMA StillWalking ==
  ASSUME frontier' \in Seq(Entry), short' \in BOOLEAN, dirty' \in BOOLEAN,
         asking' = "walking", IsFiniteSet(nodes'), Cardinality(nodes') <= MaxNodes,
         ~dirty' => Sound(rows', nodes', frontier'),
         ~dirty' /\ ~short' => Covers(rows', nodes', frontier')
  PROVE  WalkInv'
<1>1. GraphIsNeighbourhood'
  BY NeighbourhoodNext
<1>2. Sound(rows, nodes, frontier)' <=> Sound(rows', nodes', frontier')
  BY DEF Sound
<1>3. Covers(rows, nodes, frontier)' <=> Covers(rows', nodes', frontier')
  BY DEF Covers, Queued, RelationsIn, Neighbour
<1> QED
  BY <1>1, <1>2, <1>3 DEF WalkInv

LEMMA AskStep == ASSUME WalkInv, AskGraph PROVE WalkInv'
<1> DEFINE first == <<[entity |-> Seed, depth |-> 0]>>
<1>1. /\ frontier' = first /\ nodes' = {} /\ ~short' /\ ~dirty' /\ asking' = "walking"
      /\ short' \in BOOLEAN /\ dirty' \in BOOLEAN /\ rows' = rows
  BY DEF AskGraph
<1>2. first \in Seq(Entry) /\ Len(first) = 1 /\ DOMAIN first = {1}
  BY EntityGraphAssumption DEF Entry
<1>3. first[1].entity = Seed /\ first[1].depth = 0 /\ first # <<>>
  OBVIOUS
<1> HIDE DEF first
<1>4. Sound(rows', {}, first)
  BY <1>2, <1>3, BallFacts, EntityGraphAssumption DEF Sound
<1>5. Covers(rows', {}, first)
  <2>1. Queued(first, Seed, 0)
    BY <1>2, <1>3 DEF Queued
  <2>2. \A i, j \in DOMAIN first : i <= j =>
          first[i].depth <= first[j].depth /\ first[j].depth <= first[1].depth + 1
    BY <1>2, <1>3
  <2>3. \A k \in Nat : ~(k < first[1].depth)
    BY <1>3
  <2> QED
    BY <2>1, <2>2, <2>3 DEF Covers
<1>6. IsFiniteSet({}) /\ Cardinality({}) <= MaxNodes
  BY FS_EmptySet, EntityGraphAssumption
<1> QED
  BY <1>1, <1>2, <1>4, <1>5, <1>6, StillWalking

\* Two sequences in a row.
LEMMA Joined ==
  ASSUME NEW S, NEW s \in Seq(S), NEW t \in Seq(S)
  PROVE  /\ s \o t \in Seq(S) /\ Len(s \o t) = Len(s) + Len(t)
         /\ \A i \in 1..Len(s) : (s \o t)[i] = s[i]
         /\ \A i \in 1..Len(t) : (s \o t)[Len(s) + i] = t[i]
<1>1. s \o t \in Seq(S) /\ Len(s \o t) = Len(s) + Len(t)
  OBVIOUS
<1>2. \A i \in 1..Len(s) : (s \o t)[i] = s[i]
  OBVIOUS
<1>3. \A i \in 1..Len(t) : (s \o t)[Len(s) + i] = t[i]
  OBVIOUS
<1> QED
  BY <1>1, <1>2, <1>3

\* The rest of the queue.
LEMMA RestOfQueue ==
  ASSUME frontier \in Seq(Entry), frontier # <<>>
  PROVE  /\ At = frontier[1] /\ At \in Entry
         /\ Rest \in Seq(Entry) /\ Len(Rest) = Len(frontier) - 1
         /\ \A i \in 1..(Len(frontier) - 1) : Rest[i] = frontier[i + 1]
<1>1. Len(frontier) \in Nat \ {0}
  OBVIOUS
<1>2. At = frontier[1] /\ At \in Entry
  BY <1>1 DEF At, Popped
<1>3. Rest = SubSeq(frontier, 1, 0) \o SubSeq(frontier, 2, Len(frontier))
  BY DEF Rest, RemoveAt, Popped
<1>4. SubSeq(frontier, 1, 0) \in Seq(Entry) /\ Len(SubSeq(frontier, 1, 0)) = 0
  BY <1>1
<1> DEFINE s == SubSeq(frontier, 2, Len(frontier))
<1>5. /\ s \in Seq(Entry) /\ Len(s) = Len(frontier) - 1
      /\ \A i \in 1..(Len(frontier) - 1) : s[i] = frontier[i + 1]
  <2>1. s = [i \in 1..(Len(frontier) - 1) |-> frontier[i + 1]]
    BY <1>1
  <2>2. \A i \in 1..(Len(frontier) - 1) : frontier[i + 1] \in Entry
    BY <1>1
  <2> HIDE DEF s
  <2> QED
    BY <1>1, <2>1, <2>2
<1> HIDE DEF s
<1> QED
  BY <1>1, <1>2, <1>3, <1>4, <1>5 DEF s

\* The head is popped, and new ones, if any, are queued.
LEMMA PopStep ==
  ASSUME WalkInv, Walking, NEW new \in Seq(Entry),
         frontier' = Rest \o new, nodes' = nodes \cup {At.entity},
         rows' = rows, asking' = asking, dirty' = dirty, short' \in BOOLEAN, short => short',
         \A i \in 1..Len(new) :
           /\ new[i].depth = At.depth + 1 /\ At.depth < MaxHops
           /\ new[i].entity \in {Neighbour(At.entity, r) : r \in RelationsIn(rows, At.entity)},
         ~short' /\ At.entity \notin nodes /\ At.depth < MaxHops =>
           \A r \in RelationsIn(rows, At.entity) :
             \/ Neighbour(At.entity, r) \in nodes'
             \/ \E i \in 1..Len(new) : new[i].entity = Neighbour(At.entity, r)
  PROVE  WalkInv'
<1>1. /\ frontier \in Seq(Entry) /\ frontier # <<>> /\ asking = "walking"
      /\ IsFiniteSet(nodes) /\ Cardinality(nodes) < MaxNodes
      /\ short \in BOOLEAN /\ dirty \in BOOLEAN
  BY DEF WalkInv, Walking
<1>2. /\ At = frontier[1] /\ At \in Entry
      /\ Rest \in Seq(Entry) /\ Len(Rest) = Len(frontier) - 1
      /\ \A i \in 1..(Len(frontier) - 1) : Rest[i] = frontier[i + 1]
  BY <1>1, RestOfQueue
<1>3. frontier' \in Seq(Entry) /\ Follows(frontier, new, frontier')
  BY <1>2, Joined DEF Follows
<1>4. IsFiniteSet(nodes') /\ Cardinality(nodes') <= MaxNodes
  <2>0. MaxNodes \in Nat
    BY EntityGraphAssumption
  <2>1. Cardinality(nodes) \in Nat
    BY <1>1, FS_CardinalityType
  <2>2. IsFiniteSet(nodes') /\ Cardinality(nodes') <= Cardinality(nodes) + 1
    <3>1. /\ IsFiniteSet(nodes \cup {At.entity})
          /\ Cardinality(nodes \cup {At.entity}) =
               IF At.entity \in nodes THEN Cardinality(nodes) ELSE Cardinality(nodes) + 1
      BY <1>1, FS_AddElement
    <3> QED
      BY <2>1, <3>1
  <2> QED
    BY <1>1, <2>0, <2>1, <2>2, FS_CardinalityType
<1>5. At.depth \in Nat /\ MaxHops \in Nat /\ 1 \in DOMAIN frontier
  BY <1>1, <1>2, EntityGraphAssumption DEF Entry
<1>6. ASSUME ~dirty'
      PROVE  Sound(rows, nodes', frontier') /\ At.depth <= MaxHops
  <2>1. Sound(rows, nodes, frontier)
    BY <1>1, <1>6 DEF WalkInv
  <2>2. At.depth <= MaxHops /\ At.entity \in BallIn(rows)[At.depth]
    BY <1>2, <1>5, <2>1 DEF Sound
  <2>3. \A i \in 1..Len(new) :
          new[i].depth <= MaxHops /\ new[i].entity \in BallIn(rows)[new[i].depth]
    BY <1>5, <2>2, BallNeighbours
  <2> QED
    BY <1>1, <1>2, <1>3, <2>1, <2>2, <2>3, SoundStep
<1>7. ASSUME ~dirty', ~short'
      PROVE  Covers(rows, nodes', frontier')
  <2>1. Covers(rows, nodes, frontier)
    BY <1>1, <1>7 DEF WalkInv
  <2>2. frontier[1].depth <= MaxHops
    BY <1>2, <1>6, <1>7
  <2>3. Continues(rows, nodes, frontier, new, nodes')
    BY <1>2, <1>7 DEF Continues
  <2> QED
    BY <1>1, <1>3, <2>1, <2>2, <2>3, CoversStep
<1> QED
  BY <1>1, <1>3, <1>4, <1>6, <1>7, StillWalking

LEMMA SkipStep == ASSUME WalkInv, SkipVisited \/ AddLeaf PROVE WalkInv'
<1>1. /\ Walking /\ frontier' = Rest /\ nodes' = nodes \cup {At.entity}
      /\ rows' = rows /\ asking' = asking /\ dirty' = dirty /\ short' = short
      /\ At.entity \in nodes \/ At.depth >= MaxHops
  BY DEF SkipVisited, AddLeaf
<1>2. frontier \in Seq(Entry) /\ frontier # <<>> /\ short \in BOOLEAN
  BY <1>1 DEF WalkInv, Walking
<1>3. Rest \in Seq(Entry) /\ At \in Entry
  BY <1>2, RestOfQueue
<1> DEFINE none == <<>>
<1>4. none \in Seq(Entry) /\ \A i : i \notin 1..Len(none)
  OBVIOUS
<1>5. frontier' = Rest \o none
  BY <1>1, <1>3
<1> HIDE DEF none
<1>6. At.depth \in Nat /\ MaxHops \in Nat
  BY <1>3, EntityGraphAssumption DEF Entry
<1>7. ~(At.entity \notin nodes /\ At.depth < MaxHops)
  BY <1>1, <1>6
<1> QED
  BY <1>1, <1>2, <1>4, <1>5, <1>7, PopStep

LEMMA ExpandStep == ASSUME WalkInv, Expand PROVE WalkInv'
<1> DEFINE e == At.entity
           S == {r \in Relations(e) : Neighbour(e, r) \notin nodes'}
<1>1. /\ Walking /\ e \notin nodes /\ At.depth < MaxHops /\ nodes' = nodes \cup {e}
      /\ rows' = rows /\ asking' = asking /\ dirty' = dirty
  BY DEF Expand
<1>2. frontier \in Seq(Entry) /\ frontier # <<>> /\ short \in BOOLEAN
  BY <1>1 DEF WalkInv, Walking
<1>3. Rest \in Seq(Entry) /\ At \in Entry /\ Len(Rest) \in Nat
  BY <1>2, RestOfQueue
<1>4. At.depth \in Nat /\ MaxHops \in Nat
  BY <1>3, EntityGraphAssumption DEF Entry
<1>5. Relations(e) = RelationsIn(rows, e)
  BY DEF Relations, RelationsIn
<1>6. IsFiniteSet(S)
  <2>1. IsFiniteSet(Edges \X Importers)
    BY FS_Product, EntityGraphAssumption
  <2>2. S \in SUBSET (Edges \X Importers)
    BY DEF Relations
  <2> QED
    BY <2>1, <2>2, FS_Subset
<1>7. \A r \in S : Neighbour(e, r) \in Entities
  BY EntityGraphAssumption DEF Relations, Neighbour
<1>8. PICK order \in SetToSeqs(S) :
        LET full == [i \in DOMAIN order |->
                       [entity |-> Neighbour(e, order[i]), depth |-> At.depth + 1]]
            room == MaxNodes - Cardinality(nodes') - Len(Rest)
            fit == IF room < Len(full) THEN (IF room < 0 THEN 0 ELSE room) ELSE Len(full)
        IN /\ frontier' = Rest \o SubSeq(full, 1, fit)
           /\ short' = (short \/ fit < Len(full))
  BY DEF Expand
<1> DEFINE full == [i \in DOMAIN order |->
                      [entity |-> Neighbour(e, order[i]), depth |-> At.depth + 1]]
           room == MaxNodes - Cardinality(nodes') - Len(Rest)
           fit == IF room < Len(full) THEN (IF room < 0 THEN 0 ELSE room) ELSE Len(full)
           new == SubSeq(full, 1, fit)
<1>9. /\ Cardinality(S) \in Nat
      /\ order \in [1..Cardinality(S) -> S]
      /\ \A r \in S : \E i \in 1..Cardinality(S) : order[i] = r
  <2> HIDE DEF S
  <2> QED
    BY <1>6, OrderHasAll
<1> HIDE DEF S
<1>10. /\ full \in Seq(Entry) /\ Len(full) = Cardinality(S)
       /\ \A i \in 1..Cardinality(S) :
            /\ full[i].entity = Neighbour(e, order[i]) /\ full[i].depth = At.depth + 1
            /\ order[i] \in S
  <2>1. DOMAIN order = 1..Cardinality(S) /\ \A i \in 1..Cardinality(S) : order[i] \in S
    BY <1>9
  <2>2. \A i \in 1..Cardinality(S) :
          [entity |-> Neighbour(e, order[i]), depth |-> At.depth + 1] \in Entry
    BY <1>4, <1>7, <2>1 DEF Entry
  <2>3. full = [i \in 1..Cardinality(S) |->
                  [entity |-> Neighbour(e, order[i]), depth |-> At.depth + 1]]
    BY <2>1
  <2>4. full \in [1..Cardinality(S) -> Entry]
    BY <2>2, <2>3
  <2>5. \A i \in 1..Cardinality(S) :
          full[i].entity = Neighbour(e, order[i]) /\ full[i].depth = At.depth + 1
    BY <2>3
  <2> HIDE DEF full
  <2>6. full \in Seq(Entry) /\ Len(full) = Cardinality(S)
    BY <1>9, <2>4
  <2> QED
    BY <2>1, <2>5, <2>6
<1> HIDE DEF full
<1>11. room \in Int
  <2>1. IsFiniteSet(nodes)
    BY <1>1 DEF WalkInv, Walking
  <2>2. Cardinality(nodes') \in Nat
    BY <1>1, <2>1, FS_AddElement, FS_CardinalityType
  <2> QED
    BY <1>3, <2>2, EntityGraphAssumption
<1> HIDE DEF room
<1>12. fit \in 0..Cardinality(S) /\ (fit = Cardinality(S) \/ fit < Len(full))
  BY <1>9, <1>10, <1>11
<1>13. frontier' = Rest \o new /\ short' = (short \/ fit < Len(full))
  BY <1>8 DEF full, room
<1> HIDE DEF fit
<1>14. /\ new \in Seq(Entry) /\ Len(new) = fit
       /\ \A i \in 1..fit : new[i] = full[i]
  <2>1. new = [i \in 1..fit |-> full[i]]
    BY <1>9, <1>10, <1>12
  <2>2. \A i \in 1..fit : full[i] \in Entry
    BY <1>9, <1>10, <1>12
  <2> HIDE DEF new
  <2>3. new \in [1..fit -> Entry]
    BY <2>1, <2>2
  <2>4. fit \in Nat
    BY <1>12
  <2> QED
    BY <2>1, <2>3, <2>4
<1> HIDE DEF new
<1>15. \A i \in 1..Len(new) :
         /\ new[i].depth = At.depth + 1 /\ At.depth < MaxHops
         /\ new[i].entity \in {Neighbour(At.entity, r) : r \in RelationsIn(rows, At.entity)}
  <2> TAKE i \in 1..Len(new)
  <2>1. i \in 1..Cardinality(S) /\ new[i] = full[i]
    BY <1>9, <1>12, <1>14
  <2>2. order[i] \in RelationsIn(rows, e)
    BY <1>5, <1>10, <2>1 DEF S
  <2> QED
    BY <1>1, <1>10, <2>1, <2>2
<1>16. ASSUME ~short', NEW r \in RelationsIn(rows, At.entity)
       PROVE  \/ Neighbour(At.entity, r) \in nodes'
              \/ \E i \in 1..Len(new) : new[i].entity = Neighbour(At.entity, r)
  <2> SUFFICES ASSUME Neighbour(e, r) \notin nodes'
               PROVE  \E i \in 1..Len(new) : new[i].entity = Neighbour(e, r)
    OBVIOUS
  <2>1. r \in S
    BY <1>5, <1>16 DEF S
  <2>2. fit = Cardinality(S)
    BY <1>12, <1>13, <1>16
  <2>3. PICK i \in 1..Cardinality(S) : order[i] = r
    BY <1>9, <2>1
  <2> QED
    BY <1>10, <1>14, <2>2, <2>3
<1>17. short' \in BOOLEAN /\ (short => short')
  BY <1>2, <1>13
<1> QED
  BY <1>1, <1>13, <1>14, <1>15, <1>16, <1>17, PopStep

LEMMA AnswerStep == ASSUME WalkInv, AnswerGraph PROVE WalkInv'
<1>1. /\ asking = "walking" /\ asking' = "answered"
      /\ short' = (short \/ \E i \in DOMAIN frontier : frontier[i].entity \notin nodes)
      /\ frontier' = frontier /\ nodes' = nodes /\ rows' = rows /\ dirty' = dirty
  BY DEF AnswerGraph
<1>2. /\ frontier \in Seq(Entry) /\ short \in BOOLEAN /\ dirty \in BOOLEAN
      /\ Cardinality(nodes) <= MaxNodes
      /\ ~dirty => Sound(rows, nodes, frontier)
      /\ ~dirty /\ ~short => Covers(rows, nodes, frontier)
  BY <1>1 DEF WalkInv
<1>3. ~dirty => nodes \subseteq BallIn(rows)[MaxHops]
  BY <1>2 DEF Sound
<1>4. ASSUME ~dirty, ~short' PROVE BallIn(rows)[MaxHops] \subseteq nodes
  <2>1. ~short /\ \A i \in DOMAIN frontier : frontier[i].entity \in nodes
    BY <1>1, <1>4
  <2>2. Covers(rows, nodes, frontier)
    BY <1>2, <1>4, <2>1
  <2> QED
    BY <1>2, <2>1, <2>2, CoversAll
<1>5. GraphIsNeighbourhood'
  BY <1>1, <1>2, <1>3, <1>4, NeighbourhoodNext
<1> QED
  BY <1>1, <1>2, <1>5 DEF WalkInv

LEMMA WalkStep == ASSUME WalkInv, [GraphNext]_graphVars PROVE WalkInv'
<1>1. ASSUME NEW p \in Importers, LoadCommits(p) PROVE WalkInv'
  <2>1. /\ UNCHANGED <<asking, frontier, nodes, short>>
        /\ dirty' = (dirty \/ (asking # "idle" /\ rows' # rows))
    BY <1>1 DEF LoadCommits
  <2>2. dirty \in BOOLEAN
    BY DEF WalkInv
  <2> QED
    BY <2>1, <2>2, WalkFrame
<1>2. ASSUME UNCHANGED <<rows, walkVars>> PROVE WalkInv'
  <2>1. dirty' = dirty /\ dirty \in BOOLEAN
    BY <1>2 DEF WalkInv, walkVars
  <2> QED
    BY <1>2, <2>1, WalkFrame DEF walkVars
<1>3. ASSUME NEW p \in Importers, \/ \E f \in Files : LoadBegins(p, f)
                                  \/ LoadLine(p) \/ LoadFails(p)
      PROVE  WalkInv'
  BY <1>2, <1>3 DEF LoadBegins, LoadLine, LoadFails
<1> QED
  BY <1>1, <1>2, <1>3, AskStep, SkipStep, ExpandStep, AnswerStep DEF GraphNext, graphVars

\* For any graph, any hops and any limit, with imports that change the relations
\* meanwhile: an answer holds no more entities than asked for, none too far, and all that
\* are near unless the limit kept one out (traverse_entity_graph).
THEOREM NeighbourhoodsAreFound == GraphSpec => []GraphIsNeighbourhood
<1>1. WalkInv => GraphIsNeighbourhood
  BY DEF WalkInv
<1> QED
  BY <1>1, WalkInit, WalkStep, PTL DEF GraphSpec
=============================================================================
