---------------------------- MODULE TriageProofs -----------------------------
(***************************************************************************)
(* Theorems about Triage for any alerts, runs, thresholds and interleaving:*)
(* a result is final, it agrees with the predicted route, and a duplicate  *)
(* is covered by an alert that was judged.                                 *)
(*                                                                         *)
(* DuplicateIsCovered is not inductive: a run decides on a group it read   *)
(* several steps ago.  DedupInv says that every group, committed or read,  *)
(* started with an alert that was judged.                                  *)
(***************************************************************************)
EXTENDS Triage, FiniteSetTheorems, TLAPS

\* A group row whose window an alert of f that was judged has started.
Covered(grp, f) ==
  \E a \in Alerts :
    /\ FingerprintOf[a] = f /\ IsFirst(a)
    /\ grp.start = result[a].seen /\ grp.end = result[a].seen + Window

InTransaction(g) == pc[g] \in {"read", "judged"}

\* Times that have passed.
TimesInv ==
  /\ \A a \in Alerts : result[a] # None => result[a].seen <= clock
  /\ \A g \in Runs : at[g] <= clock

GroupsInv == \A f \in Fingerprints : group[f] # None => Covered(group[f], f)

\* What a run knows of the group of its alert is covered, and was not in the future.
ReadInv ==
  \A g \in Runs, a \in Alerts :
    InTransaction(g) /\ Current(g, a) /\ read[g] # None =>
      /\ group[FingerprintOf[a]] # None
      /\ Covered(read[g], FingerprintOf[a])
      /\ read[g].start <= at[g]

JudgedInv == \A g \in Runs : pc[g] = "judged" => verdict[g] \in Verdicts(Hit(g), at[g])

DedupInv ==
  TypeOK /\ TimesInv /\ GroupsInv /\ ReadInv /\ JudgedInv /\ DuplicateIsCovered

-----------------------------------------------------------------------------
(* Verdicts *)

\* The copy of the thresholds in predict_route_decision agrees with the router.
LEMMA SameThresholds ==
  ASSUME NEW s, NEW route \in RouteOf(s)
  PROVE  \/ route = Predict(s)
         \/ route = "sample_audit" /\ Predict(s) = "archive_low_risk"
BY DEF RouteOf, Predict

\* What a verdict of the scoring handlers is made of.
LEMMA ScoredFields ==
  ASSUME NEW t, NEW v \in Scored(t)
  PROVE  \E raw, d, llm, route :
           /\ route \in RouteOf(Effective(RuleScore(raw, d), llm))
           /\ v = [route |-> route, raw |-> raw, rule |-> RuleScore(raw, d), llm |-> llm,
                   seen |-> t]
BY DEF Scored

\* Without the LLM a scored alert goes where the prediction says.
LEMMA ScoredAsPredicted ==
  ASSUME NEW t, NEW v \in Scored(t), v.llm = None
  PROVE  \/ v.route = Predict(v.rule)
         \/ v.route = "sample_audit" /\ Predict(v.rule) = "archive_low_risk"
<1>1. PICK raw, d, llm, route :
        /\ route \in RouteOf(Effective(RuleScore(raw, d), llm))
        /\ v = [route |-> route, raw |-> raw, rule |-> RuleScore(raw, d), llm |-> llm,
                seen |-> t]
  BY ScoredFields
<1>2. Effective(RuleScore(raw, d), llm) = v.rule
  BY <1>1 DEF Effective
<1> QED BY <1>1, <1>2, SameThresholds

\* A verdict bears the time of the dedup handler and is a duplicate's exactly if that
\* handler hit.
LEMMA VerdictFacts ==
  ASSUME NEW hit \in BOOLEAN, NEW t \in 0..MaxTime, NEW v \in Verdicts(hit, t)
  PROVE  /\ v \in Result /\ v # None
         /\ v.seen = t
         /\ v.route = "archive_dedup" <=> hit
<1>1. v \in Result /\ v # None
  BY NullAssumption DEF Result
<1>2. CASE hit
  BY <1>1, <1>2 DEF Verdicts, ShortCircuit
<1>3. CASE ~hit /\ v = ShortCircuit("archive_whitelist", t)
  BY <1>1, <1>3 DEF ShortCircuit
<1>4. CASE ~hit /\ v \in Scored(t)
  <2>1. PICK raw, d, llm, route :
          /\ route \in RouteOf(Effective(RuleScore(raw, d), llm))
          /\ v = [route |-> route, raw |-> raw, rule |-> RuleScore(raw, d), llm |-> llm,
                  seen |-> t]
    BY <1>4, ScoredFields
  <2>2. route # "archive_dedup"
    BY <2>1 DEF RouteOf
  <2> QED BY <1>1, <1>4, <2>1, <2>2
<1> QED BY <1>2, <1>3, <1>4 DEF Verdicts

-----------------------------------------------------------------------------
(* Types *)

\* The group a commit leaves is a group row.
LEMMA GroupAfterType ==
  ASSUME TypeOK, NEW g \in Runs, NEW a \in Alerts, NEW old \in Group
  PROVE  /\ GroupAfter(g, a, old) \in Group
         /\ Hit(g) => GroupAfter(g, a, old) = [old EXCEPT !.count = read[g].count + 1]
         /\ read[g] # None /\ read[g].end < at[g]
              => GroupAfter(g, a, old) = Renewed(g, a, old)
         /\ ~Hit(g) /\ read[g] # None /\ ~(read[g].end < at[g])
              => GroupAfter(g, a, old) = [old EXCEPT !.rep = a]
<1> USE TriageAssumption
<1>0. read[g] # None => read[g] \in Group
  BY DEF TypeOK
<1>1. at[g] \in 0..MaxTime /\ at[g] + Window \in 0..(MaxTime + Window)
  BY DEF TypeOK
<1>2. CASE Hit(g)
  <2>1. read[g].end >= at[g]
    BY <1>2 DEF Hit, InWindow
  <2> QED BY <1>0, <1>1, <1>2, <2>1 DEF GroupAfter, Hit, InWindow, Group
<1>3. CASE read[g] = None
  <2>1. ~Hit(g)
    BY <1>3 DEF Hit
  <2>2. GroupAfter(g, a, old) = Founded(g, a)
    BY <1>3, <2>1 DEF GroupAfter
  <2> QED BY <1>1, <1>3, <2>1, <2>2 DEF Founded, Group
<1>4. CASE ~Hit(g) /\ read[g] # None /\ read[g].end < at[g]
  <2>1. GroupAfter(g, a, old) = Renewed(g, a, old)
    BY <1>4 DEF GroupAfter
  <2> QED BY <1>1, <1>4, <2>1 DEF Renewed, Group
<1>5. CASE ~Hit(g) /\ read[g] # None /\ ~(read[g].end < at[g])
  <2>1. GroupAfter(g, a, old) = [old EXCEPT !.rep = a]
    BY <1>5 DEF GroupAfter
  <2> QED BY <1>5, <2>1 DEF Group
<1> QED BY <1>2, <1>3, <1>4, <1>5

\* The first alert of a fingerprint leaves a group row as well.
LEMMA FoundedType ==
  ASSUME TypeOK, NEW g \in Runs, NEW a \in Alerts, NEW old, read[g] = None
  PROVE  GroupAfter(g, a, old) = Founded(g, a) /\ Founded(g, a) \in Group
<1>1. ~Hit(g)
  BY DEF Hit
<1>2. at[g] \in 0..MaxTime /\ at[g] + Window \in 0..(MaxTime + Window)
  BY TriageAssumption DEF TypeOK
<1> QED BY <1>1, <1>2 DEF GroupAfter, Founded, Group

-----------------------------------------------------------------------------
(* A fingerprint is judged before it is suppressed *)

LEMMA InitDedup == Init => DedupInv
BY TriageAssumption DEF Init, DedupInv, TypeOK, TimesInv, GroupsInv, ReadInv, JudgedInv,
   DuplicateIsCovered, InTransaction, IsDuplicate

\* What is covered stays covered while results are final.
LEMMA CoveredStays ==
  ASSUME NEW grp, NEW f, Covered(grp, f),
         \A a \in Alerts : result[a] # None => result'[a] = result[a]
  PROVE  Covered(grp, f)'
BY DEF Covered, IsFirst

\* Steps that commit nothing and let no run get further in a transaction: fetching,
\* the end of a run for any reason, and what happens around the runs.
LEMMA QuietStep ==
  ASSUME DedupInv, TypeOK', UNCHANGED <<result, group, at>>, clock' >= clock,
         \A g \in Runs : InTransaction(g)' =>
           /\ InTransaction(g)
           /\ pc'[g] = pc[g] /\ todo'[g] = todo[g]
           /\ read'[g] = read[g] /\ verdict'[g] = verdict[g]
  PROVE  DedupInv'
<1> USE DEF DedupInv
<1>1. TimesInv'
  <2>1. ASSUME NEW a \in Alerts, result[a] # None
        PROVE  result[a].seen \in Nat
    <3>1. result[a] \in Result
      BY <2>1 DEF TypeOK
    <3>2. PICK hit \in BOOLEAN, t \in 0..MaxTime : result[a] \in Verdicts(hit, t)
      BY <3>1 DEF Result
    <3> QED BY <3>2, VerdictFacts, TriageAssumption
  <2> QED BY <2>1, TriageAssumption DEF TimesInv, TypeOK
<1>2. GroupsInv'
  BY DEF GroupsInv, Covered, IsFirst
<1>3. ReadInv'
  BY DEF ReadInv, InTransaction, Current, Covered, IsFirst
<1>4. JudgedInv'
  BY DEF JudgedInv, InTransaction, Hit, InWindow
<1>5. DuplicateIsCovered'
  BY DEF DuplicateIsCovered, IsDuplicate, IsFirst
<1> QED BY <1>1, <1>2, <1>3, <1>4, <1>5

\* A rolled-back run.
LEMMA OverIsQuiet ==
  ASSUME DedupInv, NEW g \in Runs, Over(g), faults' \in 0..MaxFaults
  PROVE  DedupInv'
<1>1. TypeOK'
  BY DEF DedupInv, TypeOK, Over
<1>2. clock' >= clock
  BY TriageAssumption DEF DedupInv, TypeOK, Over
<1> QED BY <1>1, <1>2, QuietStep DEF Over, InTransaction, DedupInv, TypeOK

LEMMA FetchKeeps == ASSUME DedupInv, NEW g \in Runs, Fetch(g) PROVE DedupInv'
<1>1. Batch \subseteq Alerts
  BY DEF Batch, NewAlerts
<1>2. TypeOK'
  BY <1>1 DEF DedupInv, TypeOK, Fetch
<1>3. clock' >= clock
  BY TriageAssumption DEF DedupInv, TypeOK, Fetch
<1> QED BY <1>2, <1>3, QuietStep DEF Fetch, InTransaction, DedupInv, TypeOK

LEMMA SurroundingsKeep ==
  ASSUME DedupInv, Tick \/ Crash \/ LockExpires \/ UNCHANGED vars
  PROVE  DedupInv'
<1> USE TriageAssumption DEF DedupInv, TypeOK
<1>1. CASE Tick
  <2>1. TypeOK' BY <1>1 DEF Tick
  <2> QED BY <1>1, <2>1, QuietStep DEF Tick, InTransaction
<1>2. CASE Crash
  <2>1. TypeOK' BY <1>2 DEF Crash
  <2> QED BY <1>2, <2>1, QuietStep DEF Crash, InTransaction
<1>3. CASE LockExpires
  <2>1. TypeOK' BY <1>3 DEF LockExpires
  <2> QED BY <1>3, <2>1, QuietStep DEF LockExpires, InTransaction
<1>4. CASE UNCHANGED vars
  <2>1. TypeOK' BY <1>4 DEF vars
  <2> QED BY <1>4, <2>1, QuietStep DEF vars, InTransaction
<1> QED BY <1>1, <1>2, <1>3, <1>4

\* The run reads the group of its alert: it is covered because every group is.
LEMMA ReadGroupKeeps == ASSUME DedupInv, NEW g \in Runs, ReadGroup(g) PROVE DedupInv'
<1> USE DEF DedupInv
<1>1. PICK a \in Alerts : Current(g, a) /\ read' = [read EXCEPT ![g] = group[FingerprintOf[a]]]
  BY DEF ReadGroup
<1>2. FingerprintOf[a] \in Fingerprints
  BY TriageAssumption
<1>3. TypeOK'
  BY <1>1, <1>2 DEF TypeOK, ReadGroup
<1>4. TimesInv'
  BY TriageAssumption DEF TimesInv, TypeOK, ReadGroup
<1>5. GroupsInv'
  BY DEF GroupsInv, Covered, IsFirst, ReadGroup
<1>6. ReadInv'
  <2> SUFFICES ASSUME NEW h \in Runs, NEW b \in Alerts, InTransaction(h)', Current(h, b)',
                      read'[h] # None
               PROVE  /\ group[FingerprintOf[b]] # None
                      /\ Covered(read'[h], FingerprintOf[b])
                      /\ read'[h].start <= at'[h]
    BY DEF ReadInv, Covered, IsFirst, ReadGroup
  <2>1. CASE h = g
    <3>1. a = b
      BY <1>1, <2>1, TriageAssumption DEF Current, ReadGroup
    <3>2. read'[h] = group[FingerprintOf[a]] /\ at'[h] = clock
      BY <1>1, <2>1 DEF TypeOK, ReadGroup
    <3>3. Covered(group[FingerprintOf[a]], FingerprintOf[a])
      BY <1>2, <3>2 DEF GroupsInv
    <3>4. group[FingerprintOf[a]].start <= clock
      BY <3>3 DEF Covered, IsFirst, TimesInv
    <3> QED BY <3>1, <3>2, <3>3, <3>4
  <2>2. CASE h # g
    BY <1>1, <2>2 DEF ReadInv, InTransaction, Current, TypeOK, ReadGroup
  <2> QED BY <2>1, <2>2
<1>7. JudgedInv'
  BY <1>1 DEF JudgedInv, Hit, InWindow, TypeOK, ReadGroup
<1>8. DuplicateIsCovered'
  BY DEF DuplicateIsCovered, IsDuplicate, IsFirst, ReadGroup
<1> QED BY <1>3, <1>4, <1>5, <1>6, <1>7, <1>8

\* The verdict follows from what the run has read.
LEMMA JudgeKeeps == ASSUME DedupInv, NEW g \in Runs, Judge(g) PROVE DedupInv'
<1> USE DEF DedupInv
<1>1. PICK v \in Verdicts(Hit(g), at[g]) : verdict' = [verdict EXCEPT ![g] = v]
  BY DEF Judge
<1>2. v \in Result
  BY VerdictFacts DEF TypeOK, Hit
<1>3. TypeOK'
  BY <1>1, <1>2, TriageAssumption DEF TypeOK, Judge
<1>4. TimesInv'
  BY DEF TimesInv, Judge
<1>5. GroupsInv'
  BY DEF GroupsInv, Covered, IsFirst, Judge
<1>6. ReadInv'
  BY DEF ReadInv, InTransaction, Current, Covered, IsFirst, TypeOK, Judge
<1>7. JudgedInv'
  BY <1>1 DEF JudgedInv, Hit, InWindow, TypeOK, Judge
<1>8. DuplicateIsCovered'
  BY DEF DuplicateIsCovered, IsDuplicate, IsFirst, Judge
<1> QED BY <1>3, <1>4, <1>5, <1>6, <1>7, <1>8

\* The commit.  A duplicate is covered by what its run read; every other verdict
\* starts a window or leaves the group's as it is.
LEMMA CommitKeeps == ASSUME DedupInv, NEW g \in Runs, Commit(g) PROVE DedupInv'
<1> USE TriageAssumption, NullAssumption DEF DedupInv
<1>1. PICK a \in Alerts :
        /\ Current(g, a) /\ UniqueResult(a)
        /\ result' = [result EXCEPT ![a] = verdict[g]]
        /\ status' = [status EXCEPT ![a] = IF verdict[g].route \in ArchiveRoutes
                                           THEN "archived" ELSE "triaged"]
        /\ group' = [group EXCEPT ![FingerprintOf[a]] = GroupAfter(g, a, @)]
        /\ groupLock' = [groupLock EXCEPT ![FingerprintOf[a]] = None]
        /\ todo' = [todo EXCEPT ![g] = @ \ {a}]
  BY DEF Commit
<1> DEFINE f == FingerprintOf[a]
           old == group[f]
<1>2. f \in Fingerprints /\ InTransaction(g) /\ pc[g] = "judged"
  BY DEF Commit, InTransaction
<1>3. /\ verdict[g] \in Result /\ verdict[g] # None
      /\ verdict[g].seen = at[g]
      /\ verdict[g].route = "archive_dedup" <=> Hit(g)
  <2>1. verdict[g] \in Verdicts(Hit(g), at[g]) /\ Hit(g) \in BOOLEAN /\ at[g] \in 0..MaxTime
    BY <1>2 DEF JudgedInv, Hit, TypeOK
  <2> QED BY <2>1, VerdictFacts
<1>4. read[g] # None =>
        /\ old # None /\ old \in Group /\ read[g] \in Group
        /\ Covered(read[g], f) /\ read[g].start <= at[g]
  BY <1>1, <1>2 DEF ReadInv, TypeOK
<1>5. \A b \in Alerts : result[b] # None => result'[b] = result[b] /\ b # a
  BY <1>1 DEF TypeOK, UniqueResult
<1>6. result'[a] = verdict[g] /\ group'[f] = GroupAfter(g, a, old)
  BY <1>1, <1>2 DEF TypeOK
<1>7. GroupAfter(g, a, old) \in Group /\ GroupAfter(g, a, old) # None
  BY <1>4, GroupAfterType, FoundedType
<1>8. TypeOK'
  BY <1>1, <1>2, <1>3, <1>7 DEF TypeOK, Commit
<1>9. TimesInv'
  <2>1. verdict[g].seen <= clock
    BY <1>3 DEF TimesInv
  <2> QED BY <1>1, <2>1 DEF TimesInv, TypeOK, Commit
<1>10. GroupsInv'
  <2> SUFFICES ASSUME NEW e \in Fingerprints, group'[e] # None
               PROVE  Covered(group[e], e)'
    BY DEF GroupsInv
  <2>1. CASE e # f
    <3>1. group'[e] = group[e]
      BY <1>1, <2>1 DEF TypeOK
    <3>2. Covered(group'[e], e)
      BY <3>1 DEF GroupsInv
    <3> QED BY <1>5, <3>1, <3>2 DEF Covered, IsFirst
  <2>2. CASE e = f /\ ~Hit(g) /\ GroupAfter(g, a, old).start = at[g]
                  /\ GroupAfter(g, a, old).end = at[g] + Window
    BY <1>3, <1>6, <2>2 DEF Covered, IsFirst
  <2>3. CASE /\ e = f /\ read[g] # None
             /\ GroupAfter(g, a, old).start = old.start
             /\ GroupAfter(g, a, old).end = old.end
    <3>1. Covered(old, f)
      BY <1>2, <1>4, <2>3 DEF GroupsInv
    <3> QED BY <1>5, <1>6, <2>3, <3>1 DEF Covered, IsFirst
  <2>4. \/ /\ ~Hit(g) /\ GroupAfter(g, a, old).start = at[g]
           /\ GroupAfter(g, a, old).end = at[g] + Window
        \/ /\ read[g] # None /\ GroupAfter(g, a, old).start = old.start
           /\ GroupAfter(g, a, old).end = old.end
    <3>1. CASE read[g] = None
      <4>1. GroupAfter(g, a, old) = Founded(g, a)
        BY <3>1, FoundedType
      <4> QED BY <3>1, <4>1 DEF Founded, Hit
    <3>2. CASE Hit(g)
      <4>1. read[g] # None /\ old \in Group
        BY <1>4, <3>2 DEF Hit
      <4>2. GroupAfter(g, a, old) = [old EXCEPT !.count = read[g].count + 1]
        BY <3>2, <4>1, GroupAfterType
      <4> QED BY <4>1, <4>2 DEF Group
    <3>3. CASE ~Hit(g) /\ read[g] # None /\ read[g].end < at[g]
      <4>1. GroupAfter(g, a, old) = Renewed(g, a, old)
        BY <1>4, <3>3, GroupAfterType
      <4> QED BY <3>3, <4>1 DEF Renewed
    <3>4. CASE ~Hit(g) /\ read[g] # None /\ ~(read[g].end < at[g])
      <4>1. GroupAfter(g, a, old) = [old EXCEPT !.rep = a]
        BY <1>4, <3>4, GroupAfterType
      <4> QED BY <1>4, <3>4, <4>1 DEF Group
    <3> QED BY <3>1, <3>2, <3>3, <3>4
  <2> QED BY <2>1, <2>2, <2>3, <2>4
<1>11. ReadInv'
  <2> SUFFICES ASSUME NEW h \in Runs, NEW b \in Alerts, InTransaction(h)', Current(h, b)',
                      read'[h] # None
               PROVE  /\ group'[FingerprintOf[b]] # None
                      /\ Covered(read[h], FingerprintOf[b])'
                      /\ read'[h].start <= at'[h]
    BY DEF ReadInv
  <2>1. h # g
    BY DEF InTransaction, TypeOK, Commit
  <2>2. /\ InTransaction(h) /\ Current(h, b)
        /\ read'[h] = read[h] /\ at'[h] = at[h]
    BY <1>1, <2>1 DEF InTransaction, Current, TypeOK, Commit
  <2>3. /\ group[FingerprintOf[b]] # None
        /\ Covered(read[h], FingerprintOf[b]) /\ read[h].start <= at[h]
    BY <2>2 DEF ReadInv
  <2>4. group'[FingerprintOf[b]] # None
    BY <1>1, <1>7, <2>3 DEF TypeOK
  <2> QED BY <1>5, <2>2, <2>3, <2>4 DEF Covered, IsFirst
<1>12. JudgedInv'
  BY DEF JudgedInv, Hit, InWindow, TypeOK, Commit
<1>13. DuplicateIsCovered'
  <2> SUFFICES ASSUME NEW b \in Alerts, IsDuplicate(b)'
               PROVE  \E c \in Alerts :
                        /\ SameFingerprint(c, b) /\ IsFirst(c)'
                        /\ result'[c].seen <= result'[b].seen
                        /\ result'[b].seen <= result'[c].seen + Window
    BY DEF DuplicateIsCovered, SameFingerprint
  <2>1. CASE b = a
    <3>1. Hit(g)
      BY <1>3, <1>6, <2>1 DEF IsDuplicate
    <3>2. PICK c \in Alerts :
            /\ FingerprintOf[c] = f /\ IsFirst(c)
            /\ read[g].start = result[c].seen /\ read[g].end = result[c].seen + Window
      BY <1>4, <3>1 DEF Covered, Hit
    <3>3. result'[c] = result[c] /\ IsFirst(c)'
      BY <1>5, <3>2 DEF IsFirst
    <3>4. read[g].start <= at[g] /\ read[g].end >= at[g]
      BY <1>4, <3>1 DEF Hit, InWindow
    <3>5. read[g].end >= at[g] <=> at[g] <= read[g].end
      BY <1>4, <3>1 DEF Hit, Group, TypeOK
    <3> QED BY <1>3, <1>6, <2>1, <3>2, <3>3, <3>4, <3>5 DEF SameFingerprint
  <2>2. CASE b # a
    <3>1. result'[b] = result[b] /\ IsDuplicate(b)
      BY <1>1, <2>2 DEF TypeOK, IsDuplicate
    <3> QED BY <1>5, <3>1 DEF DuplicateIsCovered, IsFirst
  <2> QED BY <2>1, <2>2
<1> QED BY <1>8, <1>9, <1>10, <1>11, <1>12, <1>13

-----------------------------------------------------------------------------
(* Theorems *)

LEMMA NextDedup == ASSUME DedupInv, [Next]_vars PROVE DedupInv'
<1>1. ASSUME NEW g \in Runs, RunStep(g) PROVE DedupInv'
  <2>1. CASE Conflict(g) \/ Fail(g) \/ End(g)
    <3>1. Over(g) /\ faults' \in 0..MaxFaults
      BY <2>1, TriageAssumption DEF Conflict, Fail, End, DedupInv, TypeOK
    <3> QED BY <3>1, OverIsQuiet
  <2> QED BY <1>1, <2>1, FetchKeeps, ReadGroupKeeps, JudgeKeeps, CommitKeeps DEF RunStep
<1>2. CASE ~ \E g \in Runs : RunStep(g)
  BY <1>2, SurroundingsKeep DEF Next
<1> QED BY <1>1, <1>2

\* Rows, Redis key and runs keep their types (TriageService.run).
THEOREM TriageTypes == Spec => []TypeOK
<1>1. DedupInv => TypeOK
  BY DEF DedupInv
<1> QED BY <1>1, InitDedup, NextDedup, PTL DEF Spec

\* With or without the lock, whatever dies: no fingerprint is suppressed unless an
\* alert of it was judged within the window before (dedup.py).
THEOREM DuplicatesAreCovered == Spec => []DuplicateIsCovered
<1>1. DedupInv => DuplicateIsCovered
  BY DEF DedupInv
<1> QED BY <1>1, InitDedup, NextDedup, PTL DEF Spec

\* No run changes a result another one has committed (triage_service.py).
THEOREM ResultsAreFinal == Spec => TriagedOnce
<1>1. ASSUME TypeOK, [Next]_vars, NEW a \in Alerts, result[a] # None
      PROVE  UNCHANGED <<result[a], status[a]>>
  <2>1. CASE UNCHANGED <<result, status>>
    BY <2>1
  <2>2. CASE \E g \in Runs : Commit(g)
    BY <1>1, <2>2 DEF Commit, UniqueResult, TypeOK
  <2> QED BY <1>1, <2>1, <2>2 DEF Next, RunStep, Fetch, ReadGroup, Judge, Conflict, Fail,
             End, Over, Tick, Crash, LockExpires, vars
<1>2. TypeOK /\ [Next]_vars
        => [\A a \in Alerts : result[a] # None => UNCHANGED <<result[a], status[a]>>]_vars
  BY <1>1
<1> QED BY <1>2, TriageTypes, PTL DEF Spec, TriagedOnce

\* For all thresholds, also where low_risk_threshold lies in or above the uncertain
\* band: routing and its prediction agree (llm_assist.py, router.py).
THEOREM PredictionIsRight == Spec => []RouteAsPredicted
<1>1. TypeOK => RouteAsPredicted
  <2> SUFFICES ASSUME TypeOK, NEW a \in Alerts, result[a] # None, result[a].rule # None,
                      result[a].llm = None
               PROVE  \/ result[a].route = Predict(result[a].rule)
                      \/ /\ result[a].route = "sample_audit"
                         /\ Predict(result[a].rule) = "archive_low_risk"
    BY DEF RouteAsPredicted
  <2>1. result[a] \in Result
    BY DEF TypeOK
  <2>2. PICK hit \in BOOLEAN, t \in 0..MaxTime : result[a] \in Verdicts(hit, t)
    BY <2>1 DEF Result
  <2>3. result[a] \in Scored(t)
    BY <2>2 DEF Verdicts, ShortCircuit
  <2> QED BY <2>3, ScoredAsPredicted
<1> QED BY <1>1, TriageTypes, PTL

-----------------------------------------------------------------------------
(* Under the lock *)

\* The key serializes the runs, so that a run's batch is new and what it has read of a
\* group is still the row.
AloneInv ==
  /\ \A g \in Runs : pc[g] # "idle" => lock = g
  /\ \A g \in Runs : \A a \in todo[g] : pc[g] # "idle" /\ result[a] = None
  /\ \A g \in Runs, a \in Alerts :
       InTransaction(g) /\ Current(g, a) => read[g] = group[FingerprintOf[a]]

\* The alerts a group with this start has to count.
Since(f, start) ==
  {a \in Alerts : FingerprintOf[a] = f /\ result[a] # None /\ result[a].seen >= start}

\* A group is no younger than the alerts it stands for: the window of its
\* representative has not been over for any of them.
WindowsInv ==
  /\ IsFiniteSet({a \in Alerts : result[a] # None})
  /\ \A f \in Fingerprints : group[f] # None => group[f].rep # None
  /\ \A a \in Alerts : result[a] # None =>
       /\ group[FingerprintOf[a]] # None
       /\ result[a].seen <= group[FingerprintOf[a]].end
       /\ IsFirst(a) => result[a].seen <= group[FingerprintOf[a]].start

LockedInv == DedupInv /\ AloneInv /\ WindowsInv /\ OneRepresentative /\ OccurrenceExact

LEMMA LockedInit == Init => LockedInv
<1> SUFFICES ASSUME Init PROVE LockedInv
  OBVIOUS
<1>1. \A a \in Alerts : result[a] = None
  BY DEF Init
<1>2. AloneInv
  BY DEF Init, AloneInv, InTransaction
<1>3. {a \in Alerts : result[a] # None} = {}
  BY <1>1
<1>4. WindowsInv
  BY <1>1, <1>3, FS_EmptySet DEF Init, WindowsInv
<1>5. OneRepresentative /\ OccurrenceExact
  BY <1>1 DEF Init, OneRepresentative, OccurrenceExact, IsFirst
<1> QED BY <1>2, <1>4, <1>5, InitDedup DEF LockedInv

\* Without a commit no row changes.
LEMMA RowsStay ==
  ASSUME WindowsInv, OneRepresentative, OccurrenceExact, UNCHANGED <<result, group>>
  PROVE  WindowsInv' /\ OneRepresentative' /\ OccurrenceExact'
BY DEF WindowsInv, OneRepresentative, OccurrenceExact, IsFirst, SameFingerprint

\* A run that is over leaves the rest as it was, and no batch.
LEMMA OverAlone ==
  ASSUME DedupInv, AloneInv, NEW g \in Runs, Over(g)
  PROVE  AloneInv'
BY DEF DedupInv, TypeOK, AloneInv, Over, InTransaction, Current

\* The other steps but a commit: a run takes the key when nobody is at work, and reads
\* the row as it is.
LEMMA QuietAlone ==
  ASSUME DedupInv, AloneInv, Unlocked = {}, NEW g \in Runs,
         Fetch(g) \/ ReadGroup(g) \/ Judge(g)
  PROVE  AloneInv'
<1> USE TriageAssumption DEF DedupInv, TypeOK
<1>1. CASE Fetch(g)
  <2>0. lock = None /\ lock' = g /\ \A h \in Runs : pc[h] = "idle"
    BY <1>1 DEF Fetch, AloneInv
  <2>1. \A h \in Runs : pc[h] = "idle" /\ \A a \in todo[h] : FALSE
    BY <2>0 DEF AloneInv
  <2>2. \A a \in Batch : result[a] = None
    BY DEF Batch, NewAlerts
  <2>3. /\ pc' = [pc EXCEPT ![g] = "fetched"]
        /\ todo' = [todo EXCEPT ![g] = Batch] /\ UNCHANGED result
    BY <1>1 DEF Fetch
  <2>4. \A h \in Runs : pc'[h] # "idle" => h = g
    BY <2>1, <2>3
  <2>5. \A h \in Runs : \A a \in todo'[h] : h = g /\ a \in Batch
    BY <2>1, <2>3
  <2>6. \A h \in Runs : ~InTransaction(h)'
    BY <2>1, <2>3 DEF InTransaction
  <2> QED BY <2>0, <2>2, <2>3, <2>4, <2>5, <2>6 DEF AloneInv
<1>2. CASE ReadGroup(g)
  <2>1. PICK a \in Alerts : Current(g, a) /\ read' = [read EXCEPT ![g] = group[FingerprintOf[a]]]
    BY <1>2 DEF ReadGroup
  <2>2. \A b \in Alerts : Current(g, b) => b = a
    BY <2>1 DEF Current
  <2>3. /\ pc' = [pc EXCEPT ![g] = "read"] /\ pc[g] = "fetched"
        /\ UNCHANGED <<result, group, lock, todo>>
    BY <1>2 DEF ReadGroup
  <2>4. ASSUME NEW h \in Runs, NEW b \in Alerts, InTransaction(h)', Current(h, b)'
        PROVE  read'[h] = group'[FingerprintOf[b]]
    <3>1. Current(h, b)
      BY <2>3, <2>4 DEF Current
    <3>2. CASE h = g
      BY <2>1, <2>2, <2>3, <3>1, <3>2
    <3>3. CASE h # g
      BY <2>1, <2>3, <2>4, <3>1, <3>3 DEF AloneInv, InTransaction
    <3> QED BY <3>2, <3>3
  <2> QED BY <2>3, <2>4 DEF AloneInv
<1>3. CASE Judge(g)
  BY <1>3 DEF Judge, AloneInv, InTransaction, Current
<1> QED BY <1>1, <1>2, <1>3

LEMMA AroundAlone ==
  ASSUME DedupInv, AloneInv, ~MayOverrun, Tick \/ Crash \/ LockExpires \/ UNCHANGED vars
  PROVE  AloneInv'
<1> USE TriageAssumption DEF DedupInv, TypeOK
<1>1. CASE Tick
  BY <1>1 DEF Tick, AloneInv, InTransaction, Current
<1>2. CASE Crash
  BY <1>2 DEF Crash, AloneInv, InTransaction
<1>3. CASE LockExpires
  <2>1. \A g \in Runs : pc[g] = "idle"
    BY <1>3 DEF LockExpires, AloneInv
  <2> QED BY <1>3, <2>1 DEF LockExpires, AloneInv, InTransaction
<1>4. CASE UNCHANGED vars
  BY <1>4 DEF vars, AloneInv, InTransaction, Current
<1> QED BY <1>1, <1>2, <1>3, <1>4

\* What one commit does under the lock: a verdict of this moment, and the group row the
\* run has read.
LEMMA CommitFacts ==
  ASSUME DedupInv, AloneInv, NEW g \in Runs, Commit(g)
  PROVE  \E a \in Alerts, v \in Result, grp \in Group :
           LET f == FingerprintOf[a]
           IN  /\ Current(g, a) /\ result[a] = None /\ v # None
               /\ result' = [result EXCEPT ![a] = v]
               /\ group' = [group EXCEPT ![f] = grp]
               /\ todo' = [todo EXCEPT ![g] = @ \ {a}]
               /\ v.seen = at[g] /\ (v.route = "archive_dedup" <=> Hit(g))
               /\ read[g] = group[f]
               /\ grp = GroupAfter(g, a, group[f])
<1> USE TriageAssumption, NullAssumption
<1>1. PICK a \in Alerts :
        /\ Current(g, a) /\ UniqueResult(a)
        /\ result' = [result EXCEPT ![a] = verdict[g]]
        /\ group' = [group EXCEPT ![FingerprintOf[a]] = GroupAfter(g, a, @)]
        /\ todo' = [todo EXCEPT ![g] = @ \ {a}]
  BY DEF Commit
<1> DEFINE f == FingerprintOf[a]
           grp == GroupAfter(g, a, group[f])
<1>2. f \in Fingerprints /\ InTransaction(g) /\ pc[g] = "judged" /\ read[g] = group[f]
  BY <1>1 DEF Commit, InTransaction, AloneInv
<1>3. /\ verdict[g] \in Result /\ verdict[g] # None /\ verdict[g].seen = at[g]
      /\ verdict[g].route = "archive_dedup" <=> Hit(g)
  <2>1. verdict[g] \in Verdicts(Hit(g), at[g]) /\ Hit(g) \in BOOLEAN /\ at[g] \in 0..MaxTime
    BY <1>2 DEF DedupInv, JudgedInv, Hit, TypeOK
  <2> QED BY <2>1, VerdictFacts
<1>4. group[f] # None => group[f] \in Group
  BY <1>2 DEF DedupInv, TypeOK
<1>5. grp \in Group
  BY <1>2, <1>4, GroupAfterType, FoundedType DEF DedupInv
<1>6. group' = [group EXCEPT ![f] = grp]
  BY <1>1
<1> QED BY <1>1, <1>2, <1>3, <1>5, <1>6 DEF UniqueResult

\* The group a commit leaves: it counts one alert more, or starts with this one when the
\* last window is over.
LEMMA GroupsUnderLock ==
  ASSUME DedupInv, WindowsInv, NEW g \in Runs, NEW a \in Alerts,
         InTransaction(g), Current(g, a), read[g] = group[FingerprintOf[a]]
  PROVE  LET old == group[FingerprintOf[a]]
             grp == GroupAfter(g, a, old)
         IN  \/ /\ Hit(g) /\ old # None /\ old.start <= at[g] /\ at[g] <= old.end
                /\ grp = [old EXCEPT !.count = old.count + 1]
             \/ /\ ~Hit(g)
                /\ grp = [start |-> at[g], end |-> at[g] + Window, count |-> 1, rep |-> a]
                /\ old # None => old.end = old.start + Window /\ old.end < at[g]
<1> USE TriageAssumption
<1> DEFINE f == FingerprintOf[a]
           old == group[f]
<1>1. /\ f \in Fingerprints /\ at[g] \in Nat
      /\ old # None => /\ old \in Group /\ old.rep # None /\ old.start <= at[g]
                       /\ old.end = old.start + Window
  <2>1. f \in Fingerprints /\ at[g] \in 0..MaxTime
    BY DEF DedupInv, TypeOK
  <2>2. old # None => Covered(old, f) /\ old \in Group /\ old.rep # None
    BY <2>1 DEF DedupInv, TypeOK, GroupsInv, WindowsInv
  <2>3. old # None => old.start <= at[g]
    BY DEF DedupInv, ReadInv
  <2> QED BY <2>1, <2>2, <2>3 DEF Covered
<1>2. CASE old = None
  <2>1. GroupAfter(g, a, old) = Founded(g, a) /\ ~Hit(g)
    BY <1>2, FoundedType DEF DedupInv, Hit
  <2> QED BY <1>2, <2>1 DEF Founded
<1>3. CASE Hit(g)
  <2>1. old # None /\ at[g] <= old.end
    BY <1>1, <1>3 DEF Hit, InWindow, Group
  <2>2. GroupAfter(g, a, old) = [old EXCEPT !.count = read[g].count + 1]
    BY <1>1, <1>3, <2>1, GroupAfterType DEF DedupInv
  <2> QED BY <1>1, <1>3, <2>1, <2>2
<1>4. CASE old # None /\ ~Hit(g)
  <2>1. old.end < at[g]
    BY <1>1, <1>4 DEF Hit, InWindow, Group
  <2>2. GroupAfter(g, a, old) = Renewed(g, a, old)
    BY <1>1, <1>4, <2>1, GroupAfterType DEF DedupInv
  <2> QED BY <1>1, <1>4, <2>1, <2>2 DEF Renewed
<1> QED BY <1>2, <1>3, <1>4

\* The commit takes the alert from the batch, and no other run is at work.
LEMMA CommitAlone ==
  ASSUME DedupInv, AloneInv, NEW g \in Runs, Commit(g)
  PROVE  AloneInv'
<1>1. PICK a \in Alerts : \E v, grp :
        /\ Current(g, a) /\ result' = [result EXCEPT ![a] = v]
        /\ group' = [group EXCEPT ![FingerprintOf[a]] = grp]
        /\ todo' = [todo EXCEPT ![g] = @ \ {a}]
  BY DEF Commit
<1>2. pc' = [pc EXCEPT ![g] = "fetched"] /\ lock' = lock /\ pc[g] = "judged"
  BY DEF Commit
<1>3. \A h \in Runs \ {g} : pc[h] = "idle" /\ todo[h] = {}
  <2>1. lock = g
    BY <1>2 DEF AloneInv
  <2>2. \A h \in Runs \ {g} : pc[h] = "idle"
    BY <2>1 DEF AloneInv
  <2> QED
    BY <2>2 DEF AloneInv
<1>4. \A h \in Runs : ~InTransaction(h)'
  BY <1>2, <1>3 DEF InTransaction, DedupInv, TypeOK
<1>5. \A h \in Runs : pc'[h] # "idle" => lock' = h
  BY <1>2 DEF AloneInv, DedupInv, TypeOK
<1>6. ASSUME NEW h \in Runs, NEW b \in todo'[h] PROVE pc'[h] # "idle" /\ result'[b] = None
  <2>1. h = g
    BY <1>1, <1>3, <1>6 DEF DedupInv, TypeOK
  <2>2. b \in todo[g] /\ b # a
    BY <1>1, <1>6, <2>1 DEF DedupInv, TypeOK
  <2>3. b \in Alerts /\ result[b] = None
    BY <2>2 DEF AloneInv, DedupInv, TypeOK
  <2>4. result'[b] = result[b]
    BY <1>1, <2>2, <2>3 DEF DedupInv, TypeOK
  <2> QED
    BY <1>2, <2>1, <2>3, <2>4 DEF DedupInv, TypeOK
<1> QED BY <1>4, <1>5, <1>6 DEF AloneInv

\* The commit keeps the windows apart and the counts right.
LEMMA CommitCounts ==
  ASSUME LockedInv, NEW g \in Runs, Commit(g), DedupInv'
  PROVE  WindowsInv' /\ OneRepresentative' /\ OccurrenceExact'
<1> USE TriageAssumption, NullAssumption DEF LockedInv
<1>1. PICK a \in Alerts, v \in Result, grp \in Group :
        LET f == FingerprintOf[a]
        IN  /\ Current(g, a) /\ result[a] = None /\ v # None
            /\ result' = [result EXCEPT ![a] = v]
            /\ group' = [group EXCEPT ![f] = grp]
            /\ todo' = [todo EXCEPT ![g] = @ \ {a}]
            /\ v.seen = at[g] /\ (v.route = "archive_dedup" <=> Hit(g))
            /\ read[g] = group[f]
            /\ grp = GroupAfter(g, a, group[f])
  BY CommitFacts
<1> DEFINE f == FingerprintOf[a]
           old == group[f]
<1>2. /\ f \in Fingerprints /\ InTransaction(g) /\ at[g] \in Nat
      /\ grp # None /\ grp.start \in Nat /\ grp.end \in Nat /\ grp.count \in Nat
      /\ old # None => old \in Group /\ old.start \in Nat /\ old.end \in Nat /\ old.count \in Nat
  BY DEF Commit, InTransaction, DedupInv, TypeOK, Group
<1>3. \/ /\ Hit(g) /\ old # None /\ old.start <= at[g] /\ at[g] <= old.end
         /\ grp = [old EXCEPT !.count = old.count + 1]
      \/ /\ ~Hit(g)
         /\ grp = [start |-> at[g], end |-> at[g] + Window, count |-> 1, rep |-> a]
         /\ old # None => old.end = old.start + Window /\ old.end < at[g]
  BY <1>1, <1>2, GroupsUnderLock
<1>4. /\ result \in [Alerts -> Result \cup {None}] /\ group \in [Fingerprints -> Group \cup {None}]
      /\ \A b \in Alerts : result'[b] = IF b = a THEN v ELSE result[b]
      /\ \A e \in Fingerprints : group'[e] = IF e = f THEN grp ELSE group[e]
  BY <1>1, <1>2 DEF DedupInv, TypeOK
<1>5. \A b \in Alerts : result[b] # None => result[b].seen \in Nat
  <2> SUFFICES ASSUME NEW b \in Alerts, result[b] # None PROVE result[b].seen \in Nat
    OBVIOUS
  <2>1. PICK hit \in BOOLEAN, t \in 0..MaxTime : result[b] \in Verdicts(hit, t)
    BY <1>4 DEF Result
  <2> QED BY <2>1, VerdictFacts
<1>6. IsFirst(a)' <=> ~Hit(g)
  BY <1>1, <1>4 DEF IsFirst
<1>7. \A b \in Alerts \ {a} : IsFirst(b)' <=> IsFirst(b)
  BY <1>4 DEF IsFirst
\* What is known of the alerts of this fingerprint.
<1>8. \A b \in Alerts : result[b] # None /\ FingerprintOf[b] = f =>
        /\ old # None /\ result[b].seen <= old.end
        /\ IsFirst(b) => result[b].seen <= old.start
  BY DEF WindowsInv
<1>9. WindowsInv'
  <2>1. IsFiniteSet({b \in Alerts : result'[b] # None})
    <3>1. {b \in Alerts : result'[b] # None} = {b \in Alerts : result[b] # None} \cup {a}
      BY <1>1, <1>4
    <3>2. IsFiniteSet({b \in Alerts : result[b] # None})
      BY DEF WindowsInv
    <3> QED BY <3>1, <3>2, FS_AddElement
  <2>2. \A e \in Fingerprints : group'[e] # None => group'[e].rep # None
    BY <1>2, <1>3, <1>4 DEF WindowsInv, Group
  <2>3. ASSUME NEW b \in Alerts, result'[b] # None
        PROVE  /\ group'[FingerprintOf[b]] # None
               /\ result'[b].seen <= group'[FingerprintOf[b]].end
               /\ IsFirst(b)' => result'[b].seen <= group'[FingerprintOf[b]].start
    <3>1. CASE FingerprintOf[b] # f
      BY <1>4, <1>7, <2>3, <3>1 DEF WindowsInv
    <3>2. CASE b = a
      <4>1. at[g] <= grp.end /\ (~Hit(g) => at[g] <= grp.start)
        BY <1>2, <1>3 DEF Group
      <4> QED BY <1>1, <1>2, <1>4, <1>6, <3>2, <4>1
    <3>3. CASE b # a /\ FingerprintOf[b] = f
      <4>1. /\ result'[b] = result[b] /\ old # None /\ result[b].seen <= old.end
            /\ IsFirst(b)' => result[b].seen <= old.start
        BY <1>4, <1>7, <1>8, <2>3, <3>3
      <4>2. old.end <= grp.end /\ old.start <= grp.start
        BY <1>2, <1>3, <4>1 DEF Group
      <4>3. group'[FingerprintOf[b]] = grp /\ result[b].seen \in Nat
        BY <1>2, <1>4, <1>5, <2>3, <3>3, <4>1
      <4> QED BY <1>2, <4>1, <4>2, <4>3
    <3> QED BY <3>1, <3>2, <3>3
  <2> QED BY <2>1, <2>2, <2>3 DEF WindowsInv
<1>10. OneRepresentative'
  <2>1. ASSUME NEW b \in Alerts \ {a}, FingerprintOf[b] = f, IsFirst(a)', IsFirst(b)'
        PROVE  result'[a].seen > result'[b].seen + Window
    <3>1. IsFirst(b) /\ result[b] # None /\ ~Hit(g)
      BY <1>6, <1>7, <2>1 DEF IsFirst
    <3>2. old # None /\ result[b].seen <= old.start
      BY <1>8, <2>1, <3>1
    <3>3. old.start + Window < at[g]
      BY <1>3, <3>1, <3>2
    <3>4. result[b].seen + Window < at[g]
      BY <1>2, <1>5, <3>1, <3>2, <3>3
    <3>5. result'[a].seen = at[g] /\ result'[b].seen = result[b].seen
      BY <1>1, <1>4, <2>1
    <3> QED BY <1>2, <1>5, <3>1, <3>4, <3>5
  <2> SUFFICES ASSUME NEW b \in Alerts, NEW c \in Alerts, b # c, SameFingerprint(b, c),
                      IsFirst(b)', IsFirst(c)'
               PROVE  \/ result'[b].seen > result'[c].seen + Window
                      \/ result'[c].seen > result'[b].seen + Window
    BY DEF OneRepresentative, SameFingerprint
  <2>2. CASE b = a
    BY <2>1, <2>2 DEF SameFingerprint
  <2>3. CASE c = a
    BY <2>1, <2>3 DEF SameFingerprint
  <2>4. CASE b # a /\ c # a
    BY <1>4, <1>7, <2>4 DEF OneRepresentative
  <2> QED BY <2>2, <2>3, <2>4
<1>11. OccurrenceExact'
  <2> SUFFICES ASSUME NEW e \in Fingerprints, group'[e] # None
               PROVE  group'[e].count =
                        Cardinality({b \in Alerts : /\ FingerprintOf[b] = e
                                                    /\ result'[b] # None
                                                    /\ result'[b].seen >= group'[e].start})
    BY DEF OccurrenceExact
  <2> DEFINE counted == {b \in Alerts : /\ FingerprintOf[b] = e
                                        /\ result'[b] # None
                                        /\ result'[b].seen >= group'[e].start}
  <2>1. CASE e # f
    <3>1. group'[e] = group[e]
      BY <1>4, <2>1
    <3>2. \A b \in Alerts : FingerprintOf[b] = e => result'[b] = result[b]
      BY <1>4, <2>1
    <3>3. counted = Since(e, group[e].start)
      BY <3>1, <3>2 DEF Since
    <3> QED BY <3>1, <3>3 DEF OccurrenceExact, Since
  <2>2. CASE e = f /\ Hit(g)
    <3>1. /\ old # None /\ old.start <= at[g]
          /\ grp.start = old.start /\ grp.count = old.count + 1
      BY <1>2, <1>3, <2>2 DEF Group
    <3>2. counted = Since(f, old.start) \cup {a} /\ a \notin Since(f, old.start)
      BY <1>1, <1>2, <1>4, <2>2, <3>1 DEF Since
    <3>3. IsFiniteSet(Since(f, old.start))
      <4>1. IsFiniteSet({b \in Alerts : result[b] # None})
        BY DEF WindowsInv
      <4>2. Since(f, old.start) \in SUBSET {b \in Alerts : result[b] # None}
        BY DEF Since
      <4> QED BY <4>1, <4>2, FS_Subset
    <3>4. Cardinality(counted) = Cardinality(Since(f, old.start)) + 1
      BY <3>2, <3>3, FS_AddElement
    <3>5. old.count = Cardinality(Since(f, old.start))
      BY <1>2, <3>1 DEF OccurrenceExact, Since
    <3> QED BY <1>4, <2>2, <3>1, <3>4, <3>5
  <2>3. CASE e = f /\ ~Hit(g)
    <3>1. grp.start = at[g] /\ grp.count = 1 /\ (old # None => old.end < at[g])
      BY <1>3, <2>3
    <3>2. \A b \in Alerts : result[b] # None /\ FingerprintOf[b] = f => result[b].seen < at[g]
      BY <1>2, <1>5, <1>8, <3>1
    <3>3. counted = {a}
      <4>1. ASSUME NEW b \in Alerts \ {a} PROVE b \notin counted
        <5>1. result'[b] = result[b] /\ group'[e].start = at[g]
          BY <1>4, <2>3, <3>1
        <5> QED BY <1>2, <1>5, <2>3, <3>2, <5>1
      <4>2. a \in counted
        BY <1>1, <1>2, <1>4, <2>3, <3>1
      <4> QED BY <4>1, <4>2
    <3>4. Cardinality(counted) = 1
      BY <3>3, FS_Singleton
    <3> QED BY <1>4, <2>3, <3>1, <3>4
  <2> QED BY <2>1, <2>2, <2>3
<1> QED BY <1>9, <1>10, <1>11

LEMMA LockedStep ==
  ASSUME LockedInv, [Next]_vars, Unlocked = {}, ~MayOverrun
  PROVE  LockedInv'
<1> USE DEF LockedInv
<1>1. DedupInv'
  BY NextDedup
<1>2. CASE \E g \in Runs : Commit(g)
  BY <1>1, <1>2, CommitAlone, CommitCounts
<1>3. CASE ~ \E g \in Runs : Commit(g)
  <2>1. UNCHANGED <<result, group>>
    BY <1>3 DEF Next, RunStep, Fetch, ReadGroup, Judge, Conflict, Fail, End, Over, Tick, Crash,
       LockExpires, vars
  <2>2. AloneInv'
    <3>1. CASE \E g \in Runs : Fetch(g) \/ ReadGroup(g) \/ Judge(g)
      BY <3>1, QuietAlone
    <3>2. CASE \E g \in Runs : Conflict(g) \/ Fail(g) \/ End(g)
      BY <3>2, OverAlone DEF Conflict, Fail, End
    <3>3. CASE Tick \/ Crash \/ LockExpires \/ UNCHANGED vars
      BY <3>3, AroundAlone
    <3> QED BY <1>3, <3>1, <3>2, <3>3 DEF Next, RunStep
  <2> QED BY <1>1, <2>1, <2>2, RowsStay
<1> QED BY <1>2, <1>3

\* As long as every run takes the lock and none outlives it: of the alerts of one
\* fingerprint within one window a single one is judged, whatever dies (dedup.py,
\* persist.py).
THEOREM RepresentativesAreApart ==
  ASSUME Unlocked = {}, ~MayOverrun
  PROVE  Spec => []OneRepresentative
<1>1. LockedInv => OneRepresentative
  BY DEF LockedInv
<1>2. LockedInv /\ [Next]_vars => LockedInv'
  BY LockedStep
<1> QED BY <1>1, <1>2, LockedInit, PTL DEF Spec

\* ... and occurrence_count is the number of alerts since the window started (dedup.py).
THEOREM OccurrencesAreExact ==
  ASSUME Unlocked = {}, ~MayOverrun
  PROVE  Spec => []OccurrenceExact
<1>1. LockedInv => OccurrenceExact
  BY DEF LockedInv
<1>2. LockedInv /\ [Next]_vars => LockedInv'
  BY LockedStep
<1> QED BY <1>1, <1>2, LockedInit, PTL DEF Spec
=============================================================================
