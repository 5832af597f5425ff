----------------------------- MODULE MCPlatform -------------------------------
(***************************************************************************)
(* The license, the entity graph, the caches behind the skills, the        *)
(* regression evaluation and the steps inside a job lock.  No operation of *)
(* one reads or writes what another keeps, so each is explored with the    *)
(* others at rest: the interleavings of the five reach no state of one of  *)
(* them that this does not.                                                *)
(***************************************************************************)
EXTENDS License, EntityGraph, Evidence, Regression, RedisLock

\* Two licenses of the vendor; the shorter one is refused once it has expired.
Until == [f \in Licenses |-> IF f = "year" THEN 1 ELSE 0]

\* A triangle and an entity behind it.
Source == [e \in Edges |-> CASE e = "sa" -> "s" [] e = "sb" -> "s" [] OTHER -> "a"]
Target == [e \in Edges |-> CASE e = "sa" -> "a" [] e = "ab" -> "b" [] e = "sb" -> "b"
                             [] OTHER -> "c"]

Row(e, d) == [edge |-> e, data |-> d]
Bad == [edge |-> "none", data |-> "none"]

\* A file with an edge twice, a file with a refused line, and the seed.
Content == [f \in Files |->
  CASE f = "hosts" -> <<Row("ab", "past"), Row("ab", "valid")>>
    [] f = "paths" -> <<Row("sb", "valid"), Row("ac", "valid")>>
    [] f = "broken" -> <<Row("sb", "past"), Bad>>
    [] f = "seed" -> <<Row("sa", "valid")>>]

Alike == Permutations(Importers) \cup Permutations(Requests)

\* The two caches share the clock only, so either of them is enough at a time.
AssetAtRest == cached = Missing /\ told = 0 /\ \A r \in Readers : reading[r] = Missing
IntelAtRest == entries = {} /\ intel = 0 /\ \A s \in Syncs : syncing[s] = Missing

PlatformInit == Init /\ GraphInit /\ EvidenceInit /\ RegressionInit /\ LockInit

PlatformNext ==
  \/ /\ GraphInit /\ EvidenceInit /\ RegressionInit /\ LockInit
     /\ Next /\ UNCHANGED <<graphVars, evidenceVars, regressionVars, lockVars>>
  \/ /\ Init /\ EvidenceInit /\ RegressionInit /\ LockInit
     /\ GraphNext /\ UNCHANGED <<vars, evidenceVars, regressionVars, lockVars>>
  \/ /\ Init /\ GraphInit /\ RegressionInit /\ LockInit
     /\ EvidenceNext /\ (AssetAtRest \/ IntelAtRest)'
     /\ UNCHANGED <<vars, graphVars, regressionVars, lockVars>>
  \/ /\ Init /\ GraphInit /\ EvidenceInit /\ LockInit
     /\ RegressionNext /\ UNCHANGED <<vars, graphVars, evidenceVars, lockVars>>
  \/ /\ Init /\ GraphInit /\ EvidenceInit /\ RegressionInit
     /\ LockNext /\ UNCHANGED <<vars, graphVars, evidenceVars, regressionVars>>

PlatformSpec ==
  PlatformInit
    /\ [][PlatformNext]_<<vars, graphVars, evidenceVars, regressionVars, lockVars>>
=============================================================================
