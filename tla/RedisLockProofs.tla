--------------------------- MODULE RedisLockProofs ---------------------------
(***************************************************************************)
(* The job lock is correct for any number of runs, any TTL and any bound   *)
(* on the length of a run.                                                 *)
(***************************************************************************)
EXTENDS RedisLock, TLAPS

\* A run that has passed the comparison still owns the key.
DeletesOwn == \A w \in Workers : pc[w] = "deleting" => holder = w

LEMMA InitLock == LockInit => LockInv /\ DeletesOwn
  BY LockAssumption DEF LockInit, LockInv, LockTypeOK, Inside, DeletesOwn

\* The five steps of a lock keep its invariant.  Only Tick can take the key from
\* a run, and for that the run must be as old as the TTL.
LEMMA NextLock == LockInv /\ [LockNext]_lockVars => LockInv'
<1> SUFFICES ASSUME LockInv, [LockNext]_lockVars
             PROVE  LockInv'
  OBVIOUS
<1> USE LockAssumption DEF LockInv, LockTypeOK
<1>1. ASSUME NEW w \in Workers, Acquire(w)
      PROVE  LockInv'
  BY <1>1 DEF Acquire, KeyIsAbsent, KeyLife, Inside
<1>2. ASSUME NEW w \in Workers, Compare(w)
      PROVE  LockInv'
  BY <1>2 DEF Compare, TokenMatches, Inside
<1>3. ASSUME NEW w \in Workers, Delete(w)
      PROVE  LockInv'
  BY <1>3 DEF Delete, Inside
<1>4. ASSUME NEW w \in Workers, Die(w)
      PROVE  LockInv'
  BY <1>4 DEF Die, Inside
<1>5. ASSUME Tick
      PROVE  LockInv'
  <2>1. LockTypeOK'
    BY <1>5 DEF Tick, Inside
  <2>2. (holder = None <=> ttl = 0)'
    BY <1>5 DEF Tick
  <2>3. (MaxRun < Ttl => \A w \in Inside : holder = w /\ ttl + ran[w] = Ttl)'
    BY <1>5 DEF Tick, Inside
  <2> QED
    BY <2>1, <2>2, <2>3
<1>6. CASE UNCHANGED lockVars
  BY <1>6 DEF lockVars, Inside
<1> QED
  BY <1>1, <1>2, <1>3, <1>4, <1>5, <1>6 DEF LockNext

\* The invariant of the lock, for every value of the constants.
THEOREM LockInvariant == LockSpec => []LockInv
  BY InitLock, NextLock, PTL DEF LockSpec

\* If no run outlasts the TTL, at most one run is between its SET NX and the end
\* of its finally clause, whatever dies in between.
THEOREM Mutual == LockSpec => []MutualExclusion
<1>1. LockInv => MutualExclusion
  BY LockAssumption DEF LockInv, LockTypeOK, MutualExclusion, Inside
<1> QED
  BY <1>1, LockInvariant, PTL

-----------------------------------------------------------------------------
(* Deleting the key *)

\* With a token the comparison is worth something only if no time passes before
\* the DEL; without one, or with slow release, only the length of runs helps.
ReleaseIsSafe == MaxRun < Ttl \/ (Tokened /\ ~SlowRelease)

LEMMA NextDeletes ==
  ASSUME ReleaseIsSafe, LockInv, DeletesOwn, [LockNext]_lockVars, LockInv'
  PROVE  DeletesOwn'
<1> USE LockAssumption DEF LockInv, LockTypeOK, DeletesOwn, ReleaseIsSafe
<1>1. ASSUME NEW w \in Workers, Acquire(w)
      PROVE  DeletesOwn'
  BY <1>1 DEF Acquire, KeyIsAbsent
<1>2. ASSUME NEW w \in Workers, Compare(w)
      PROVE  DeletesOwn'
  BY <1>2 DEF Compare, TokenMatches, Inside
<1>3. ASSUME NEW w \in Workers, Delete(w)
      PROVE  DeletesOwn'
  BY <1>3 DEF Delete
<1>4. ASSUME NEW w \in Workers, Die(w)
      PROVE  DeletesOwn'
  BY <1>4 DEF Die
<1>5. ASSUME Tick
      PROVE  DeletesOwn'
  BY <1>5 DEF Tick, Inside
<1>6. CASE UNCHANGED lockVars
  BY <1>6 DEF lockVars
<1> QED
  BY <1>1, <1>2, <1>3, <1>4, <1>5, <1>6 DEF LockNext

\* A release never removes the key of another run: if runs are shorter than the
\* TTL even without a token, as in the evaluation's locks, and otherwise if the
\* key is compared and no time passes between GET and DEL.
THEOREM ReleaseDeletesOwn ==
  ASSUME ReleaseIsSafe
  PROVE  LockSpec => NoForeignDelete
<1>1. LockInv /\ DeletesOwn /\ [LockNext]_lockVars => (LockInv /\ DeletesOwn)'
  BY ReleaseIsSafe, NextLock, NextDeletes
<1>2. DeletesOwn => [\A w \in Workers : Delete(w) => holder = w]_lockVars
  BY DEF DeletesOwn, Delete
<1> QED
  BY <1>1, <1>2, InitLock, PTL DEF LockSpec, NoForeignDelete

-----------------------------------------------------------------------------
(* Refinement *)

LEMMA InitRefines == LockInit => M!Init
  BY DEF LockInit, M!Init, Inside

\* An acquisition enters, a DEL, a failed comparison and a death leave, and
\* everything else is invisible.
LEMMA NextRefines ==
  ASSUME MaxRun < Ttl, LockInv, [LockNext]_lockVars
  PROVE  [M!Next]_Inside
<1> USE LockAssumption DEF LockInv, LockTypeOK
<1>1. ASSUME NEW w \in Workers, Acquire(w)
      PROVE  M!Next
  <2>1. Inside = {}
    BY <1>1 DEF Acquire, KeyIsAbsent, Inside
  <2>2. Inside' = {w}
    BY <1>1, <2>1 DEF Acquire, Inside
  <2> QED
    BY <2>1, <2>2 DEF M!Next, M!Enter
<1>2. ASSUME NEW w \in Workers, Inside = {w}, pc' = [pc EXCEPT ![w] = "idle"]
      PROVE  M!Next
  <2>1. Inside' = {}
    BY <1>2 DEF Inside
  <2> QED
    BY <1>2, <2>1 DEF M!Next, M!Leave
<1>3. ASSUME NEW w \in Workers, w \in Inside
      PROVE  Inside = {w}
  BY <1>3, MaxRun < Ttl DEF Inside
<1>4. ASSUME NEW w \in Workers, Compare(w)
      PROVE  M!Next \/ UNCHANGED Inside
  <2>1. w \in Inside
    BY <1>4 DEF Compare, Inside
  <2>2. CASE TokenMatches(w)
    BY <1>4, <2>2 DEF Compare, Inside
  <2>3. CASE ~TokenMatches(w)
    BY <1>2, <1>3, <1>4, <2>1, <2>3 DEF Compare
  <2> QED
    BY <2>2, <2>3
<1>5. ASSUME NEW w \in Workers, Delete(w) \/ Die(w)
      PROVE  M!Next
  <2>1. w \in Inside
    BY <1>5 DEF Delete, Die, Inside
  <2> QED
    BY <1>2, <1>3, <1>5, <2>1 DEF Delete, Die
<1>6. ASSUME Tick \/ UNCHANGED lockVars
      PROVE  UNCHANGED Inside
  BY <1>6 DEF Tick, lockVars, Inside
<1> QED
  BY <1>1, <1>4, <1>5, <1>6 DEF LockNext

\* If no run outlasts the TTL, the Redis lock is the abstract lock: runs enter
\* one at a time and leave before the next one enters.
THEOREM LockRefinesMutex ==
  ASSUME MaxRun < Ttl
  PROVE  LockSpec => ImplementsMutex
<1>1. LockInv /\ [LockNext]_lockVars => [M!Next]_Inside
  BY MaxRun < Ttl, NextRefines
<1> QED
  BY <1>1, InitRefines, LockInvariant, PTL DEF LockSpec, ImplementsMutex, M!Spec
=============================================================================
