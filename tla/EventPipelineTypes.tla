------------------------- MODULE EventPipelineTypes -------------------------
(***************************************************************************)
(* Type correctness of EventPipeline for every value of its constants.     *)
(*                                                                         *)
(* TypeOK alone is not inductive: a commit writes what its run read long   *)
(* before.  TypeInv adds what the runs know of the rows they work on: a    *)
(* request somebody works on has a committed row, a committed row names    *)
(* its event and its investigation, an agent inside a transaction has an   *)
(* event and, once it has concluded, a verdict.                               *)
(***************************************************************************)
EXTENDS EventPipeline, TLAPS

\* The requests that have a committed row, whatever its status.
Committed ==
  {r \in Requests : reqStatus[r] \in {"sent", "answered", "expired", "cancelled"}}

AgentKnows ==
  \A n \in Agents :
    /\ agentPc[n] \in {"investigating", "concluded", "charged"} => agentEvent[n] \in Events
    /\ agentPc[n] \in {"concluded", "charged"} => agentVerdict[n] \in Verdicts
    /\ agentCancel[n] \subseteq Committed

RequestRows ==
  \A r \in Requests :
    reqStatus[r] # "absent" => reqEvent[r] \in Events /\ reqInv[r] \in Investigations

ReviewKnows ==
  /\ \A d \in Dispatchers :
       dispExpire[d] \subseteq Committed /\ dispCancel[d] \subseteq Committed
  /\ \A u \in Operators : opPc[u] # "idle" => opReq[u] \in Committed

SettlerKnows ==
  \A p \in Settlers : \A i \in assetTodo[p] : invEvent[i] \in Events

TypeInv == TypeOK /\ AgentKnows /\ RequestRows /\ ReviewKnows /\ SettlerKnows

\* The initial state has the right types: nothing exists and nobody runs.
LEMMA InitTypes == Init => TypeInv
BY StoreAssumption, AggregationAssumption, InvestigationAssumption,
   HumanReviewAssumption, DefenseAssetsAssumption
DEF Init, StoreInit, AggInit, AgentInit, ReviewInit, AssetInit, TypeInv, TypeOK,
    StoreTypeOK, AlertTypeOK, EventTypeOK, InvestigationTypeOK, RequestTypeOK,
    RedisTypeOK, AggTypeOK, AgentTypeOK, ReviewTypeOK, AssetTypeOK, AgentKnows,
    RequestRows, ReviewKnows, SettlerKnows, Committed, AlertStatus, EventStatus,
    InvestigationStatus, RequestStatus, DispositionStatus, Services

-----------------------------------------------------------------------------
(* What a step leaves alone keeps its type.                                  *)

LEMMA AlertFrame == ASSUME AlertTypeOK, UNCHANGED <<alertStatus, link>>
                    PROVE  AlertTypeOK'
BY DEF AlertTypeOK

LEMMA EventFrame ==
  ASSUME EventTypeOK, UNCHANGED <<evStatus, evKey, alertCount, rowLock>>
  PROVE  EventTypeOK'
BY DEF EventTypeOK

LEMMA InvestigationFrame ==
  ASSUME InvestigationTypeOK, UNCHANGED <<invVars, assetVars>>
  PROVE  InvestigationTypeOK'
BY DEF InvestigationTypeOK, invVars, assetVars

LEMMA RequestFrame == ASSUME RequestTypeOK, RequestRows, UNCHANGED reqVars
                      PROVE  RequestTypeOK' /\ RequestRows' /\ Committed' = Committed
BY DEF RequestTypeOK, RequestRows, Committed, reqVars

LEMMA RedisFrame == ASSUME RedisTypeOK, UNCHANGED <<lock, redisVars, faults>>
                    PROVE  RedisTypeOK'
BY DEF RedisTypeOK, redisVars

LEMMA AggregationFrame == ASSUME AggTypeOK, UNCHANGED aggVars PROVE AggTypeOK'
BY DEF AggTypeOK, aggVars

LEMMA AgentFrame ==
  ASSUME AgentTypeOK, AgentKnows, UNCHANGED agentVars, Committed \subseteq Committed'
  PROVE  AgentTypeOK' /\ AgentKnows'
BY DEF AgentTypeOK, AgentKnows, agentVars

LEMMA ReviewFrame ==
  ASSUME ReviewTypeOK, ReviewKnows, UNCHANGED reviewVars, Committed \subseteq Committed'
  PROVE  ReviewTypeOK' /\ ReviewKnows'
BY DEF ReviewTypeOK, ReviewKnows, reviewVars, dispVars, pickingVars, opVars, Candidate,
       EventStatus, InvestigationStatus

LEMMA SettlerFrame ==
  ASSUME AssetTypeOK, SettlerKnows, UNCHANGED settleVars, UNCHANGED invEvent
  PROVE  AssetTypeOK' /\ SettlerKnows'
BY DEF AssetTypeOK, SettlerKnows, settleVars, pickVars

-----------------------------------------------------------------------------
\* Taking and giving back a service lock.
LEMMA LockTypes ==
  ASSUME lock \in [Services -> Workers \cup {None}], NEW s \in Services,
         NEW w \in Workers, AcquireLock(s, w) \/ ReleaseLock(s, w)
  PROVE  lock' \in [Services -> Workers \cup {None}]
BY DEF AcquireLock, ReleaseLock

\* An aggregation step: it writes alerts, events and the aggregation lock.
LEMMA AggregationTypes ==
  ASSUME TypeInv, NEW g \in Aggregators, AggregationRuns(g)
  PROVE  TypeInv'
<1> USE AggregationAssumption, StoreAssumption
    DEF TypeInv, TypeOK, StoreTypeOK
<1>1. UNCHANGED <<AggOthers, agentVars, reviewVars, settleVars>>
  BY DEF AggregationRuns, AggStep, AggFetch, AggFind, AggCommit, AggConflict, AggEnd
<1>2. /\ InvestigationTypeOK' /\ RequestTypeOK' /\ RequestRows'
      /\ AgentTypeOK' /\ AgentKnows' /\ ReviewTypeOK' /\ ReviewKnows'
      /\ AssetTypeOK' /\ SettlerKnows'
  BY <1>1, InvestigationFrame, RequestFrame, AgentFrame, ReviewFrame, SettlerFrame
  DEF AggOthers, invVars
<1>3. RedisTypeOK'
  <2>1. lock' \in [Services -> Workers \cup {None}]
    BY LockTypes DEF AggregationRuns, AggStep, AggFetch, AggFind, AggCommit,
       AggConflict, AggEnd, AggReset, RedisTypeOK, Services
  <2> QED BY <1>1, <2>1 DEF RedisTypeOK, AggOthers, redisVars
<1>4. AggTypeOK' /\ AlertTypeOK' /\ EventTypeOK'
  <2>1. CASE AggFetch(g)
    BY <2>1, <1>1, AlertFrame, EventFrame
    DEF AggFetch, AggTypeOK, AggOthers, alertVars, Pending
  <2>2. CASE AggFind(g)
    BY <2>2, <1>1, AlertFrame, EventFrame
    DEF AggFind, AggTypeOK, AggOthers, alertVars, CountRead, EventTypeOK
  <2>3. CASE AggCommit(g)
    BY <2>3, <1>1
    DEF AggCommit, Destination, AggTypeOK, AggOthers, AlertTypeOK, EventTypeOK,
        AlertStatus, EventStatus
  <2>4. CASE AggConflict(g) \/ AggEnd(g)
    BY <2>4, <1>1, AlertFrame, EventFrame
    DEF AggConflict, AggEnd, AggReset, AggTypeOK, AggOthers, alertVars
  <2> QED BY <2>1, <2>2, <2>3, <2>4 DEF AggregationRuns, AggStep
<1> QED BY <1>2, <1>3, <1>4

\* A rollback: drafts become orphans, locks go, committed rows stay committed.
LEMMA RollbackTypes ==
  ASSUME TypeInv, NEW W \in SUBSET Workers, Rollback(W),
         UNCHANGED <<reqEvent, reqInv, answered>>
  PROVE  /\ RequestTypeOK' /\ RequestRows' /\ Committed' = Committed
         /\ rowLock' \in [Events -> Workers \cup {None}]
BY DEF Rollback, TypeInv, TypeOK, StoreTypeOK, RequestTypeOK, RequestRows,
       Committed, EventTypeOK, RequestStatus

\* A fault is counted.
LEMMA FaultTypes == ASSUME faults \in Nat, Fault PROVE faults' \in Nat
BY DEF Fault

\* An agent step: it writes investigations, events, the requests it cancels and
\* Redis.
LEMMA AgentTypes ==
  ASSUME TypeInv, NEW n \in Agents, AgentRuns(n)
  PROVE  TypeInv'
<1> USE InvestigationAssumption, StoreAssumption DEF TypeInv, TypeOK, StoreTypeOK
<1> n \in Workers
  OBVIOUS
<1> UNCHANGED <<alertVars, cases, answered, reqEvent, reqInv, aggVars, reviewVars,
                settleVars>>
  BY DEF AgentRuns, AgentStep, AgentPick, AgentBegin, AgentConclude, AgentCharge,
         AgentCommit, AgentFail, AgentEnd, AgentOthers, assetVars
<1>1. AlertTypeOK' /\ AggTypeOK'
  BY AlertFrame, AggregationFrame DEF alertVars
<1> SUFFICES /\ EventTypeOK' /\ InvestigationTypeOK' /\ RequestTypeOK' /\ RedisTypeOK'
             /\ RequestRows' /\ AgentTypeOK' /\ AgentKnows' /\ SettlerKnows'
             /\ Committed \subseteq Committed'
  BY <1>1, ReviewFrame DEF AssetTypeOK, settleVars, pickVars
<1>2. CASE AgentPick(n)
  <2>1. UNCHANGED <<evStatus, invVars, assetVars, reqVars, rowLock, redisVars, faults>>
    BY <1>2 DEF AgentPick, AgentOthers, reqVars
  <2>2. EventTypeOK' /\ InvestigationTypeOK' /\ RequestTypeOK' /\ RequestRows'
        /\ Committed' = Committed
    BY <2>1, EventFrame, InvestigationFrame, RequestFrame DEF alertVars
  <2>3. RedisTypeOK'
    BY <1>2, <2>1, LockTypes DEF AgentPick, RedisTypeOK, redisVars, Services
  <2>4. AgentTypeOK' /\ AgentKnows'
    BY <1>2, <2>2 DEF AgentPick, AgentTypeOK, AgentKnows, Eligible
  <2> QED BY <2>1, <2>2, <2>3, <2>4 DEF SettlerKnows, settleVars, invVars
<1>3. CASE \E e \in Events : AgentBegin(n, e)
  <2>1. UNCHANGED <<evStatus, invVars, assetVars, reqVars, lock, redisVars, faults>>
    BY <1>3 DEF AgentBegin, AgentOthers, reqVars
  <2>2. InvestigationTypeOK' /\ RequestTypeOK' /\ RequestRows' /\ RedisTypeOK'
        /\ Committed' = Committed
    BY <2>1, InvestigationFrame, RequestFrame, RedisFrame
  <2>3. EventTypeOK'
    BY <1>3, <2>1 DEF AgentBegin, EventTypeOK, alertVars
  <2>4. AgentTypeOK' /\ AgentKnows'
    BY <1>3, <2>2 DEF AgentBegin, AgentTypeOK, AgentKnows, PromptAlerts, Linked
  <2> QED BY <2>1, <2>2, <2>3, <2>4 DEF SettlerKnows, settleVars, invVars
<1>4. CASE \E v \in Verdicts : AgentConclude(n, v)
  <2>1. UNCHANGED <<evStatus, invVars, assetVars, reqVars, rowLock, lock, redisVars, faults>>
    BY <1>4 DEF AgentConclude, AgentOthers, reqVars
  <2>2. EventTypeOK' /\ InvestigationTypeOK' /\ RequestTypeOK' /\ RequestRows'
        /\ RedisTypeOK' /\ Committed' = Committed
    BY <2>1, EventFrame, InvestigationFrame, RequestFrame, RedisFrame DEF alertVars
  <2>3. AgentTypeOK' /\ AgentKnows'
    BY <1>4, <2>2 DEF AgentConclude, Superseded, AgentTypeOK, AgentKnows, Sent, Committed
  <2> QED BY <2>1, <2>2, <2>3 DEF SettlerKnows, settleVars, invVars
<1>8. CASE AgentCharge(n)
  <2>1. UNCHANGED <<evStatus, invVars, assetVars, rowLock, lock, faults, reqStatus>>
    BY <1>8 DEF AgentCharge, AgentOthers
  <2>2. EventTypeOK' /\ InvestigationTypeOK' /\ Committed' = Committed
    BY <2>1, EventFrame, InvestigationFrame DEF alertVars, Committed
  <2>3. RequestTypeOK' /\ RequestRows'
    BY <1>8, <2>1 DEF AgentCharge, RequestTypeOK, RequestRows
  <2>4. RedisTypeOK'
    <3>1. marker' \in SUBSET marker /\ used' \in {used, used + 1}
      BY <1>8 DEF AgentCharge, redisVars, RedisTypeOK
    <3> QED BY <2>1, <3>1 DEF RedisTypeOK
  <2>5. AgentTypeOK' /\ AgentKnows'
    BY <1>8, <2>2 DEF AgentCharge, AgentTypeOK, AgentKnows
  <2> QED BY <2>1, <2>2, <2>3, <2>4, <2>5 DEF SettlerKnows, settleVars, invVars
<1>5. CASE \E i \in Investigations, suggested \in BOOLEAN : AgentCommit(n, i, suggested)
  <2> PICK i \in Investigations, suggested \in BOOLEAN : AgentCommit(n, i, suggested)
    BY <1>5
  <2>1. /\ agentEvent[n] \in Events /\ agentVerdict[n] \in Verdicts
        /\ agentCancel[n] \subseteq Committed
    BY DEF AgentCommit, AgentKnows
  <2>2. VERDICT_EVENT_STATUS[agentVerdict[n]] \in EventStatus
    BY <2>1 DEF VERDICT_EVENT_STATUS, EventStatus
  <2>3. EventTypeOK'
    BY <2>1, <2>2 DEF AgentCommit, EventTypeOK, alertVars
  <2>4. InvestigationTypeOK'
    BY <2>1 DEF AgentCommit, InvestigationTypeOK, InvestigationStatus,
           DispositionStatus, AgentTypeOK
  <2>5. RequestTypeOK' /\ RequestRows' /\ Committed' = Committed
    BY <2>1 DEF AgentCommit, RequestTypeOK, RequestRows, Committed, RequestStatus
  <2>6. RedisTypeOK'
    BY DEF AgentCommit, RedisTypeOK, redisVars
  <2>7. AgentTypeOK' /\ AgentKnows'
    BY <2>1, <2>5 DEF AgentCommit, AgentForget, AgentTypeOK, AgentKnows
  <2>8. SettlerKnows'
    BY <2>1 DEF AgentCommit, SettlerKnows, settleVars, AssetTypeOK, InvestigationTypeOK
  <2> QED BY <2>3, <2>4, <2>5, <2>6, <2>7, <2>8
<1>6. CASE AgentFail(n)
  <2>1. UNCHANGED <<evStatus, invVars, assetVars, redisVars>>
    BY <1>6 DEF AgentFail, AgentOthers
  <2>2. /\ RequestTypeOK' /\ RequestRows' /\ Committed' = Committed
        /\ rowLock' \in [Events -> Workers \cup {None}]
    BY <1>6, RollbackTypes DEF AgentFail
  <2>3. EventTypeOK' /\ InvestigationTypeOK'
    BY <2>1, <2>2, InvestigationFrame DEF EventTypeOK, alertVars
  <2>4. RedisTypeOK'
    BY <1>6, <2>1, LockTypes, FaultTypes DEF AgentFail, RedisTypeOK, redisVars, Services
  <2>5. AgentTypeOK' /\ AgentKnows'
    BY <1>6, <2>2 DEF AgentFail, AgentForget, AgentTypeOK, AgentKnows
  <2> QED BY <2>1, <2>2, <2>3, <2>4, <2>5 DEF SettlerKnows, settleVars, invVars
<1>7. CASE AgentEnd(n)
  <2>1. UNCHANGED <<evStatus, invVars, assetVars, reqVars, rowLock, redisVars, faults>>
    BY <1>7 DEF AgentEnd, AgentOthers, reqVars
  <2>2. EventTypeOK' /\ InvestigationTypeOK' /\ RequestTypeOK' /\ RequestRows'
        /\ Committed' = Committed
    BY <2>1, EventFrame, InvestigationFrame, RequestFrame DEF alertVars
  <2>3. RedisTypeOK'
    BY <1>7, <2>1, LockTypes DEF AgentEnd, RedisTypeOK, redisVars, Services
  <2>4. AgentTypeOK' /\ AgentKnows'
    BY <1>7, <2>2 DEF AgentEnd, AgentTypeOK, AgentKnows
  <2> QED BY <2>1, <2>2, <2>3, <2>4 DEF SettlerKnows, settleVars, invVars
<1> QED BY <1>2, <1>3, <1>4, <1>5, <1>6, <1>7, <1>8 DEF AgentRuns, AgentStep

\* A dispatcher step: it writes requests, investigations' statuses and its lock.
LEMMA DispatcherTypes ==
  ASSUME TypeInv, NEW d \in Dispatchers, DispatcherRuns(d)
  PROVE  TypeInv'
<1> USE HumanReviewAssumption, StoreAssumption DEF TypeInv, TypeOK, StoreTypeOK
<1> d \in Workers
  OBVIOUS
<1>0. UNCHANGED <<alertVars, evStatus, invEvent, verdict, seen, assetVars, used,
                  answered, marker, opVars, aggVars, agentVars, settleVars>>
  BY DEF DispatcherRuns, DispStep, DispExpire, DispSweep, DispPick, DispTest, DispLook,
         DispSend, DispSendFails, DispCommit, DispFail, ReviewOthers, reqVars
<1>1. AlertTypeOK' /\ AggTypeOK' /\ AssetTypeOK' /\ SettlerKnows'
  BY <1>0, AlertFrame, AggregationFrame, SettlerFrame DEF alertVars
<1> SUFFICES /\ EventTypeOK' /\ InvestigationTypeOK' /\ RequestTypeOK' /\ RedisTypeOK'
             /\ RequestRows' /\ ReviewTypeOK' /\ ReviewKnows' /\ Committed \subseteq Committed'
  BY <1>0, <1>1, AgentFrame
<1>2. CASE \E S \in SUBSET Requests : DispExpire(d, S)
  <2>1. UNCHANGED <<invStatus, reqVars, rowLock, faults>>
    BY <1>2 DEF DispExpire
  <2>2. EventTypeOK' /\ InvestigationTypeOK' /\ RequestTypeOK' /\ RequestRows'
        /\ Committed' = Committed
    BY <1>0, <2>1, EventFrame, InvestigationFrame, RequestFrame DEF alertVars, invVars
  <2>3. RedisTypeOK'
    BY <1>0, <1>2, <2>1, LockTypes DEF DispExpire, RedisTypeOK, Services
  <2>4. PICK S \in SUBSET Requests : DispExpire(d, S)
    BY <1>2
  <2>5. /\ dispPc' \in [Dispatchers -> {"idle", "expiring", "swept", "sending"}]
        /\ dispExpire' \in [Dispatchers -> SUBSET Requests]
        /\ \A x \in Dispatchers : dispExpire'[x] \subseteq Committed
    <3>1. S \subseteq Committed
      BY <2>4 DEF DispExpire, Sent, Committed
    <3>2. dispExpire' = [dispExpire EXCEPT ![d] = S] /\ dispPc' = [dispPc EXCEPT ![d] = "expiring"]
      BY <2>4 DEF DispExpire
    <3> QED BY <3>1, <3>2 DEF ReviewTypeOK, ReviewKnows
  <2>6. UNCHANGED <<dispCancel, pickingVars, dispTodo, dispReopen, opVars>>
    BY <1>0, <2>4 DEF DispExpire
  <2>7. ReviewTypeOK' /\ ReviewKnows'
    BY <2>2, <2>5, <2>6 DEF ReviewTypeOK, ReviewKnows, opVars, pickingVars, Candidate,
       EventStatus, InvestigationStatus
  <2> QED BY <2>2, <2>3, <2>7
<1>3. CASE DispSweep(d)
  <2>1. UNCHANGED <<invStatus, reqStatus, reqEvent, reqInv, rowLock, lock, faults>>
    BY <1>3 DEF DispSweep
  <2>2. EventTypeOK' /\ InvestigationTypeOK' /\ RedisTypeOK' /\ RequestRows'
        /\ Committed' = Committed
    BY <1>0, <2>1, EventFrame, InvestigationFrame
    DEF alertVars, invVars, RedisTypeOK, RequestRows, Committed
  <2>3. RequestTypeOK'
    BY <1>0, <1>3, <2>1 DEF DispSweep, RequestTypeOK
  <2>4. ReviewTypeOK' /\ ReviewKnows'
    BY <1>0, <1>3, <2>2 DEF DispSweep, ReviewTypeOK, ReviewKnows, opVars, pickingVars, Sent,
       Committed, Candidate, EventStatus, InvestigationStatus
  <2> QED BY <2>2, <2>3, <2>4
<1>4. CASE DispPick(d)
  <2>1. UNCHANGED <<invStatus, reqStatus, reqEvent, reqInv, rowLock, lock, faults>>
    BY <1>4 DEF DispPick
  <2>2. EventTypeOK' /\ InvestigationTypeOK' /\ RedisTypeOK' /\ RequestRows'
        /\ Committed' = Committed
    BY <1>0, <2>1, EventFrame, InvestigationFrame
    DEF alertVars, invVars, RedisTypeOK, RequestRows, Committed
  <2>3. RequestTypeOK'
    BY <1>0, <1>4, <2>1 DEF DispPick, RequestTypeOK
  <2>4. DispatchCandidates(d) \subseteq Events
    BY DEF DispatchCandidates
  <2>5. ReviewTypeOK' /\ ReviewKnows'
    BY <1>0, <1>4, <2>2, <2>4 DEF DispPick, ReviewTypeOK, ReviewKnows, opVars, Candidate,
       EventStatus, InvestigationStatus
  <2> QED BY <2>2, <2>3, <2>5
<1>9. CASE (\E e \in Events : DispTest(d, e)) \/ DispLook(d)
  <2>1. UNCHANGED <<invStatus, reqVars, rowLock, lock, faults>>
    BY <1>9 DEF DispTest, DispLook
  <2>2. EventTypeOK' /\ InvestigationTypeOK' /\ RequestTypeOK' /\ RequestRows'
        /\ Committed' = Committed /\ RedisTypeOK'
    BY <1>0, <2>1, EventFrame, InvestigationFrame, RequestFrame, RedisFrame
    DEF alertVars, invVars, redisVars
  <2>3. ReviewTypeOK' /\ ReviewKnows'
    <3>1. CASE \E e \in Events : DispTest(d, e)
      BY <1>0, <2>2, <3>1 DEF DispTest, ReviewTypeOK, ReviewKnows, opVars, Candidate,
         EventStatus, InvestigationStatus
    <3>2. CASE DispLook(d)
      <4>1. dispTested[d] \in Events
        BY <3>2 DEF DispLook, ReviewTypeOK
      <4>2. /\ HumanInvestigation(dispTested[d]) \subseteq Investigations
            /\ {[event |-> dispTested[d], inv |-> i] :
                  i \in HumanInvestigation(dispTested[d])} \subseteq Candidate
        BY <4>1 DEF HumanInvestigation, Candidate
      <4>3. /\ dispTodo' \in [Dispatchers -> SUBSET Candidate]
            /\ dispReopen' \in [Dispatchers -> SUBSET Investigations]
            /\ dispTested' \in [Dispatchers -> Events \cup {None}]
        BY <3>2, <4>2 DEF DispLook, ReviewTypeOK
      <4>4. UNCHANGED <<dispPc, dispExpire, dispCancel, dispPicked, opVars>>
        BY <1>0, <3>2 DEF DispLook
      <4> QED BY <2>2, <4>3, <4>4 DEF ReviewTypeOK, ReviewKnows, opVars, EventStatus,
                 InvestigationStatus
    <3> QED BY <1>9, <3>1, <3>2
  <2> QED BY <2>2, <2>3
<1>5. CASE \E c \in Candidate, r \in Requests : DispSend(d, c, r)
  <2> PICK c \in Candidate, r \in Requests : DispSend(d, c, r)
    BY <1>5
  <2>1. UNCHANGED <<invStatus, rowLock, lock, faults>>
    BY DEF DispSend
  <2>2. EventTypeOK' /\ InvestigationTypeOK' /\ RedisTypeOK'
    BY <1>0, <2>1, EventFrame, InvestigationFrame DEF alertVars, invVars, RedisTypeOK
  <2>3. c.event \in Events /\ c.inv \in Investigations
    BY DEF Candidate
  <2>4. RequestTypeOK' /\ RequestRows'
    BY <1>0, <2>3 DEF DispSend, RequestTypeOK, RequestRows, RequestStatus
  <2>5. Committed' = Committed
    BY DEF DispSend, Committed, RequestTypeOK, IsNext
  <2>6. ReviewTypeOK' /\ ReviewKnows'
    BY <1>0, <2>5 DEF DispSend, ReviewTypeOK, ReviewKnows, opVars, pickingVars, Candidate,
       EventStatus, InvestigationStatus
  <2> QED BY <2>2, <2>4, <2>5, <2>6
<1>6. CASE \E c \in Candidate : DispSendFails(d, c)
  <2>1. UNCHANGED <<invStatus, reqVars, rowLock, lock>>
    BY <1>6 DEF DispSendFails
  <2>2. EventTypeOK' /\ InvestigationTypeOK' /\ RequestTypeOK' /\ RequestRows'
        /\ Committed' = Committed
    BY <1>0, <2>1, EventFrame, InvestigationFrame, RequestFrame DEF alertVars, invVars
  <2>3. RedisTypeOK'
    BY <1>0, <1>6, <2>1, FaultTypes DEF DispSendFails, RedisTypeOK
  <2>4. ReviewTypeOK' /\ ReviewKnows'
    BY <1>0, <1>6, <2>2 DEF DispSendFails, ReviewTypeOK, ReviewKnows, opVars, pickingVars,
       Candidate, EventStatus, InvestigationStatus
  <2> QED BY <2>2, <2>3, <2>4
<1>7. CASE DispCommit(d)
  <2>1. UNCHANGED <<rowLock, reqEvent, reqInv, faults>>
    BY <1>7 DEF DispCommit
  <2>2. dispExpire[d] \subseteq Committed /\ dispCancel[d] \subseteq Committed
    BY DEF ReviewKnows
  <2>3. \A r \in Requests :
          /\ reqStatus'[r] \in RequestStatus
          /\ r \in Committed => r \in Committed'
          /\ reqStatus'[r] # "absent" => reqStatus[r] # "absent"
    BY <1>7, <2>2 DEF DispCommit, Committed, RequestTypeOK, RequestStatus
  <2>4. RequestTypeOK' /\ RequestRows' /\ Committed \subseteq Committed'
    <3>1. reqStatus' \in [Requests -> RequestStatus]
      BY <1>7, <2>3 DEF DispCommit
    <3>2. reqLock' \in [Requests -> Workers \cup {None}]
      BY <1>7 DEF DispCommit, RequestTypeOK
    <3>3. RequestTypeOK'
      BY <1>0, <2>1, <3>1, <3>2 DEF RequestTypeOK
    <3>4. RequestRows'
      BY <2>1, <2>3 DEF RequestRows
    <3> QED BY <2>3, <3>3, <3>4 DEF Committed
  <2>5. EventTypeOK' /\ InvestigationTypeOK'
    BY <1>0, <1>7, <2>1, EventFrame
    DEF DispCommit, InvestigationTypeOK, InvestigationStatus, alertVars, assetVars
  <2>6. RedisTypeOK'
    BY <1>0, <1>7, <2>1, LockTypes DEF DispCommit, RedisTypeOK, Services
  <2>7. ReviewTypeOK' /\ ReviewKnows'
    BY <1>0, <1>7, <2>4 DEF DispCommit, DispReset, ReviewTypeOK, ReviewKnows, opVars,
       Candidate, EventStatus, InvestigationStatus
  <2> QED BY <2>4, <2>5, <2>6, <2>7
<1>8. CASE DispFail(d)
  <2>1. UNCHANGED <<invStatus, reqEvent, reqInv>>
    BY <1>8 DEF DispFail
  <2>2. /\ RequestTypeOK' /\ RequestRows' /\ Committed' = Committed
        /\ rowLock' \in [Events -> Workers \cup {None}]
    BY <1>0, <1>8, RollbackTypes DEF DispFail
  <2>3. EventTypeOK' /\ InvestigationTypeOK'
    BY <1>0, <2>1, <2>2, InvestigationFrame DEF EventTypeOK, alertVars, invVars
  <2>4. RedisTypeOK'
    BY <1>0, <1>8, LockTypes, FaultTypes DEF DispFail, RedisTypeOK, Services
  <2>5. ReviewTypeOK' /\ ReviewKnows'
    BY <1>0, <1>8, <2>2 DEF DispFail, DispReset, ReviewTypeOK, ReviewKnows, opVars,
       Candidate, EventStatus, InvestigationStatus
  <2> QED BY <2>2, <2>3, <2>4, <2>5
<1> QED BY <1>2, <1>3, <1>4, <1>5, <1>6, <1>7, <1>8, <1>9 DEF DispatcherRuns, DispStep

\* An API request's step, or the expiry of a marker: requests, statuses, markers.
LEMMA OperatorTypes ==
  ASSUME TypeInv, (\E u \in Operators : OperatorCalls(u)) \/ MarkerTtl
  PROVE  TypeInv'
<1> USE HumanReviewAssumption, StoreAssumption DEF TypeInv, TypeOK, StoreTypeOK
<1>0. /\ UNCHANGED <<alertVars, invEvent, verdict, seen, assetVars, used, reqEvent, reqInv,
                     lock, dispVars, aggVars, agentVars, settleVars>>
      /\ faults' = faults \/ Fault
  <2>1. CASE \E u \in Operators : OpFail(u)
    BY <2>1 DEF OpFail, OperatorCalls, MarkerTtl, ReviewOthers
  <2>2. CASE ~\E u \in Operators : OpFail(u)
    BY <2>2 DEF OperatorCalls, OpStep, ReplyRead, ReplyFlush, ReplyUpdate, ReplyCommit,
       CancelRead, CancelCommit, MarkerTtl, MarkerExpires, OpOthers, ReviewOthers, reviewVars,
       reqVars
  <2> QED BY <2>1, <2>2
<1>. faults' \in Nat
  BY <1>0, FaultTypes DEF RedisTypeOK
<1>1. AlertTypeOK' /\ AggTypeOK' /\ AssetTypeOK' /\ SettlerKnows'
  BY <1>0, AlertFrame, AggregationFrame, SettlerFrame DEF alertVars
<1>2. ASSUME Committed' = Committed, RequestRows', opVars' = opVars
      PROVE  ReviewTypeOK' /\ ReviewKnows'
  BY <1>0, <1>2, ReviewFrame DEF reviewVars
<1>3. CASE MarkerTtl
  <2>1. UNCHANGED <<opVars, evStatus, invStatus, reqVars, rowLock>> /\ marker' \subseteq marker
    BY <1>3 DEF MarkerTtl, MarkerExpires, reviewVars
  <2>2. EventTypeOK' /\ InvestigationTypeOK' /\ RequestTypeOK' /\ RequestRows'
        /\ Committed' = Committed
    BY <1>0, <2>1, EventFrame, InvestigationFrame, RequestFrame DEF alertVars, invVars
  <2>3. RedisTypeOK'
    BY <1>0, <2>1 DEF RedisTypeOK
  <2> QED BY <1>0, <1>1, <1>2, <2>1, <2>2, <2>3, AgentFrame
<1>4. CASE \E u \in Operators : OperatorCalls(u)
  <2> PICK u \in Operators : OperatorCalls(u)
    BY <1>4
  <2>1. CASE \E r \in Requests : ReplyRead(u, r) \/ CancelRead(u, r)
    <3>1. UNCHANGED <<evStatus, invStatus, reqVars, rowLock, marker, opEvStatus, opInvStatus>>
      BY <1>0, <2>1 DEF ReplyRead, CancelRead, reqVars
    <3>2. EventTypeOK' /\ InvestigationTypeOK' /\ RequestTypeOK' /\ RequestRows'
          /\ Committed' = Committed /\ RedisTypeOK'
      BY <1>0, <3>1, EventFrame, InvestigationFrame, RequestFrame
      DEF alertVars, invVars, RedisTypeOK
    <3>3. ReviewTypeOK' /\ ReviewKnows'
      BY <1>0, <2>1, <3>1, <3>2 DEF ReplyRead, CancelRead, ReviewTypeOK, ReviewKnows,
         dispVars, pickingVars, Sent, Committed, Candidate, EventStatus, InvestigationStatus
    <3> QED BY <1>0, <1>1, <3>2, <3>3, AgentFrame
  <2>2. CASE ReplyFlush(u)
    <3>1. UNCHANGED <<evStatus, invStatus, reqStatus, answered, rowLock, opReq, opInvStatus>>
      BY <2>2 DEF ReplyFlush
    <3>2. opReq[u] \in Committed
      BY <2>2 DEF ReplyFlush, ReviewKnows
    <3>3. /\ reqEvent[opReq[u]] \in Events
          /\ evStatus[reqEvent[opReq[u]]] \in EventStatus
      BY <3>2 DEF Committed, RequestRows, EventTypeOK
    <3>4. EventTypeOK' /\ InvestigationTypeOK' /\ RequestRows' /\ Committed' = Committed
      BY <1>0, <3>1, EventFrame, InvestigationFrame
      DEF alertVars, invVars, RequestRows, Committed
    <3>5. RequestTypeOK'
      BY <1>0, <2>2, <3>1 DEF ReplyFlush, RequestTypeOK
    <3>6. RedisTypeOK'
      BY <1>0, <2>2, <3>3 DEF ReplyFlush, RedisTypeOK
    <3>7. ReviewTypeOK' /\ ReviewKnows'
      <4>1. opEvStatus' \in [Operators -> EventStatus \cup {None}]
        BY <2>2, <3>3 DEF ReplyFlush, ReviewTypeOK
      <4>2. opPc' = [opPc EXCEPT ![u] = "flushed"]
        BY <2>2 DEF ReplyFlush
      <4> QED BY <1>0, <3>1, <3>2, <3>4, <4>1, <4>2
              DEF ReviewTypeOK, ReviewKnows, dispVars, pickingVars, Candidate, EventStatus,
                  InvestigationStatus
    <3> QED BY <1>0, <1>1, <3>4, <3>5, <3>6, <3>7, AgentFrame
  <2>5. CASE ReplyUpdate(u)
    <3>1. UNCHANGED <<evStatus, invStatus, reqVars, marker, opReq, opEvStatus>>
      BY <1>0, <2>5 DEF ReplyUpdate, reqVars
    <3>2. opReq[u] \in Committed
      BY <2>5 DEF ReplyUpdate, ReviewKnows
    <3>3. invStatus[reqInv[opReq[u]]] \in InvestigationStatus
      BY <3>2 DEF Committed, RequestRows, InvestigationTypeOK
    <3>4. InvestigationTypeOK' /\ RequestTypeOK' /\ RequestRows' /\ Committed' = Committed
          /\ RedisTypeOK'
      BY <1>0, <3>1, InvestigationFrame, RequestFrame DEF invVars, RedisTypeOK
    <3>5. EventTypeOK'
      BY <1>0, <2>5, <3>1 DEF ReplyUpdate, EventTypeOK, alertVars
    <3>6. ReviewTypeOK' /\ ReviewKnows'
      <4>1. opInvStatus' \in [Operators -> InvestigationStatus \cup {None}]
        BY <2>5, <3>3 DEF ReplyUpdate, ReviewTypeOK
      <4>2. opPc' = [opPc EXCEPT ![u] = "updated"]
        BY <2>5 DEF ReplyUpdate
      <4> QED BY <1>0, <3>1, <3>2, <3>4, <4>1, <4>2
              DEF ReviewTypeOK, ReviewKnows, dispVars, pickingVars, Candidate, EventStatus,
                  InvestigationStatus
    <3> QED BY <1>0, <1>1, <3>4, <3>5, <3>6, AgentFrame
  <2>3. CASE ReplyCommit(u)
    <3>1. UNCHANGED marker
      BY <2>3 DEF ReplyCommit
    <3>2. opReq[u] \in Committed
      BY <2>3 DEF ReplyCommit, ReviewKnows
    <3>3. EventTypeOK'
      BY <1>0, <2>3 DEF ReplyCommit, EventTypeOK, EventStatus, alertVars
    <3>4. InvestigationTypeOK'
      BY <1>0, <2>3 DEF ReplyCommit, InvestigationTypeOK, InvestigationStatus, assetVars
    <3>5. RequestTypeOK' /\ RequestRows' /\ Committed' = Committed
      BY <1>0, <2>3, <3>2 DEF ReplyCommit, RequestTypeOK, RequestRows, Committed,
         RequestStatus
    <3>6. RedisTypeOK'
      BY <1>0, <3>1 DEF RedisTypeOK
    <3>7. ReviewTypeOK' /\ ReviewKnows'
      BY <1>0, <2>3, <3>5 DEF ReplyCommit, OpReset, ReviewTypeOK, ReviewKnows, dispVars, pickingVars,
         Candidate, EventStatus, InvestigationStatus
    <3> QED BY <1>0, <1>1, <3>3, <3>4, <3>5, <3>6, <3>7, AgentFrame
  <2>4. CASE CancelCommit(u)
    <3>1. UNCHANGED <<evStatus, invStatus, answered, reqLock, rowLock, marker>>
      BY <2>4 DEF CancelCommit
    <3>2. opReq[u] \in Committed
      BY <2>4 DEF CancelCommit, ReviewKnows
    <3>3. EventTypeOK' /\ InvestigationTypeOK' /\ RedisTypeOK'
      BY <1>0, <3>1, EventFrame, InvestigationFrame DEF alertVars, invVars, RedisTypeOK
    <3>4. RequestTypeOK' /\ RequestRows' /\ Committed' = Committed
      BY <1>0, <2>4, <3>1, <3>2 DEF CancelCommit, RequestTypeOK, RequestRows, Committed,
         RequestStatus
    <3>5. ReviewTypeOK' /\ ReviewKnows'
      BY <1>0, <2>4, <3>4 DEF CancelCommit, OpReset, ReviewTypeOK, ReviewKnows, dispVars, pickingVars,
         Candidate, EventStatus, InvestigationStatus
    <3> QED BY <1>0, <1>1, <3>3, <3>4, <3>5, AgentFrame
  <2>6. CASE OpFail(u)
    <3>1. UNCHANGED <<evStatus, invStatus, answered, marker>>
      BY <2>6 DEF OpFail
    <3>2. /\ RequestTypeOK' /\ RequestRows' /\ Committed' = Committed
          /\ rowLock' \in [Events -> Workers \cup {None}]
      BY <1>0, <2>6, <3>1, RollbackTypes DEF OpFail
    <3>3. EventTypeOK' /\ InvestigationTypeOK' /\ RedisTypeOK'
      BY <1>0, <3>1, <3>2, InvestigationFrame DEF alertVars, invVars, EventTypeOK, RedisTypeOK
    <3>4. ReviewTypeOK' /\ ReviewKnows'
      BY <1>0, <2>6, <3>2 DEF OpFail, OpReset, ReviewTypeOK, ReviewKnows, dispVars, pickingVars,
         Candidate, EventStatus, InvestigationStatus
    <3> QED BY <1>0, <1>1, <3>2, <3>3, <3>4, AgentFrame
  <2> QED BY <2>1, <2>2, <2>3, <2>4, <2>5, <2>6 DEF OperatorCalls, OpStep
<1> QED BY <1>3, <1>4

\* A settlement step, or the decision of a disposition.
LEMMA SettlerTypes ==
  ASSUME TypeInv, (\E p \in Settlers : SettlerRuns(p)) \/ OperatorDecides
  PROVE  TypeInv'
<1> USE DefenseAssetsAssumption, StoreAssumption DEF TypeInv, TypeOK, StoreTypeOK
<1>0. UNCHANGED <<AssetOthers, aggVars, agentVars, reviewVars>>
  BY DEF SettlerRuns, AssetStep, AssetFetch, AssetTest, AssetLook, AssetReset, AssetSettle,
         AssetSettleFails, AssetCommit, OperatorDecides, DecideDisposition
<1>1. /\ AlertTypeOK' /\ RequestTypeOK' /\ RequestRows' /\ AggTypeOK' /\ AgentTypeOK'
      /\ AgentKnows' /\ ReviewTypeOK' /\ ReviewKnows' /\ invEvent' = invEvent
  BY <1>0, AlertFrame, RequestFrame, AggregationFrame, AgentFrame, ReviewFrame
  DEF AssetOthers, alertVars, invVars
<1>2. CASE OperatorDecides
  <2>1. UNCHANGED <<settleVars, evStatus, cases, lock, faults>>
    BY <1>2 DEF OperatorDecides, DecideDisposition
  <2>2. EventTypeOK' /\ RedisTypeOK' /\ AssetTypeOK' /\ SettlerKnows'
    BY <1>0, <1>1, <2>1, EventFrame, RedisFrame, SettlerFrame DEF AssetOthers, alertVars
  <2>3. InvestigationTypeOK'
    BY <1>0, <1>2, <2>1 DEF OperatorDecides, DecideDisposition, InvestigationTypeOK,
       DispositionStatus, AssetOthers, invVars
  <2> QED BY <1>1, <2>2, <2>3
<1>3. CASE \E p \in Settlers : SettlerRuns(p)
  <2> PICK p \in Settlers : SettlerRuns(p)
    BY <1>3
  <2> p \in Workers
    OBVIOUS
  <2>1. CASE AssetFetch(p) \/ \E e \in Events : AssetTest(p, e)
    <3>1. UNCHANGED <<assetTodo, assetCases, assetClose, evStatus, cases, disposition, faults>>
      BY <2>1 DEF AssetFetch, AssetTest
    <3>2. EventTypeOK' /\ InvestigationTypeOK'
      BY <1>0, <3>1, EventFrame, InvestigationFrame DEF AssetOthers, alertVars, assetVars
    <3>3. RedisTypeOK'
      BY <1>0, <2>1, <3>1, LockTypes DEF AssetFetch, AssetTest, RedisTypeOK, AssetOthers,
         redisVars, Services
    <3>4. AssetTypeOK' /\ SettlerKnows'
      <4>1. CASE AssetFetch(p)
        BY <1>1, <3>1, <4>1 DEF AssetFetch, Fetched, AssetTypeOK, SettlerKnows
      <4>2. CASE \E e \in Events : AssetTest(p, e)
        BY <1>1, <3>1, <4>2 DEF AssetTest, AssetTypeOK, SettlerKnows
      <4> QED BY <2>1, <4>1, <4>2
    <3> QED BY <1>1, <3>2, <3>3, <3>4
  <2>5. CASE AssetLook(p)
    <3>1. UNCHANGED <<evStatus, cases, disposition, faults>>
      BY <2>5 DEF AssetLook
    <3>2. EventTypeOK' /\ InvestigationTypeOK'
      BY <1>0, <3>1, EventFrame, InvestigationFrame DEF AssetOthers, alertVars, assetVars
    <3>3. RedisTypeOK'
      BY <1>0, <2>5, <3>1, LockTypes DEF AssetLook, AssetReset, RedisTypeOK, AssetOthers,
         redisVars, Services
    <3>4. assetTested[p] \in Events
      BY <2>5 DEF AssetLook, AssetTypeOK
    <3>5. \A i \in Investigations :
            Settleable(i, assetTested[p]) => invEvent[i] \in Events
      BY <3>4 DEF Settleable
    <3>6. AssetTypeOK' /\ SettlerKnows'
      <4>1. CASE AssetReset(p)
        BY <1>1, <4>1 DEF AssetReset, AssetTypeOK, SettlerKnows
      <4>2. CASE ~AssetReset(p)
        <5> DEFINE found == {i \in Investigations : Settleable(i, assetTested[p])}
        <5>1. /\ assetTested' = [assetTested EXCEPT ![p] = None]
              /\ assetTodo' = [assetTodo EXCEPT ![p] = @ \cup (found \ Settled)]
              /\ \/ assetClose' = [assetClose EXCEPT ![p] = @ \cup {assetTested[p]}]
                 \/ assetClose' = [assetClose EXCEPT ![p] = @]
              /\ UNCHANGED <<assetPc, assetFetched, assetCases>>
          BY <2>5, <4>2 DEF AssetLook
        <5>2. /\ found \ Settled \subseteq Investigations
              /\ \A i \in found \ Settled : invEvent[i] \in Events
          BY <3>5
        <5> HIDE DEF found
        <5> QED BY <1>1, <3>4, <5>1, <5>2 DEF AssetTypeOK, SettlerKnows
      <4> QED BY <4>1, <4>2
    <3> QED BY <1>1, <3>2, <3>3, <3>6
  <2>2. CASE \E i \in Investigations : AssetSettle(p, i)
    <3>1. UNCHANGED <<evStatus, cases, disposition, lock, faults>>
      BY <2>2 DEF AssetSettle
    <3>2. EventTypeOK' /\ InvestigationTypeOK' /\ RedisTypeOK'
      BY <1>0, <3>1, EventFrame, InvestigationFrame, RedisFrame
      DEF AssetOthers, alertVars, assetVars
    <3>3. AssetTypeOK' /\ SettlerKnows'
      BY <1>1, <2>2 DEF AssetSettle, pickVars, WithCase, AssetTypeOK, SettlerKnows
    <3> QED BY <1>1, <3>2, <3>3
  <2>3. CASE \E i \in Investigations : AssetSettleFails(p, i)
    <3>1. UNCHANGED <<evStatus, cases, disposition, lock>>
      BY <2>3 DEF AssetSettleFails
    <3>2. EventTypeOK' /\ InvestigationTypeOK'
      BY <1>0, <3>1, EventFrame, InvestigationFrame DEF AssetOthers, alertVars, assetVars
    <3>3. RedisTypeOK'
      BY <1>0, <2>3, <3>1, FaultTypes DEF AssetSettleFails, RedisTypeOK, AssetOthers, redisVars
    <3>4. AssetTypeOK' /\ SettlerKnows'
      BY <1>1, <2>3 DEF AssetSettleFails, pickVars, WithCase, AssetTypeOK, SettlerKnows
    <3> QED BY <1>1, <3>2, <3>3, <3>4
  <2>4. CASE AssetCommit(p)
    <3>1. UNCHANGED <<disposition, faults>>
      BY <2>4 DEF AssetCommit
    <3>2. EventTypeOK'
      BY <1>0, <2>4 DEF AssetCommit, EventTypeOK, EventStatus, AssetOthers, alertVars
    <3>3. InvestigationTypeOK'
      BY <1>0, <2>4, <3>1 DEF AssetCommit, InvestigationTypeOK, AssetOthers, invVars
    <3>4. RedisTypeOK'
      BY <1>0, <2>4, <3>1, LockTypes DEF AssetCommit, AssetReset, RedisTypeOK, AssetOthers,
         redisVars, Services
    <3>5. AssetTypeOK' /\ SettlerKnows'
      BY <1>1, <2>4 DEF AssetCommit, AssetReset, AssetTypeOK, SettlerKnows
    <3> QED BY <1>1, <3>2, <3>3, <3>4, <3>5
  <2> QED BY <2>1, <2>2, <2>3, <2>4, <2>5 DEF SettlerRuns, AssetStep
<1> QED BY <1>2, <1>3

\* Alerts arrive, keys run out, days pass and the process dies.
LEMMA EnvironmentTypes ==
  ASSUME TypeInv, AlertArrives \/ (\E s \in Services : LockExpires(s)) \/ Midnight \/ Crash
  PROVE  TypeInv'
<1> USE StoreAssumption DEF TypeInv, TypeOK, StoreTypeOK
<1>1. CASE AlertArrives
  <2>1. UNCHANGED <<link, evKey, alertCount, evStatus, invVars, reqVars, assetVars, rowLock,
                    lock, redisVars, faults, aggVars, agentVars, reviewVars, settleVars>>
    BY <1>1 DEF AlertArrives, TriageAlert
  <2>2. AlertTypeOK'
    BY <1>1, <2>1 DEF AlertArrives, TriageAlert, AlertTypeOK, AlertStatus
  <2> QED BY <2>1, <2>2, EventFrame, InvestigationFrame, RequestFrame, RedisFrame,
             AggregationFrame, AgentFrame, ReviewFrame, SettlerFrame DEF invVars
<1>2. CASE (\E s \in Services : LockExpires(s)) \/ Midnight
  <2>1. /\ UNCHANGED <<alertVars, evStatus, invVars, reqVars, assetVars, rowLock, marker,
                       faults, aggVars, agentVars, reviewVars, settleVars>>
        /\ lock' \in [Services -> Workers \cup {None}] /\ used' \in Nat
    BY <1>2 DEF LockExpires, Midnight, RedisTypeOK, redisVars
  <2>2. RedisTypeOK'
    BY <2>1 DEF RedisTypeOK
  <2> QED BY <2>1, <2>2, AlertFrame, EventFrame, InvestigationFrame, RequestFrame,
             AggregationFrame, AgentFrame, ReviewFrame, SettlerFrame DEF alertVars, invVars
<1>3. CASE Crash
  <2>1. UNCHANGED <<alertVars, evStatus, invVars, reqEvent, reqInv, answered, assetVars,
                    lock, redisVars>>
    BY <1>3 DEF Crash
  <2>2. /\ RequestTypeOK' /\ RequestRows' /\ Committed' = Committed
        /\ rowLock' \in [Events -> Workers \cup {None}]
    BY <1>3, <2>1, RollbackTypes DEF Crash
  <2>3. AlertTypeOK' /\ EventTypeOK' /\ InvestigationTypeOK' /\ RedisTypeOK'
    BY <1>3, <2>1, <2>2, AlertFrame, InvestigationFrame, FaultTypes
    DEF Crash, EventTypeOK, RedisTypeOK, alertVars, redisVars
  <2>4. AggTypeOK' /\ AgentTypeOK' /\ AgentKnows' /\ AssetTypeOK' /\ SettlerKnows'
    BY <1>3 DEF Crash, AggDies, AgentDies, AssetDies, AggTypeOK, AgentTypeOK, AgentKnows,
       AssetTypeOK, SettlerKnows
  <2>5. ReviewTypeOK' /\ ReviewKnows'
    BY <1>3 DEF Crash, ReviewDies, ReviewTypeOK, ReviewKnows, Candidate, EventStatus,
       InvestigationStatus
  <2> QED BY <2>2, <2>3, <2>4, <2>5
<1> QED BY <1>1, <1>2, <1>3

\* Every step keeps TypeInv.
LEMMA NextTypes == ASSUME TypeInv, [Next]_vars PROVE TypeInv'
<1>1. CASE Next
  BY <1>1, AggregationTypes, AgentTypes, DispatcherTypes, OperatorTypes, SettlerTypes,
     EnvironmentTypes
  DEF Next
<1>2. CASE UNCHANGED vars
  BY <1>2, AlertFrame, EventFrame, InvestigationFrame, RequestFrame, RedisFrame,
     AggregationFrame, AgentFrame, ReviewFrame, SettlerFrame
  DEF TypeInv, TypeOK, StoreTypeOK, vars, storeVars, alertVars, invVars
<1> QED BY <1>1, <1>2

\* The strengthened invariant holds in every reachable state.
THEOREM TypeInvariant == Spec => []TypeInv
BY InitTypes, NextTypes, PTL DEF Spec

\* Every variable of the pipeline keeps its type, with any number of alerts,
\* events, requests and runs of every service: no commit writes a status the
\* enum lacks and no row names a row that does not exist.
THEOREM TypeCorrect == Spec => []TypeOK
BY TypeInvariant, PTL DEF TypeInv
=============================================================================
