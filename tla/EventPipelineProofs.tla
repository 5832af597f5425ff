------------------------ MODULE EventPipelineProofs -------------------------
(***************************************************************************)
(* The safety properties of the pipeline, for any number of alerts,        *)
(* events, requests and runs.  Each section has the inductive invariant    *)
(* one property needs, the steps that could break it, and the theorem.     *)
(***************************************************************************)
EXTENDS EventPipelineTypes, HealthCheck, FiniteSetTheorems

(* An event never has two open requests.  AtMostOneSent is not inductive: a  *)
(* dispatcher commits what it decided to send many steps ago.  DispatchInv   *)
(* carries the decision from the pick to the commit.                         *)


\* A step that opens no request, keeps the owners of the drafts and leaves the
\* dispatchers and their lock alone keeps DispatchInv.
LEMMA QuietStep ==
  ASSUME TypeInv, DispatchInv, Sent' \subseteq Sent, Drafts' \subseteq Drafts,
         UNCHANGED <<reqEvent, dispVars>>,
         \A r \in Drafts' : reqLock'[r] = reqLock[r],
         \A d \in Dispatchers : dispPc[d] # "idle" => lock'["human_review"] = d
  PROVE  DispatchInv'
<1>1. AtMostOneSent'
  BY DEF DispatchInv, AtMostOneSent
<1>2. DispatcherOwnsLock'
  BY DEF DispatcherOwnsLock, dispVars
<1>3. DraftsAreOwned'
  BY DEF DispatchInv, DraftsAreOwned, dispVars
<1>4. OneQuestion'
  BY DEF DispatchInv, OneQuestion, NothingPicked, Removed, Asking, dispVars, pickingVars
<1> QED BY <1>1, <1>2, <1>3, <1>4 DEF DispatchInv

\* Steps of the other services: they only ever withdraw requests.
LEMMA OthersAreQuiet ==
  ASSUME TypeInv, DispatchInv,
         \/ AlertArrives \/ Midnight
         \/ \E g \in Aggregators : AggregationRuns(g)
         \/ \E n \in Agents : AgentRuns(n)
         \/ \E p \in Settlers : SettlerRuns(p)
         \/ OperatorDecides
  PROVE  DispatchInv'
<1> USE DEF TypeInv, TypeOK, StoreTypeOK
<1> lock \in [Services -> Workers \cup {None}] /\ "human_review" \in Services
  BY DEF RedisTypeOK, Services
<1>1. ASSUME UNCHANGED <<reqVars, dispVars>>,
             lock'["human_review"] = lock["human_review"]
      PROVE  DispatchInv'
  BY <1>1, QuietStep DEF Sent, Drafts, reqVars, DispatchInv, DispatcherOwnsLock
<1>2. CASE AlertArrives \/ Midnight
  BY <1>1, <1>2 DEF AlertArrives, TriageAlert, Midnight, reviewVars
<1>3. CASE \E g \in Aggregators : AggregationRuns(g)
  BY <1>1, <1>3 DEF AggregationRuns, AggStep, AggFetch, AggFind, AggCommit, AggConflict,
     AggEnd, AggReset, AggOthers, AcquireLock, ReleaseLock, reviewVars
<1>4. CASE (\E p \in Settlers : SettlerRuns(p)) \/ OperatorDecides
  BY <1>1, <1>4 DEF SettlerRuns, AssetStep, AssetFetch, AssetTest, AssetLook, AssetSettle,
     AssetSettleFails, AssetCommit, AssetReset, OperatorDecides, DecideDisposition, AssetOthers,
     AcquireLock, ReleaseLock, reviewVars
<1>5. CASE \E n \in Agents : AgentRuns(n)
  <2> PICK n \in Agents : AgentRuns(n)
    BY <1>5
  <2>1. /\ UNCHANGED <<reqEvent, dispVars>>
        /\ lock'["human_review"] = lock["human_review"]
    BY DEF AgentRuns, AgentStep, AgentPick, AgentBegin, AgentConclude, AgentCharge,
       AgentCommit, AgentFail, AgentEnd, AgentOthers, AcquireLock, ReleaseLock, reviewVars
  <2>2. /\ Sent' \subseteq Sent /\ Drafts' \subseteq Drafts
        /\ \A r \in Drafts' : reqLock'[r] = reqLock[r]
    <3>1. CASE AgentPick(n) \/ (\E e \in Events : AgentBegin(n, e)) \/ AgentEnd(n)
      BY <3>1 DEF AgentPick, AgentBegin, AgentEnd, Sent, Drafts
    <3>2. CASE (\E v \in Verdicts : AgentConclude(n, v)) \/ AgentCharge(n)
      BY <3>2 DEF AgentConclude, AgentCharge, Sent, Drafts, AgentKnows, Committed
    <3>3. CASE \E i \in Investigations, suggested \in BOOLEAN : AgentCommit(n, i, suggested)
      BY <3>3 DEF AgentCommit, Sent, Drafts
    <3>4. CASE AgentFail(n)
      BY <3>4 DEF AgentFail, Rollback, Sent, Drafts
    <3> QED BY <3>1, <3>2, <3>3, <3>4 DEF AgentRuns, AgentStep
  <2> QED BY <2>1, <2>2, QuietStep DEF DispatchInv, DispatcherOwnsLock
<1> QED BY <1>2, <1>3, <1>4, <1>5

\* Replies and cancellations work on committed rows: they close one.
LEMMA OperatorsAreQuiet ==
  ASSUME TypeInv, DispatchInv, (\E u \in Operators : OperatorCalls(u)) \/ MarkerTtl
  PROVE  DispatchInv'
<1>1. UNCHANGED <<reqEvent, dispVars, lock>>
  BY DEF OperatorCalls, OpStep, ReplyRead, ReplyFlush, ReplyUpdate, ReplyCommit,
     CancelRead, CancelCommit, OpFail, MarkerTtl, MarkerExpires, OpOthers, reviewVars, reqVars
<1>2. /\ Sent' \subseteq Sent /\ Drafts' \subseteq Drafts
      /\ \A r \in Drafts' : reqLock'[r] = reqLock[r]
  <2>1. CASE MarkerTtl
    BY <2>1 DEF MarkerTtl, MarkerExpires, Sent, Drafts, reqVars
  <2>2. CASE \E u \in Operators : OperatorCalls(u)
    <3> PICK u \in Operators : OperatorCalls(u)
      BY <2>2
    <3>1. CASE \E r \in Requests : ReplyRead(u, r) \/ CancelRead(u, r)
      BY <3>1 DEF ReplyRead, CancelRead, Sent, Drafts
    <3>2. CASE ReplyFlush(u)
      BY <3>2 DEF ReplyFlush, Sent, Drafts, TypeInv, ReviewKnows, Committed
    <3>6. CASE ReplyUpdate(u)
      BY <3>6 DEF ReplyUpdate, Sent, Drafts
    <3>3. CASE ReplyCommit(u)
      BY <3>3 DEF ReplyCommit, Sent, Drafts, TypeInv, ReviewKnows, Committed
    <3>4. CASE CancelCommit(u)
      BY <3>4 DEF CancelCommit, Sent, Drafts
    <3>5. CASE OpFail(u)
      BY <3>5 DEF OpFail, Rollback, Sent, Drafts
    <3> QED BY <3>1, <3>2, <3>3, <3>4, <3>5, <3>6 DEF OperatorCalls, OpStep
  <2> QED BY <2>1, <2>2
<1> QED BY <1>1, <1>2, QuietStep DEF DispatchInv, DispatcherOwnsLock

\* A lock that cannot expire under a run only goes when nobody dispatches, and a
\* crash takes every draft with it.
LEMMA EnvironmentIsSafe ==
  ASSUME TypeInv, DispatchInv, "human_review" \in Reliable,
         (\E s \in Services : LockExpires(s)) \/ Crash
  PROVE  DispatchInv'
<1> USE HumanReviewAssumption, StoreAssumption
<1>1. CASE \E s \in Services : LockExpires(s)
  <2> PICK s \in Services : LockExpires(s)
    BY <1>1
  <2>1. UNCHANGED <<reqVars, dispVars>>
    BY DEF LockExpires, reviewVars
  <2>2. \A d \in Dispatchers : dispPc[d] # "idle" => lock'["human_review"] = d
    <3> SUFFICES ASSUME NEW d \in Dispatchers, dispPc[d] # "idle"
                 PROVE  lock'["human_review"] = d
      OBVIOUS
    <3>1. lock["human_review"] = d
      BY DEF DispatchInv, DispatcherOwnsLock
    <3>2. s # "human_review"
      BY <3>1 DEF LockExpires, IsIdle
    <3> QED BY <3>1, <3>2 DEF LockExpires, TypeInv, TypeOK, StoreTypeOK, RedisTypeOK
  <2> QED BY <2>1, <2>2, QuietStep DEF Sent, Drafts, reqVars
<1>2. CASE Crash
  <2>1. Drafts' = {}
    <3>1. \A r \in Drafts : reqLock[r] \in Workers
      BY DEF DispatchInv, DraftsAreOwned
    <3> QED BY <1>2, <3>1 DEF Crash, Rollback, Drafts
  <2>2. Sent' \subseteq Sent /\ reqEvent' = reqEvent
    BY <1>2 DEF Crash, Rollback, Sent
  <2>3. \A d \in Dispatchers : dispPc'[d] = "idle" /\ NothingPicked(d)'
    BY <1>2 DEF Crash, ReviewDies, NothingPicked
  <2> QED BY <2>1, <2>2, <2>3
          DEF DispatchInv, AtMostOneSent, DispatcherOwnsLock, DraftsAreOwned, OneQuestion, NothingPicked
<1> QED BY <1>1, <1>2

\* Only the owner of the lock dispatches, and only what it sends is in flight.
LEMMA OneDispatcher ==
  ASSUME DispatchInv, NEW d \in Dispatchers, dispPc[d] # "idle"
  PROVE  /\ \A x \in Dispatchers : x # d => dispPc[x] = "idle"
         /\ \A r \in Drafts : reqLock[r] = d
         /\ dispPc[d] # "sending" => Drafts = {}
<1>1. \A x \in Dispatchers : dispPc[x] # "idle" => x = d
  BY DEF DispatchInv, DispatcherOwnsLock
<1>2. \A r \in Drafts : reqLock[r] = d /\ dispPc[d] = "sending"
  BY <1>1 DEF DispatchInv, DraftsAreOwned
<1> QED BY <1>1, <1>2

\* An event has at most one latest investigation.
LEMMA OneHumanInvestigation ==
  ASSUME NEW e, NEW i \in HumanInvestigation(e), NEW j \in HumanInvestigation(e)
  PROVE  i = j
<1>1. i \in Investigations /\ j \in Investigations /\ i <= j /\ j <= i
  BY DEF HumanInvestigation, IsLatest, InvestigationsOf
<1>2. i \in Nat /\ j \in Nat
  BY <1>1, StoreAssumption
<1> QED BY <1>1, <1>2

\* A dispatcher step: the pick looks at everything that is open, and between the
\* pick and the commit nobody else opens a request.
LEMMA DispatcherIsSafe ==
  ASSUME TypeInv, DispatchInv, NEW d \in Dispatchers, DispatcherRuns(d)
  PROVE  DispatchInv'
<1> USE HumanReviewAssumption, StoreAssumption DEF TypeInv, TypeOK, StoreTypeOK
<1> /\ lock \in [Services -> Workers \cup {None}] /\ "human_review" \in Services
    /\ d \in Workers /\ d # None
  BY DEF RedisTypeOK, Services
<1> dispPc \in [Dispatchers -> {"idle", "expiring", "swept", "sending"}]
  BY DEF ReviewTypeOK
<1>1. ASSUME UNCHANGED <<reqStatus, reqEvent>>, Drafts = {},
             dispPc[d] # "sending", dispPc'[d] \notin {"idle", "sending"},
             lock'["human_review"] = d, UNCHANGED <<pickingVars, dispTodo>>,
             \A x \in Dispatchers : x # d => dispPc[x] = "idle" /\ dispPc'[x] = "idle"
      PROVE  DispatchInv'
  BY <1>1 DEF DispatchInv, AtMostOneSent, DispatcherOwnsLock, DraftsAreOwned, OneQuestion, NothingPicked,
     Sent, Drafts, pickingVars
<1>2. CASE \E S \in SUBSET Requests : DispExpire(d, S)
  <2>1. \A x \in Dispatchers : dispPc[x] = "idle"
    BY <1>2 DEF DispExpire, AcquireLock, DispatchInv, DispatcherOwnsLock
  <2>2. Drafts = {}
    BY <2>1 DEF DispatchInv, DraftsAreOwned
  <2>3. /\ UNCHANGED <<reqVars, pickingVars, dispTodo>> /\ lock'["human_review"] = d
        /\ dispPc' = [dispPc EXCEPT ![d] = "expiring"]
    BY <1>2 DEF DispExpire, AcquireLock
  <2> QED BY <1>1, <2>1, <2>2, <2>3 DEF reqVars
<1>3. CASE DispSweep(d)
  <2>1. /\ \A x \in Dispatchers : x # d => dispPc[x] = "idle"
        /\ Drafts = {} /\ lock["human_review"] = d
    BY <1>3, OneDispatcher DEF DispSweep, DispatchInv, DispatcherOwnsLock
  <2> QED BY <1>1, <1>3, <2>1 DEF DispSweep
<1>4. CASE DispPick(d)
  <2>1. /\ \A x \in Dispatchers : x # d => dispPc[x] = "idle"
        /\ Drafts = {} /\ lock["human_review"] = d
    BY <1>4, OneDispatcher DEF DispPick, DispatchInv, DispatcherOwnsLock
  <2>2. /\ UNCHANGED <<reqStatus, reqEvent, dispExpire, dispCancel, dispTested, dispTodo,
                       lock>>
        /\ dispPc' = [dispPc EXCEPT ![d] = "sending"]
        /\ dispPicked' = [dispPicked EXCEPT ![d] = DispatchCandidates(d)]
    BY <1>4 DEF DispPick
  <2>3. Sent' = Sent /\ Drafts' = {} /\ Removed(d)' = Removed(d)
    BY <2>1, <2>2 DEF Sent, Drafts, Removed
  <2>4. /\ dispTested[d] = None /\ dispTodo[d] = {}
        /\ \A x \in Dispatchers : dispPc[x] # "sending"
    BY <1>4, <2>1 DEF DispPick, DispatchInv, OneQuestion, NothingPicked
  <2>5. /\ Asking(d)' = DispatchCandidates(d)
        /\ dispTested'[d] \notin dispPicked'[d]
    BY <2>2, <2>4 DEF ReviewTypeOK, Asking, DispatchCandidates
  <2>6. \A e \in DispatchCandidates(d), r \in Sent \ Removed(d) : reqEvent[r] # e
    BY DEF DispatchCandidates
  <2>7. OneQuestion'
    BY <2>1, <2>2, <2>3, <2>4, <2>5, <2>6 DEF OneQuestion, NothingPicked, DispatchInv
  <2> QED BY <2>1, <2>2, <2>3, <2>7
          DEF DispatchInv, AtMostOneSent, DispatcherOwnsLock, DraftsAreOwned
<1>9. CASE (\E e \in Events : DispTest(d, e)) \/ DispLook(d)
  <2>1. dispPc[d] = "sending"
    BY <1>9 DEF DispTest, DispLook, DispatchInv, OneQuestion, NothingPicked, ReviewTypeOK
  <2>2. /\ \A x \in Dispatchers : x # d => dispPc[x] = "idle"
        /\ lock["human_review"] = d
    BY <2>1, OneDispatcher DEF DispatchInv, DispatcherOwnsLock
  <2>3. /\ UNCHANGED <<reqVars, dispPc, dispExpire, dispCancel, lock>>
        /\ \A x \in Dispatchers : x # d => UNCHANGED <<dispPicked[x], dispTested[x], dispTodo[x]>>
    BY <1>9 DEF DispTest, DispLook, ReviewTypeOK
  <2>4. Sent' = Sent /\ Drafts' = Drafts /\ Removed(d)' = Removed(d)
    BY <2>3 DEF Sent, Drafts, Removed, reqVars
  <2> DEFINE Open == (Sent \ Removed(d)) \cup Drafts
  <2>5. /\ dispTested[d] \notin dispPicked[d]
        /\ \A e \in Asking(d) : /\ \A r \in Open : reqEvent[r] # e
                               /\ \A c \in dispTodo[d] : c.event # e
        /\ \A c \in dispTodo[d] :
             /\ \A r \in Open : reqEvent[r] # c.event
             /\ \A b \in dispTodo[d] : b.event = c.event => b = c
        /\ \A r \in Drafts, q \in Open : reqEvent[r] = reqEvent[q] => r = q
    BY <2>1 DEF DispatchInv, OneQuestion
  <2> HIDE DEF Open
  <2>6. /\ dispTested'[d] \notin dispPicked'[d]
        /\ \A e \in Asking(d)' : /\ \A r \in Open : reqEvent[r] # e
                                /\ \A c \in dispTodo'[d] : c.event # e
        /\ \A c \in dispTodo'[d] :
             /\ \A r \in Open : reqEvent[r] # c.event
             /\ \A b \in dispTodo'[d] : b.event = c.event => b = c
    <3>1. CASE \E e \in Events : DispTest(d, e)
      <4> PICK e \in Events : DispTest(d, e)
        BY <3>1
      <4>1. /\ e \in dispPicked[d] /\ dispTested[d] = None
            /\ dispPicked'[d] = dispPicked[d] \ {e} /\ dispTested'[d] \in {None, e}
            /\ dispTodo'[d] = dispTodo[d] /\ None \notin dispPicked[d]
        BY DEF DispTest, ReviewTypeOK
      <4>2. Asking(d)' \subseteq Asking(d)
        BY <4>1 DEF Asking
      <4> QED BY <2>5, <4>1, <4>2
    <3>2. CASE DispLook(d)
      <4> DEFINE e == dispTested[d]
                 Found == {[event |-> e, inv |-> i] : i \in HumanInvestigation(e)}
      <4>1. /\ e \in Asking(d) /\ e # None
            /\ dispPicked'[d] = dispPicked[d] /\ dispTested'[d] = None
            /\ dispTodo'[d] = dispTodo[d] \cup Found /\ None \notin dispPicked[d]
        BY <3>2 DEF DispLook, ReviewTypeOK, Asking
      <4>2. Asking(d)' = Asking(d) \ {e}
        BY <2>5, <4>1 DEF Asking
      <4>3. \A c \in Found : c.event = e /\ \A b \in Found : b = c
        BY OneHumanInvestigation
      <4> HIDE DEF Found, e
      <4>4. \A c \in dispTodo'[d] : c.event = e \/ c \in dispTodo[d]
        BY <4>1, <4>3
      <4> QED BY <2>5, <4>1, <4>2, <4>3, <4>4
    <3> QED BY <1>9, <3>1, <3>2
  <2>7. OneQuestion'
    <3>1. \A x \in Dispatchers : dispPc'[x] # "sending" => NothingPicked(x)'
      BY <2>1, <2>3 DEF DispatchInv, OneQuestion, NothingPicked
    <3>2. \A x \in Dispatchers : dispPc'[x] = "sending" => x = d
      BY <2>2, <2>3
    <3>3. ((Sent \ Removed(d)) \cup Drafts)' = Open /\ reqEvent' = reqEvent
      BY <2>3, <2>4 DEF Open, reqVars
    <3> QED BY <2>4, <2>5, <2>6, <3>1, <3>2, <3>3 DEF OneQuestion
  <2> QED BY <2>1, <2>2, <2>3, <2>4, <2>7
          DEF DispatchInv, AtMostOneSent, DispatcherOwnsLock, DraftsAreOwned, reqVars
<1>5. CASE \E c \in Candidate, r \in Requests : DispSend(d, c, r)
  <2> PICK c \in Candidate, r \in Requests : DispSend(d, c, r)
    BY <1>5
  <2>1. /\ \A x \in Dispatchers : x # d => dispPc[x] = "idle"
        /\ \A q \in Drafts : reqLock[q] = d
        /\ dispPc[d] = "sending" /\ c \in dispTodo[d] /\ Asking(d) = {}
    BY OneDispatcher DEF DispSend, Sends, Asking
  <2>2. /\ Sent' = Sent /\ Drafts' = Drafts \cup {r} /\ r \notin Sent \cup Drafts
        /\ \A q \in Drafts : reqEvent'[q] = reqEvent[q] /\ reqLock'[q] = reqLock[q]
        /\ \A q \in Sent : reqEvent'[q] = reqEvent[q]
        /\ reqEvent'[r] = c.event /\ reqLock'[r] = d
    BY DEF DispSend, Sent, Drafts, RequestTypeOK, IsNext
  <2>3. /\ UNCHANGED <<dispPc, dispExpire, dispCancel, dispPicked, dispTested, lock>>
        /\ dispTodo'[d] = dispTodo[d] \ {c} /\ Asking(d)' = Asking(d)
        /\ \A x \in Dispatchers : x # d => dispTodo'[x] = dispTodo[x]
    BY DEF DispSend, ReviewTypeOK, pickingVars, Asking
  <2>4. AtMostOneSent' /\ DispatcherOwnsLock' /\ DraftsAreOwned'
    BY <2>1, <2>2, <2>3
    DEF DispatchInv, AtMostOneSent, DispatcherOwnsLock, DraftsAreOwned
  <2>5. /\ \A q \in (Sent \ Removed(d)) \cup Drafts : reqEvent[q] # c.event
        /\ \A b \in dispTodo[d] : b.event = c.event => b = c
        /\ \A b \in dispTodo[d] :
             /\ \A q \in (Sent \ Removed(d)) \cup Drafts : reqEvent[q] # b.event
             /\ \A a \in dispTodo[d] : a.event = b.event => a = b
        /\ \A p \in Drafts, q \in (Sent \ Removed(d)) \cup Drafts :
             reqEvent[p] = reqEvent[q] => p = q
    BY <2>1 DEF DispatchInv, OneQuestion
  <2>6. Removed(d)' = Removed(d)
    BY <2>3 DEF Removed
  <2>7. OneQuestion'
    <3>1. ASSUME NEW b \in dispTodo'[d],
                 NEW q \in ((Sent \ Removed(d)) \cup Drafts)'
          PROVE  reqEvent'[q] # b.event
      BY <2>2, <2>3, <2>5, <2>6
    <3>2. ASSUME NEW p \in Drafts', NEW q \in ((Sent \ Removed(d)) \cup Drafts)',
                 reqEvent'[p] = reqEvent'[q]
          PROVE  p = q
      BY <2>2, <2>5, <2>6, <3>2
    <3>3. \A x \in Dispatchers : dispPc'[x] = "sending" => x = d
      BY <2>1, <2>3
    <3>4. /\ \A x \in Dispatchers : dispPc'[x] # "sending" => NothingPicked(x)'
          /\ dispTested'[d] \notin dispPicked'[d]
      BY <2>1, <2>3 DEF DispatchInv, OneQuestion, NothingPicked
    <3> QED BY <2>1, <2>3, <2>5, <3>1, <3>2, <3>3, <3>4 DEF OneQuestion
  <2> QED BY <2>4, <2>7 DEF DispatchInv
<1>6. CASE \E c \in Candidate : DispSendFails(d, c)
  <2>1. /\ UNCHANGED <<reqVars, dispPc, dispExpire, dispCancel, dispPicked, dispTested, lock>>
        /\ \A x \in Dispatchers : dispTodo'[x] \subseteq dispTodo[x]
    BY <1>6 DEF DispSendFails, ReviewTypeOK, pickingVars
  <2>2. /\ Sent' = Sent /\ Drafts' = Drafts
        /\ \A x \in Dispatchers : Removed(x)' = Removed(x) /\ Asking(x)' = Asking(x)
    BY <2>1 DEF Sent, Drafts, Removed, Asking, reqVars
  <2>3. OneQuestion'
    BY <2>1, <2>2 DEF DispatchInv, OneQuestion, NothingPicked, reqVars
  <2> QED BY <2>1, <2>2, <2>3
          DEF DispatchInv, AtMostOneSent, DispatcherOwnsLock, DraftsAreOwned, reqVars
<1>7. CASE DispCommit(d)
  <2>1. /\ \A x \in Dispatchers : x # d => dispPc[x] = "idle"
        /\ \A q \in Drafts : reqLock[q] = d
        /\ dispPc[d] = "sending"
    BY <1>7, OneDispatcher DEF DispCommit, Sends
  <2>2. Sent' \subseteq (Sent \ Removed(d)) \cup Drafts /\ Drafts' = {}
    <3>1. \A r \in Requests :
            reqStatus'[r] = "sent" => r \in (Sent \ Removed(d)) \cup Drafts
      BY <1>7 DEF DispCommit, Sent, Drafts, Removed
    <3>2. \A r \in Requests : reqStatus'[r] # "draft"
      BY <1>7, <2>1 DEF DispCommit, Drafts
    <3> QED BY <3>1, <3>2 DEF Sent, Drafts
  <2>3. /\ UNCHANGED reqEvent
        /\ \A x \in Dispatchers : dispPc'[x] = "idle" /\ NothingPicked(x)'
    BY <1>7, <2>1 DEF DispCommit, DispReset, ReviewTypeOK, DispatchInv, OneQuestion, NothingPicked
  <2>4. AtMostOneSent'
    BY <2>1, <2>2, <2>3 DEF DispatchInv, AtMostOneSent, OneQuestion
  <2> QED BY <2>2, <2>3, <2>4 DEF DispatchInv, DispatcherOwnsLock, DraftsAreOwned, OneQuestion, NothingPicked
<1>8. CASE DispFail(d)
  <2>1. /\ \A x \in Dispatchers : x # d => dispPc[x] = "idle"
        /\ \A q \in Drafts : reqLock[q] = d
    BY <1>8, OneDispatcher DEF DispFail
  <2>2. Sent' \subseteq Sent /\ Drafts' = {} /\ UNCHANGED reqEvent
    BY <1>8, <2>1 DEF DispFail, Rollback, Sent, Drafts
  <2>3. \A x \in Dispatchers : dispPc'[x] = "idle" /\ NothingPicked(x)'
    BY <1>8, <2>1 DEF DispFail, DispReset, ReviewTypeOK, DispatchInv, OneQuestion, NothingPicked
  <2> QED BY <2>2, <2>3
          DEF DispatchInv, AtMostOneSent, DispatcherOwnsLock, DraftsAreOwned, OneQuestion, NothingPicked
<1> QED BY <1>2, <1>3, <1>4, <1>5, <1>6, <1>7, <1>8, <1>9 DEF DispatcherRuns, DispStep

\* Initially there is nothing to ask.
LEMMA InitDispatch == Init => DispatchInv
BY DEF Init, StoreInit, ReviewInit, DispatchInv, AtMostOneSent, DispatcherOwnsLock,
       DraftsAreOwned, OneQuestion, NothingPicked, Sent, Drafts

\* Every step keeps DispatchInv, if the dispatcher's lock outlasts its runs.
LEMMA NextDispatch ==
  ASSUME TypeInv, DispatchInv, "human_review" \in Reliable, [Next]_vars
  PROVE  DispatchInv'
<1>1. CASE Next
  BY <1>1, OthersAreQuiet, OperatorsAreQuiet, EnvironmentIsSafe, DispatcherIsSafe DEF Next
<1>2. CASE UNCHANGED vars
  BY <1>2, QuietStep DEF vars, storeVars, reqVars, reviewVars, Sent, Drafts, DispatchInv,
     DispatcherOwnsLock
<1> QED BY <1>1, <1>2

\* No event ever has two open requests to a human, with any number of
\* dispatchers, replies, cancellations, expiries, failures and crashes, provided
\* that a run of the dispatcher never outlives its lock.  (Without the proviso
\* the key expires and a second dispatcher asks the same question.)
THEOREM OneOpenRequest ==
  ASSUME "human_review" \in Reliable
  PROVE  Spec => []AtMostOneSent
<1>1. Init => DispatchInv
  BY InitDispatch
<1>2. TypeInv /\ DispatchInv /\ [Next]_vars => DispatchInv'
  BY NextDispatch
<1>3. DispatchInv => AtMostOneSent
  BY DEF DispatchInv
<1> QED BY <1>1, <1>2, <1>3, TypeInvariant, PTL DEF Spec

-----------------------------------------------------------------------------

(* What the steps of a service write, and what they leave to the others.     *)

\* The lock keys of the other services stay as they are.
KeepsLocksBut(s) == \A t \in Services \ {s} : lock'[t] = lock[t]

LEMMA AggregationWrites ==
  ASSUME TypeInv, NEW g \in Aggregators, AggregationRuns(g)
  PROVE  /\ UNCHANGED <<invVars, reqVars, assetVars, rowLock, redisVars, faults,
                        agentVars, reviewVars, settleVars>>
         /\ KeepsLocksBut("aggregation")
<1>1. UNCHANGED <<AggOthers, agentVars, reviewVars, settleVars>>
  BY DEF AggregationRuns, AggStep, AggFetch, AggFind, AggCommit, AggConflict, AggEnd
<1>2. KeepsLocksBut("aggregation")
  BY DEF AggregationRuns, AggStep, AggFetch, AggFind, AggCommit, AggConflict, AggEnd,
     AggReset, AcquireLock, ReleaseLock, KeepsLocksBut, TypeInv, TypeOK, StoreTypeOK,
     RedisTypeOK
<1> QED BY <1>1, <1>2 DEF AggOthers

LEMMA AgentWrites ==
  ASSUME TypeInv, NEW n \in Agents, AgentRuns(n)
  PROVE  /\ UNCHANGED <<alertVars, cases, answered, reqEvent, reqInv, aggVars,
                        reviewVars, settleVars>>
         /\ KeepsLocksBut("investigation")
<1>1. UNCHANGED <<alertVars, cases, answered, reqEvent, reqInv, aggVars, reviewVars,
                  settleVars>>
  BY DEF AgentRuns, AgentStep, AgentPick, AgentBegin, AgentConclude, AgentCharge, AgentCommit,
         AgentFail, AgentEnd, AgentOthers, assetVars
<1>2. KeepsLocksBut("investigation")
  BY DEF AgentRuns, AgentStep, AgentPick, AgentBegin, AgentConclude, AgentCharge, AgentCommit,
         AgentFail, AgentEnd, AcquireLock, ReleaseLock, KeepsLocksBut, TypeInv, TypeOK,
         StoreTypeOK, RedisTypeOK
<1> QED BY <1>1, <1>2

LEMMA DispatcherWrites ==
  ASSUME TypeInv, NEW d \in Dispatchers, DispatcherRuns(d)
  PROVE  /\ UNCHANGED <<alertVars, evStatus, invEvent, verdict, seen, assetVars, redisVars,
                        answered, opVars, aggVars, agentVars, settleVars>>
         /\ KeepsLocksBut("human_review")
<1>1. UNCHANGED <<alertVars, evStatus, invEvent, verdict, seen, assetVars, redisVars,
                  answered, opVars, aggVars, agentVars, settleVars>>
  BY DEF DispatcherRuns, DispStep, DispExpire, DispSweep, DispPick, DispTest, DispLook, DispSend,
         DispSendFails, DispCommit, DispFail, ReviewOthers, reqVars, redisVars
<1>2. KeepsLocksBut("human_review")
  BY DEF DispatcherRuns, DispStep, DispExpire, DispSweep, DispPick, DispTest, DispLook, DispSend,
         DispSendFails, DispCommit, DispFail, AcquireLock, ReleaseLock, KeepsLocksBut,
         TypeInv, TypeOK, StoreTypeOK, RedisTypeOK
<1> QED BY <1>1, <1>2

LEMMA OperatorWrites ==
  ASSUME (\E u \in Operators : OperatorCalls(u)) \/ MarkerTtl
  PROVE  UNCHANGED <<alertVars, invEvent, verdict, seen, assetVars, used, reqEvent, reqInv,
                     lock, dispVars, aggVars, agentVars, settleVars>>
BY DEF OperatorCalls, OpStep, ReplyRead, ReplyFlush, ReplyUpdate, ReplyCommit, CancelRead,
       CancelCommit, OpFail, MarkerTtl, MarkerExpires, OpOthers, ReviewOthers, reviewVars, reqVars

LEMMA SettlerWrites ==
  ASSUME TypeInv, (\E p \in Settlers : SettlerRuns(p)) \/ OperatorDecides
  PROVE  /\ UNCHANGED <<alertVars, invVars, reqVars, rowLock, redisVars, aggVars, agentVars,
                        reviewVars>>
         /\ KeepsLocksBut("defense_assets")
<1>1. UNCHANGED <<AssetOthers, aggVars, agentVars, reviewVars>>
  BY DEF SettlerRuns, AssetStep, AssetFetch, AssetTest, AssetLook, AssetSettle, AssetSettleFails, AssetCommit,
         OperatorDecides, DecideDisposition
<1>2. KeepsLocksBut("defense_assets")
  BY DEF SettlerRuns, AssetStep, AssetFetch, AssetTest, AssetLook, AssetSettle, AssetSettleFails, AssetCommit,
         AssetReset, OperatorDecides, DecideDisposition, AcquireLock, ReleaseLock,
         KeepsLocksBut, TypeInv, TypeOK, StoreTypeOK, RedisTypeOK
<1> QED BY <1>1, <1>2 DEF AssetOthers

LEMMA ArrivalWrites ==
  ASSUME AlertArrives
  PROVE  UNCHANGED <<link, evKey, alertCount, evStatus, invVars, reqVars, assetVars, rowLock,
                     lock, redisVars, faults, aggVars, agentVars, reviewVars, settleVars>>
BY DEF AlertArrives, TriageAlert

LEMMA ClockWrites ==
  ASSUME (\E s \in Services : LockExpires(s)) \/ Midnight
  PROVE  UNCHANGED <<alertVars, evStatus, invVars, reqVars, assetVars, rowLock, marker,
                     faults, aggVars, agentVars, reviewVars, settleVars>>
BY DEF LockExpires, Midnight, redisVars

-----------------------------------------------------------------------------
(* Who runs under a lock owns it, if the lock outlasts the run.              *)

AggregatorOwnsLock ==
  \A g \in Aggregators : aggPc[g] # "idle" => lock["aggregation"] = g

OwnLock(A) == \A n \in A : agentPc[n] # "idle" => lock["investigation"] = n

AgentOwnsLock == \A n \in Agents : agentPc[n] # "idle" => lock["investigation"] = n

SettlerOwnsLock ==
  \A p \in Settlers : assetPc[p] # "idle" => lock["defense_assets"] = p

LEMMA AggregatorLockStep ==
  ASSUME TypeInv, AggregatorOwnsLock, "aggregation" \in Reliable, Unlocked = {}, [Next]_vars
  PROVE  AggregatorOwnsLock'
<1> USE AggregationAssumption, StoreAssumption
    DEF TypeInv, TypeOK, StoreTypeOK, RedisTypeOK, AggTypeOK
<1> "aggregation" \in Services
  BY DEF Services
<1>1. CASE \E g \in Aggregators : AggregationRuns(g)
  <2> PICK g \in Aggregators : AggregationRuns(g)
    BY <1>1
  <2>1. CASE AggFetch(g)
    BY <2>1 DEF AggFetch, AcquireLock, AggregatorOwnsLock
  <2>2. CASE AggFind(g) \/ AggCommit(g)
    BY <2>2 DEF AggFind, AggCommit, AggregatorOwnsLock
  <2>3. CASE AggConflict(g) \/ AggEnd(g)
    BY <2>3 DEF AggConflict, AggEnd, AggReset, ReleaseLock, AggregatorOwnsLock
  <2> QED BY <2>1, <2>2, <2>3 DEF AggregationRuns, AggStep
<1>2. ASSUME aggPc' = aggPc, lock'["aggregation"] = lock["aggregation"]
      PROVE  AggregatorOwnsLock'
  BY <1>2 DEF AggregatorOwnsLock
<1>3. CASE (\E n \in Agents : AgentRuns(n)) \/ (\E d \in Dispatchers : DispatcherRuns(d))
  BY <1>2, <1>3, AgentWrites, DispatcherWrites DEF KeepsLocksBut, aggVars
<1>4. CASE (\E u \in Operators : OperatorCalls(u)) \/ MarkerTtl
  BY <1>2, <1>4, OperatorWrites DEF aggVars
<1>5. CASE (\E p \in Settlers : SettlerRuns(p)) \/ OperatorDecides
  BY <1>2, <1>5, SettlerWrites DEF KeepsLocksBut, aggVars
<1>6. CASE AlertArrives \/ Midnight \/ UNCHANGED vars
  BY <1>2, <1>6, ArrivalWrites DEF Midnight, aggVars, vars, storeVars
<1>7. CASE \E s \in Services : LockExpires(s)
  BY <1>7 DEF LockExpires, IsIdle, AggregatorOwnsLock, aggVars
<1>8. CASE Crash
  BY <1>8 DEF Crash, AggDies, AggregatorOwnsLock
<1> QED BY <1>1, <1>3, <1>4, <1>5, <1>6, <1>7, <1>8 DEF Next

\* Agents that take the lock keep it, whatever those do that work without it.
LEMMA OwnLockStep ==
  ASSUME TypeInv, NEW A \in SUBSET Agents, OwnLock(A), "investigation" \in Reliable,
         [Next]_vars
  PROVE  OwnLock(A)'
<1> USE InvestigationAssumption, StoreAssumption
    DEF TypeInv, TypeOK, StoreTypeOK, RedisTypeOK, AgentTypeOK
<1> "investigation" \in Services
  BY DEF Services
<1>1. CASE \E n \in Agents : AgentRuns(n)
  <2> PICK n \in Agents : AgentRuns(n)
    BY <1>1
  <2>1. CASE AgentPick(n)
    BY <2>1 DEF AgentPick, AcquireLock, OwnLock
  <2>2. CASE \/ \E e \in Events : AgentBegin(n, e)
             \/ (\E v \in Verdicts : AgentConclude(n, v)) \/ AgentCharge(n)
    BY <2>2 DEF AgentBegin, AgentConclude, AgentCharge, OwnLock
  <2>3. CASE \E i \in Investigations, suggested \in BOOLEAN : AgentCommit(n, i, suggested)
    BY <2>3 DEF AgentCommit, OwnLock
  <2>4. CASE AgentFail(n) \/ AgentEnd(n)
    BY <2>4 DEF AgentFail, AgentEnd, ReleaseLock, OwnLock
  <2> QED BY <2>1, <2>2, <2>3, <2>4 DEF AgentRuns, AgentStep
<1>2. ASSUME agentPc' = agentPc, lock'["investigation"] = lock["investigation"]
      PROVE  OwnLock(A)'
  BY <1>2 DEF OwnLock
<1>3. CASE \/ \E g \in Aggregators : AggregationRuns(g)
           \/ \E d \in Dispatchers : DispatcherRuns(d)
  BY <1>2, <1>3, AggregationWrites, DispatcherWrites DEF KeepsLocksBut, agentVars
<1>4. CASE (\E u \in Operators : OperatorCalls(u)) \/ MarkerTtl
  BY <1>2, <1>4, OperatorWrites DEF agentVars
<1>5. CASE (\E p \in Settlers : SettlerRuns(p)) \/ OperatorDecides
  BY <1>2, <1>5, SettlerWrites DEF KeepsLocksBut, agentVars
<1>6. CASE AlertArrives \/ Midnight \/ UNCHANGED vars
  BY <1>2, <1>6, ArrivalWrites DEF Midnight, agentVars, vars, storeVars
<1>7. CASE \E s \in Services : LockExpires(s)
  BY <1>7 DEF LockExpires, IsIdle, OwnLock, agentVars
<1>8. CASE Crash
  BY <1>8 DEF Crash, AgentDies, OwnLock
<1> QED BY <1>1, <1>3, <1>4, <1>5, <1>6, <1>7, <1>8 DEF Next

LEMMA AgentLockStep ==
  ASSUME TypeInv, AgentOwnsLock, "investigation" \in Reliable, [Next]_vars
  PROVE  AgentOwnsLock'
BY OwnLockStep DEF OwnLock, AgentOwnsLock

LEMMA SettlerLockStep ==
  ASSUME TypeInv, SettlerOwnsLock, "defense_assets" \in Reliable, [Next]_vars
  PROVE  SettlerOwnsLock'
<1> USE DefenseAssetsAssumption, StoreAssumption
    DEF TypeInv, TypeOK, StoreTypeOK, RedisTypeOK, AssetTypeOK
<1> "defense_assets" \in Services
  BY DEF Services
<1>1. CASE \E p \in Settlers : SettlerRuns(p)
  <2> PICK p \in Settlers : SettlerRuns(p)
    BY <1>1
  <2>1. CASE AssetFetch(p)
    BY <2>1 DEF AssetFetch, AcquireLock, SettlerOwnsLock
  <2>4. CASE (\E e \in Events : AssetTest(p, e)) \/ AssetLook(p)
    BY <2>4 DEF AssetTest, AssetLook, AssetReset, ReleaseLock, SettlerOwnsLock
  <2>2. CASE \E i \in Investigations : AssetSettle(p, i) \/ AssetSettleFails(p, i)
    BY <2>2 DEF AssetSettle, AssetSettleFails, SettlerOwnsLock
  <2>3. CASE AssetCommit(p)
    BY <2>3 DEF AssetCommit, AssetReset, ReleaseLock, SettlerOwnsLock
  <2> QED BY <2>1, <2>2, <2>3, <2>4 DEF SettlerRuns, AssetStep
<1>2. ASSUME assetPc' = assetPc, lock'["defense_assets"] = lock["defense_assets"]
      PROVE  SettlerOwnsLock'
  BY <1>2 DEF SettlerOwnsLock
<1>3. CASE \/ \E g \in Aggregators : AggregationRuns(g)
           \/ \E n \in Agents : AgentRuns(n)
           \/ \E d \in Dispatchers : DispatcherRuns(d)
  BY <1>2, <1>3, AggregationWrites, AgentWrites, DispatcherWrites
  DEF KeepsLocksBut, settleVars
<1>4. CASE (\E u \in Operators : OperatorCalls(u)) \/ MarkerTtl
  BY <1>2, <1>4, OperatorWrites DEF settleVars
<1>5. CASE AlertArrives \/ Midnight \/ OperatorDecides \/ UNCHANGED vars
  BY <1>2, <1>5, ArrivalWrites
  DEF Midnight, OperatorDecides, DecideDisposition, settleVars, vars, storeVars
<1>6. CASE \E s \in Services : LockExpires(s)
  BY <1>6 DEF LockExpires, IsIdle, SettlerOwnsLock, settleVars
<1>7. CASE Crash
  BY <1>7 DEF Crash, AssetDies, SettlerOwnsLock
<1> QED BY <1>1, <1>3, <1>4, <1>5, <1>6, <1>7 DEF Next

-----------------------------------------------------------------------------
(* alert_count against the rows it counts                                    *)

\* What a step that aggregates nothing does to the alerts and the aggregators.
LEMMA OthersLinkNothing ==
  ASSUME TypeInv, [Next]_vars, \A g \in Aggregators : ~AggregationRuns(g)
  PROVE  UNCHANGED <<link, evKey, alertCount>> /\ (UNCHANGED aggVars \/ AggDies)
<1>1. CASE \/ \E n \in Agents : AgentRuns(n)
           \/ \E d \in Dispatchers : DispatcherRuns(d)
  BY <1>1, AgentWrites, DispatcherWrites DEF alertVars
<1>2. CASE \/ (\E u \in Operators : OperatorCalls(u)) \/ MarkerTtl
           \/ (\E p \in Settlers : SettlerRuns(p)) \/ OperatorDecides
  BY <1>2, OperatorWrites, SettlerWrites DEF alertVars
<1>3. CASE AlertArrives \/ (\E s \in Services : LockExpires(s)) \/ Midnight
  BY <1>3, ArrivalWrites, ClockWrites DEF alertVars
<1>4. CASE Crash \/ UNCHANGED vars
  BY <1>4 DEF Crash, vars, storeVars, alertVars
<1> QED BY <1>1, <1>2, <1>3, <1>4 DEF Next

\* The commit of an alert adds one link, which the alert did not have.
LEMMA CommitLinksOne ==
  ASSUME TypeInv, NEW g \in Aggregators, AggCommit(g)
  PROVE  \E a \in Alerts, e \in Events :
           /\ a \notin Linked(e) /\ Linked(e)' = Linked(e) \cup {a}
           /\ \A f \in Events : f # e => Linked(f)' = Linked(f)
           /\ alertCount' = [alertCount EXCEPT ![e] = aggCount[g] + 1]
           /\ \/ aggTarget[g] = e /\ UNCHANGED evStatus
              \/ /\ aggTarget[g] = None /\ evStatus[e] = "absent"
                 /\ evStatus' = [evStatus EXCEPT ![e] = "pending_review"]
<1> USE StoreAssumption DEF TypeInv, TypeOK, StoreTypeOK, AlertTypeOK
<1> PICK a \in Alerts, e \in Events :
      /\ UniqueAlertLink(a) /\ Destination(g, e, KeyOf[a])
      /\ link' = [link EXCEPT ![a] = e]
      /\ alertCount' = [alertCount EXCEPT ![e] = aggCount[g] + 1]
  BY DEF AggCommit
<1>1. a \notin Linked(e)
  BY DEF UniqueAlertLink, Linked
<1>2. Linked(e)' = Linked(e) \cup {a}
  BY DEF Linked
<1>3. \A f \in Events : f # e => Linked(f)' = Linked(f)
  BY DEF Linked, UniqueAlertLink
<1>4. \/ aggTarget[g] = e /\ UNCHANGED evStatus
      \/ /\ aggTarget[g] = None /\ evStatus[e] = "absent"
         /\ evStatus' = [evStatus EXCEPT ![e] = "pending_review"]
  BY DEF Destination, IsNext
<1> QED BY <1>1, <1>2, <1>3, <1>4

\* AlertCountNeverOver by induction: what a run has read of its target's count is
\* at most what the target holds, since links are never removed.
CountedBelow(g) ==
  IF aggTarget[g] = None THEN aggCount[g] = 0
  ELSE aggCount[g] <= Cardinality(Linked(aggTarget[g]))

CountInv ==
  /\ \A e \in Events : IsFiniteSet(Linked(e)) /\ alertCount[e] <= Cardinality(Linked(e))
  /\ \A g \in Aggregators : CountedBelow(g)

LEMMA InitCount == Init => CountInv
<1> SUFFICES ASSUME Init PROVE CountInv
  OBVIOUS
<1>1. \A e \in Events : Linked(e) = {}
  BY StoreAssumption DEF Init, StoreInit, Linked
<1>2. /\ \A e \in Events : alertCount[e] = 0
      /\ \A g \in Aggregators : aggTarget[g] = None /\ aggCount[g] = 0
  BY DEF Init, StoreInit, AggInit
<1>3. \A e \in Events : IsFiniteSet(Linked(e)) /\ Cardinality(Linked(e)) = 0
  BY <1>1, FS_EmptySet
<1>4. \A g \in Aggregators : CountedBelow(g)
  BY <1>2 DEF CountedBelow
<1> QED BY <1>2, <1>3, <1>4 DEF CountInv

LEMMA CountStep == ASSUME TypeInv, CountInv, [Next]_vars PROVE CountInv'
<1> USE StoreAssumption DEF TypeInv, TypeOK, StoreTypeOK
<1>0. \A e \in Events : Cardinality(Linked(e)) \in Nat /\ alertCount[e] \in Nat
  BY FS_CardinalityType DEF CountInv, CountedBelow, EventTypeOK
<1>1. CASE \A g \in Aggregators : ~AggregationRuns(g)
  <2>1. UNCHANGED <<link, alertCount>> /\ (UNCHANGED aggVars \/ AggDies)
    BY <1>1, OthersLinkNothing
  <2>2. \A e \in Events : Linked(e)' = Linked(e)
    BY <2>1 DEF Linked
  <2>3. \A e \in Events : IsFiniteSet(Linked(e)') /\ alertCount'[e] <= Cardinality(Linked(e)')
    BY <2>1, <2>2 DEF CountInv
  <2>4. ASSUME NEW g \in Aggregators PROVE CountedBelow(g)'
    <3>1. CASE AggDies
      BY <3>1 DEF AggDies, CountedBelow
    <3>2. CASE UNCHANGED aggVars
      <4>1. CountedBelow(g) /\ aggTarget[g] \in Events \cup {None}
        BY DEF CountInv, AggTypeOK
      <4> QED BY <2>2, <3>2, <4>1 DEF CountedBelow, aggVars
    <3> QED BY <2>1, <3>1, <3>2
  <2> QED BY <2>3, <2>4 DEF CountInv
<1>2. CASE \E g \in Aggregators : AggregationRuns(g)
  <2> PICK g \in Aggregators : AggregationRuns(g)
    BY <1>2
  <2>1. CASE AggFetch(g)
    <3>1. UNCHANGED <<link, alertCount, aggTarget, aggCount>>
      BY <2>1 DEF AggFetch, alertVars
    <3>2. \A e \in Events : Linked(e)' = Linked(e)
      BY <3>1 DEF Linked
    <3> QED BY <3>1, <3>2 DEF CountInv, CountedBelow, AggTypeOK
  <2>2. CASE AggFind(g)
    <3>1. UNCHANGED <<link, alertCount>>
      BY <2>2 DEF AggFind, alertVars
    <3>2. \A e \in Events : Linked(e)' = Linked(e)
      BY <3>1 DEF Linked
    <3>3. \/ \E e \in Events : /\ aggTarget' = [aggTarget EXCEPT ![g] = e]
                               /\ aggCount' = [aggCount EXCEPT ![g] = alertCount[e]]
          \/ /\ aggTarget' = [aggTarget EXCEPT ![g] = None]
             /\ aggCount' = [aggCount EXCEPT ![g] = 0]
      BY <2>2 DEF AggFind, CountRead
    <3>4. ASSUME NEW h \in Aggregators
          PROVE  CountedBelow(h)'
      <4>1. CASE h # g
        <5>1. /\ aggTarget'[h] = aggTarget[h] /\ aggCount'[h] = aggCount[h]
              /\ aggTarget[h] \in Events \cup {None}
          BY <3>3, <4>1 DEF AggTypeOK
        <5> QED BY <3>2, <5>1 DEF CountInv, CountedBelow
      <4>2. CASE h = g
        <5>1. \/ \E e \in Events : aggTarget'[g] = e /\ aggCount'[g] = alertCount[e]
              \/ aggTarget'[g] = None /\ aggCount'[g] = 0
          BY <3>3 DEF AggTypeOK
        <5> QED BY <3>2, <4>2, <5>1 DEF CountInv, CountedBelow
      <4> QED BY <4>1, <4>2
    <3> QED BY <3>1, <3>2, <3>4 DEF CountInv
  <2>3. CASE AggCommit(g)
    <3> PICK a \in Alerts, e \in Events :
          /\ a \notin Linked(e) /\ Linked(e)' = Linked(e) \cup {a}
          /\ \A f \in Events : f # e => Linked(f)' = Linked(f)
          /\ alertCount' = [alertCount EXCEPT ![e] = aggCount[g] + 1]
          /\ aggTarget[g] \in {e, None}
      BY <2>3, CommitLinksOne
    <3>1. /\ IsFiniteSet(Linked(e)')
          /\ Cardinality(Linked(e)') = Cardinality(Linked(e)) + 1
      BY FS_AddElement DEF CountInv, CountedBelow
    <3>2. \A f \in Events : /\ IsFiniteSet(Linked(f)')
                            /\ Cardinality(Linked(f)) <= Cardinality(Linked(f)')
      <4> SUFFICES ASSUME NEW f \in Events
                   PROVE  /\ IsFiniteSet(Linked(f)')
                          /\ Cardinality(Linked(f)) <= Cardinality(Linked(f)')
        OBVIOUS
      <4>0. Cardinality(Linked(f)) \in Nat
        BY <1>0
      <4>1. CASE f = e
        <5>1. Linked(f)' = Linked(e)' /\ Linked(f) = Linked(e)
          BY <4>1 DEF Linked
        <5>2. IsFiniteSet(Linked(f)') /\ Cardinality(Linked(f)') = Cardinality(Linked(f)) + 1
          BY <3>1, <5>1
        <5> QED BY <4>0, <5>2
      <4>2. CASE f # e
        <5>1. Linked(f)' = Linked(f) /\ IsFiniteSet(Linked(f))
          BY <4>2 DEF CountInv, CountedBelow
        <5> QED BY <4>0, <5>1
      <4> QED BY <4>1, <4>2
    <3>3. aggCount[g] \in Nat /\ aggCount[g] <= Cardinality(Linked(e))
      BY <1>0 DEF CountInv, CountedBelow, AggTypeOK
    <3>4. \A f \in Events : alertCount'[f] <= Cardinality(Linked(f)')
      <4> SUFFICES ASSUME NEW f \in Events
                   PROVE  alertCount'[f] <= Cardinality(Linked(f)')
        OBVIOUS
      <4>1. CASE f = e
        <5>1. alertCount'[e] = aggCount[g] + 1
          BY DEF EventTypeOK
        <5>2. alertCount'[e] <= Cardinality(Linked(e)')
          BY <1>0, <3>1, <3>3, <5>1
        <5> QED BY <4>1, <5>2
      <4>2. CASE f # e
        <5>1. alertCount'[f] = alertCount[f] /\ Linked(f)' = Linked(f)
          BY <4>2 DEF EventTypeOK
        <5> QED BY <5>1 DEF CountInv, CountedBelow
      <4> QED BY <4>1, <4>2
    <3>5. /\ aggTarget' = [aggTarget EXCEPT ![g] = None]
          /\ aggCount' = [aggCount EXCEPT ![g] = 0]
      BY <2>3 DEF AggCommit
    <3>6. ASSUME NEW h \in Aggregators
          PROVE  CountedBelow(h)'
      <4>1. CASE aggTarget'[h] = None
        BY <3>5, <4>1 DEF AggTypeOK, CountInv, CountedBelow
      <4>2. CASE aggTarget'[h] # None
        <5>1. /\ aggTarget'[h] = aggTarget[h] /\ aggCount'[h] = aggCount[h]
              /\ aggTarget[h] \in Events /\ aggCount[h] \in Nat
          BY <3>5, <4>2 DEF AggTypeOK
        <5>2. aggCount[h] <= Cardinality(Linked(aggTarget[h]))
          BY <4>2, <5>1 DEF CountInv, CountedBelow
        <5>3. PICK f \in Events : f = aggTarget[h]
          BY <5>1
        <5>4. /\ aggCount[h] <= Cardinality(Linked(f))
              /\ Cardinality(Linked(f)) <= Cardinality(Linked(f)')
              /\ Cardinality(Linked(f)) \in Nat /\ Cardinality(Linked(f)') \in Nat
          BY <1>0, <3>2, <5>2, <5>3, FS_CardinalityType
        <5>5. aggCount'[h] <= Cardinality(Linked(f)')
          BY <5>1, <5>4
        <5>6. Linked(aggTarget[h])' = Linked(f)'
          BY <5>1, <5>3 DEF Linked
        <5> QED BY <4>2, <5>5, <5>6 DEF CountedBelow
      <4> QED BY <4>1, <4>2
    <3> QED BY <3>2, <3>4, <3>6 DEF CountInv, CountedBelow, Linked
  <2>4. CASE AggConflict(g) \/ AggEnd(g)
    <3>1. UNCHANGED <<link, alertCount>>
      BY <2>4 DEF AggConflict, AggEnd, alertVars
    <3>2. \A e \in Events : Linked(e)' = Linked(e)
      BY <3>1 DEF Linked
    <3>3. /\ aggTarget' = [aggTarget EXCEPT ![g] = None]
          /\ aggCount' = [aggCount EXCEPT ![g] = 0]
      BY <2>4 DEF AggConflict, AggEnd, AggReset
    <3> QED BY <3>1, <3>2, <3>3 DEF CountInv, CountedBelow, AggTypeOK
  <2> QED BY <2>1, <2>2, <2>3, <2>4 DEF AggregationRuns, AggStep
<1> QED BY <1>1, <1>2

-----------------------------------------------------------------------------
(* The only steps that move an event, and the only way each of them does.    *)

LEMMA EventMoves ==
  ASSUME TypeInv, [Next]_vars, NEW e \in Events, evStatus'[e] # evStatus[e]
  PROVE  \/ evStatus[e] = "absent" /\ evStatus'[e] = "pending_review"
         \/ \E n \in Agents, i \in Investigations, suggested \in BOOLEAN :
              /\ AgentRuns(n) /\ AgentCommit(n, i, suggested) /\ agentEvent[n] = e
              /\ evStatus'[e] \in {"concluded", "human_pending"}
         \/ \E u \in Operators :
              /\ OperatorCalls(u) /\ ReplyCommit(u) /\ Reopens(u)
              /\ reqEvent[opReq[u]] = e /\ evStatus'[e] = "pending_review"
         \/ \E p \in Settlers :
              /\ SettlerRuns(p) /\ AssetCommit(p) /\ e \in assetClose[p]
              /\ evStatus'[e] = "closed"
<1> USE DEF TypeInv, TypeOK, StoreTypeOK, EventTypeOK
<1>1. CASE \E g \in Aggregators : AggregationRuns(g)
  BY <1>1 DEF AggregationRuns, AggStep, AggFetch, AggFind, AggCommit, Destination, IsNext,
     AggConflict, AggEnd
<1>2. CASE \E n \in Agents : AgentRuns(n)
  <2> PICK n \in Agents : AgentRuns(n)
    BY <1>2
  <2>1. CASE ~\E i \in Investigations, suggested \in BOOLEAN : AgentCommit(n, i, suggested)
    BY <2>1 DEF AgentRuns, AgentStep, AgentPick, AgentBegin, AgentConclude, AgentCharge, AgentFail,
       AgentEnd
  <2>2. CASE \E i \in Investigations, suggested \in BOOLEAN : AgentCommit(n, i, suggested)
    <3> PICK i \in Investigations, suggested \in BOOLEAN : AgentCommit(n, i, suggested)
      BY <2>2
    <3>1. agentVerdict[n] \in SettleVerdicts \cup HumanVerdicts
      BY StoreAssumption DEF AgentCommit, AgentKnows
    <3>2. VERDICT_EVENT_STATUS[agentVerdict[n]] \in {"concluded", "human_pending"}
      BY <3>1 DEF VERDICT_EVENT_STATUS
    <3>3. evStatus' = [evStatus EXCEPT ![agentEvent[n]] =
                         VERDICT_EVENT_STATUS[agentVerdict[n]]]
      BY DEF AgentCommit
    <3> QED BY <3>2, <3>3
  <2> QED BY <2>1, <2>2
<1>3. CASE \/ (\E d \in Dispatchers : DispatcherRuns(d)) \/ AlertArrives
           \/ (\E s \in Services : LockExpires(s)) \/ Midnight
  BY <1>3, DispatcherWrites, ArrivalWrites, ClockWrites
<1>4. CASE (\E u \in Operators : OperatorCalls(u)) \/ MarkerTtl
  BY <1>4 DEF OperatorCalls, OpStep, ReplyRead, ReplyFlush, ReplyUpdate, ReplyCommit, CancelRead,
     CancelCommit, OpFail, MarkerTtl, MarkerExpires
<1>5. CASE (\E p \in Settlers : SettlerRuns(p)) \/ OperatorDecides
  BY <1>5 DEF SettlerRuns, AssetStep, AssetFetch, AssetTest, AssetLook, AssetSettle, AssetSettleFails,
     AssetCommit, OperatorDecides, DecideDisposition
<1>6. CASE Crash \/ UNCHANGED vars
  BY <1>6 DEF Crash, vars, storeVars
<1> QED BY <1>1, <1>2, <1>3, <1>4, <1>5, <1>6 DEF Next

\* An event that exists goes on existing.
LEMMA EventsStay ==
  ASSUME TypeInv, [Next]_vars, NEW e \in Events, evStatus[e] # "absent"
  PROVE  evStatus'[e] # "absent"
BY EventMoves

-----------------------------------------------------------------------------
(* alert_count under the aggregation lock                                    *)

\* AlertCountExact by induction: what the one run has read is still what is there.
ExactInv ==
  /\ AggregatorOwnsLock
  /\ AlertCountExact
  /\ \A e \in Events :
       IsFiniteSet(Linked(e)) /\ (evStatus[e] = "absent" => Linked(e) = {})
  /\ \A g \in Aggregators :
       IF aggTarget[g] = None THEN aggCount[g] = 0
       ELSE /\ aggPc[g] # "idle" /\ aggCount[g] = alertCount[aggTarget[g]]
            /\ evStatus[aggTarget[g]] # "absent"

LEMMA InitExact == Init => ExactInv
<1> SUFFICES ASSUME Init PROVE ExactInv
  OBVIOUS
<1>1. \A e \in Events : Linked(e) = {}
  BY StoreAssumption DEF Init, StoreInit, Linked
<1> QED BY <1>1, FS_EmptySet
        DEF ExactInv, AggregatorOwnsLock, AlertCountExact, Init, StoreInit, AggInit

LEMMA ExactStep ==
  ASSUME TypeInv, ExactInv, [Next]_vars, "aggregation" \in Reliable, Unlocked = {}
  PROVE  ExactInv'
<1> USE StoreAssumption DEF TypeInv, TypeOK, StoreTypeOK
<1>0. AggregatorOwnsLock'
  BY AggregatorLockStep DEF ExactInv
<1>1. ASSUME UNCHANGED <<link, alertCount>>,
             \A g \in Aggregators :
               (IF aggTarget[g] = None THEN aggCount[g] = 0
                ELSE aggPc[g] # "idle" /\ aggCount[g] = alertCount[aggTarget[g]]
                     /\ evStatus[aggTarget[g]] # "absent")'
      PROVE  ExactInv'
  <2>1. \A e \in Events : Linked(e)' = Linked(e)
    BY <1>1 DEF Linked
  <2>2. \A e \in Events : evStatus'[e] = "absent" => evStatus[e] = "absent"
    BY EventsStay
  <2> QED BY <1>0, <1>1, <2>1, <2>2 DEF ExactInv, AlertCountExact
<1>2. CASE \A g \in Aggregators : ~AggregationRuns(g)
  <2>1. UNCHANGED <<link, alertCount>> /\ (UNCHANGED aggVars \/ AggDies)
    BY <1>2, OthersLinkNothing
  <2>2. CASE AggDies
    BY <1>1, <2>1, <2>2 DEF AggDies
  <2>3. CASE UNCHANGED aggVars
    <3> SUFFICES ASSUME NEW g \in Aggregators, aggTarget[g] # None
                 PROVE  /\ aggPc[g] # "idle" /\ aggCount[g] = alertCount[aggTarget[g]]
                        /\ evStatus'[aggTarget[g]] # "absent"
      BY <1>1, <2>1, <2>3 DEF ExactInv, aggVars
    <3> QED BY EventsStay DEF ExactInv, AggTypeOK
  <2> QED BY <2>1, <2>2, <2>3
<1>3. CASE \E g \in Aggregators : AggregationRuns(g)
  <2> PICK g \in Aggregators : AggregationRuns(g)
    BY <1>3
  <2>1. CASE AggFetch(g)
    BY <1>1, <2>1 DEF AggFetch, alertVars, ExactInv, AggTypeOK
  <2>2. CASE AggFind(g)
    <3>1. UNCHANGED <<link, alertCount>>
      BY <2>2 DEF AggFind, alertVars
    <3>2. /\ \/ \E e \in Events : /\ evStatus[e] # "absent"
                                  /\ aggTarget' = [aggTarget EXCEPT ![g] = e]
                                  /\ aggCount' = [aggCount EXCEPT ![g] = alertCount[e]]
             \/ /\ aggTarget' = [aggTarget EXCEPT ![g] = None]
                /\ aggCount' = [aggCount EXCEPT ![g] = 0]
          /\ aggPc' = [aggPc EXCEPT ![g] = "found"] /\ evStatus' = evStatus
      BY <2>2 DEF AggFind, CountRead, IsMergeTarget
    <3> QED BY <1>1, <3>1, <3>2 DEF ExactInv, AggTypeOK
  <2>3. CASE AggCommit(g)
    <3> PICK a \in Alerts, e \in Events :
          /\ a \notin Linked(e) /\ Linked(e)' = Linked(e) \cup {a}
          /\ \A f \in Events : f # e => Linked(f)' = Linked(f)
          /\ alertCount' = [alertCount EXCEPT ![e] = aggCount[g] + 1]
          /\ \/ aggTarget[g] = e /\ UNCHANGED evStatus
             \/ /\ aggTarget[g] = None /\ evStatus[e] = "absent"
                /\ evStatus' = [evStatus EXCEPT ![e] = "pending_review"]
      BY <2>3, CommitLinksOne
    <3>1. /\ IsFiniteSet(Linked(e)')
          /\ Cardinality(Linked(e)') = Cardinality(Linked(e)) + 1
      BY FS_AddElement DEF ExactInv
    <3>2. aggCount[g] = Cardinality(Linked(e))
      <4>1. CASE aggTarget[g] = e
        BY <4>1 DEF ExactInv, AlertCountExact
      <4>2. CASE aggTarget[g] = None /\ evStatus[e] = "absent"
        BY <4>2, FS_EmptySet DEF ExactInv
      <4> QED BY <4>1, <4>2
    <3>3. \A f \in Events : /\ IsFiniteSet(Linked(f)')
                            /\ alertCount'[f] = Cardinality(Linked(f)')
                            /\ evStatus'[f] = "absent" => Linked(f)' = {}
      <4> SUFFICES ASSUME NEW f \in Events
                   PROVE  /\ IsFiniteSet(Linked(f)')
                          /\ alertCount'[f] = Cardinality(Linked(f)')
                          /\ evStatus'[f] = "absent" => Linked(f)' = {}
        OBVIOUS
      <4>1. CASE f = e
        <5>1. evStatus'[e] # "absent"
          <6>1. aggTarget[g] = e => evStatus[e] # "absent"
            BY DEF ExactInv
          <6> QED BY <6>1 DEF EventTypeOK
        <5>2. alertCount'[e] = Cardinality(Linked(e)')
          BY <3>1, <3>2 DEF EventTypeOK
        <5> QED BY <3>1, <4>1, <5>1, <5>2
      <4>2. CASE f # e
        <5>1. alertCount'[f] = alertCount[f] /\ Linked(f)' = Linked(f)
              /\ evStatus'[f] = evStatus[f]
          BY <4>2 DEF EventTypeOK
        <5> QED BY <5>1 DEF ExactInv, AlertCountExact
      <4> QED BY <4>1, <4>2
    <3>4. /\ aggTarget' = [aggTarget EXCEPT ![g] = None]
          /\ aggCount' = [aggCount EXCEPT ![g] = 0]
          /\ aggPc[g] = "found"
      BY <2>3 DEF AggCommit
    <3>5. \A h \in Aggregators : h # g => aggPc[h] = "idle"
      BY <3>4 DEF ExactInv, AggregatorOwnsLock
    <3>6. \A h \in Aggregators : aggTarget'[h] = None /\ aggCount'[h] = 0
      BY <3>4, <3>5 DEF ExactInv, AggTypeOK
    <3> QED BY <1>0, <3>3, <3>6 DEF ExactInv, AlertCountExact
  <2>4. CASE AggConflict(g) \/ AggEnd(g)
    <3>1. UNCHANGED <<link, alertCount, evStatus>>
      BY <2>4 DEF AggConflict, AggEnd, alertVars
    <3>2. /\ aggTarget' = [aggTarget EXCEPT ![g] = None]
          /\ aggCount' = [aggCount EXCEPT ![g] = 0]
          /\ aggPc' = [aggPc EXCEPT ![g] = "idle"]
      BY <2>4 DEF AggConflict, AggEnd, AggReset
    <3> QED BY <1>1, <3>1, <3>2 DEF ExactInv, AggTypeOK
  <2> QED BY <2>1, <2>2, <2>3, <2>4 DEF AggregationRuns, AggStep
<1> QED BY <1>2, <1>3

\* events.alert_count, which aggregation writes from a value it read in an earlier
\* query, is the number of event_alerts rows of the event: for any number of
\* aggregation runs, provided that they all take the lock and none outlives it.
THEOREM CountIsExact ==
  ASSUME "aggregation" \in Reliable, Unlocked = {}
  PROVE  Spec => []AlertCountExact
<1>1. Init => ExactInv
  BY InitExact
<1>2. TypeInv /\ ExactInv /\ [Next]_vars => ExactInv'
  BY ExactStep
<1>3. ExactInv => AlertCountExact
  BY DEF ExactInv
<1> QED BY <1>1, <1>2, <1>3, TypeInvariant, PTL DEF Spec

-----------------------------------------------------------------------------
(* The pipeline with health checks takes the pipeline's steps and one more.  *)

LEMMA ProbedSteps ==
  ASSUME [ProbedNext]_probedVars
  PROVE  [Next]_vars \/ \E h \in HealthChecks : CheckFindsEvent(h)
<1> USE HealthCheckAssumption, AggregationAssumption, StoreAssumption
<1>1. CASE \E h \in HealthChecks : CheckRuns(h)
  <2> PICK h \in HealthChecks : CheckRuns(h)
    BY <1>1
  <2> h \in Aggregators /\ h \in Agents
    OBVIOUS
  <2>1. CASE CheckStarts(h)
    BY <2>1 DEF CheckStarts, Next, AlertArrives
  <2>2. CASE CheckAggregates(h)
    BY <2>2 DEF CheckAggregates, Next, AggregationRuns, AggStep
  <2>3. CASE NothingToAggregate(h) \/ CheckStops(h)
    BY <2>3 DEF NothingToAggregate, CheckStops
  <2>4. CASE CheckInvestigates(h)
    <3>1. AgentRuns(h)
      BY <2>4, InvestigationAssumption DEF CheckInvestigates, AgentRuns, AgentStep
    <3> QED BY <3>1 DEF Next
  <2>5. CASE CheckFindsEvent(h)
    BY <2>5
  <2> QED BY <2>1, <2>2, <2>3, <2>4, <2>5 DEF CheckRuns
<1>2. CASE \/ RealAlertArrives
           \/ \E g \in Aggregators \ HealthChecks : AggregationRuns(g)
           \/ \E n \in Agents \ HealthChecks : RealAgentRuns(n)
           \/ \E d \in Dispatchers : DispatcherRuns(d)
           \/ \E u \in Operators : OperatorCalls(u)
           \/ \E p \in Settlers : SettlerRuns(p)
           \/ OperatorDecides
           \/ MarkerTtl
           \/ \E s \in Services : LockExpires(s)
           \/ Midnight
           \/ Crash
  BY <1>2 DEF RealAlertArrives, AlertArrives, RealAgentRuns, Next
<1>3. CASE UNCHANGED probedVars
  BY <1>3 DEF probedVars
<1> QED BY <1>1, <1>2, <1>3 DEF ProbedNext, ProbedStep

\* A health check takes the event of its probe, which changes only what it works on.
LEMMA CheckFindsWrites ==
  ASSUME NEW h \in HealthChecks, CheckFindsEvent(h)
  PROVE  UNCHANGED <<alertVars, evStatus, invVars, reqVars, assetVars, rowLock, lock,
                     redisVars, faults, aggVars, reviewVars, settleVars>>
BY DEF CheckFindsEvent, storeVars

LEMMA ProbedTypes == ASSUME TypeInv, [ProbedNext]_probedVars PROVE TypeInv'
<1>1. CASE [Next]_vars
  BY <1>1, NextTypes
<1>2. CASE \E h \in HealthChecks : CheckFindsEvent(h)
  <2> PICK h \in HealthChecks : CheckFindsEvent(h)
    BY <1>2
  <2> USE StoreAssumption, HealthCheckAssumption DEF TypeInv, TypeOK, StoreTypeOK
  <2>1. UNCHANGED <<alertVars, evStatus, invVars, reqVars, assetVars, rowLock, lock,
                    redisVars, faults, aggVars, reviewVars, settleVars>>
    BY CheckFindsWrites
  <2>2. /\ AlertTypeOK' /\ EventTypeOK' /\ InvestigationTypeOK' /\ RequestTypeOK'
        /\ RedisTypeOK' /\ RequestRows' /\ Committed' = Committed
    BY <2>1, AlertFrame, EventFrame, InvestigationFrame, RequestFrame, RedisFrame
    DEF alertVars
  <2>3. /\ AggTypeOK' /\ ReviewTypeOK' /\ ReviewKnows' /\ AssetTypeOK' /\ SettlerKnows'
    BY <2>1, <2>2, AggregationFrame, ReviewFrame, SettlerFrame DEF invVars
  <2>4. AgentTypeOK' /\ AgentKnows'
    <3>1. link[ProbeOf[h]] \in Events
      BY DEF CheckFindsEvent, AlertTypeOK
    <3> QED BY <2>2, <3>1 DEF CheckFindsEvent, AgentTypeOK, AgentKnows
  <2> QED BY <2>2, <2>3, <2>4
<1> QED BY <1>1, <1>2, ProbedSteps

\* The types hold while health checks run, too.
THEOREM ProbedTypeInvariant == ProbedSpec => []TypeInv
BY InitTypes, ProbedTypes, PTL DEF ProbedSpec, CheckInit

\* However many aggregation runs work without the lock beside those that take it, an
\* event never counts an alert it does not hold: an increment may be lost to a stale
\* read, none is made up.  It holds with and without health checks.
THEOREM CountIsNeverOver ==
  (Spec => []AlertCountNeverOver) /\ (ProbedSpec => []AlertCountNeverOver)
<1>1. Init => CountInv
  BY InitCount
<1>2. TypeInv /\ CountInv /\ [Next]_vars => CountInv'
  BY CountStep
<1>3. TypeInv /\ CountInv /\ [ProbedNext]_probedVars => CountInv'
  <2> SUFFICES ASSUME TypeInv, CountInv, \E h \in HealthChecks : CheckFindsEvent(h)
               PROVE  CountInv'
    BY <1>2, ProbedSteps
  <2>1. UNCHANGED <<link, alertCount, aggTarget, aggCount>>
    BY CheckFindsWrites DEF alertVars, aggVars
  <2>2. \A e \in Events : Linked(e)' = Linked(e)
    BY <2>1 DEF Linked
  <2> QED BY <2>1, <2>2 DEF CountInv, CountedBelow, TypeInv, TypeOK, AggTypeOK
<1>4. CountInv => AlertCountNeverOver
  BY DEF CountInv, AlertCountNeverOver
<1> QED BY <1>1, <1>2, <1>3, <1>4, TypeInvariant, ProbedTypeInvariant, PTL
        DEF Spec, ProbedSpec, CheckInit

-----------------------------------------------------------------------------
(* Investigations are written once.                                          *)

LEMMA InvestigationsStay ==
  ASSUME TypeInv, [Next]_vars, NEW i \in Investigations, invStatus[i] # "absent"
  PROVE  /\ invStatus'[i] # "absent"
         /\ invEvent'[i] = invEvent[i] /\ verdict'[i] = verdict[i]
<1> USE DEF TypeInv, TypeOK, StoreTypeOK, InvestigationTypeOK
<1>1. CASE \/ \E g \in Aggregators : AggregationRuns(g)
           \/ (\E p \in Settlers : SettlerRuns(p)) \/ OperatorDecides
           \/ AlertArrives \/ (\E s \in Services : LockExpires(s)) \/ Midnight
           \/ Crash \/ UNCHANGED vars
  BY <1>1, AggregationWrites, SettlerWrites, ArrivalWrites, ClockWrites
  DEF invVars, Crash, vars, storeVars
<1>2. CASE \E n \in Agents : AgentRuns(n)
  BY <1>2 DEF AgentRuns, AgentStep, AgentPick, AgentBegin, AgentConclude, AgentCharge, AgentCommit,
     AgentFail, AgentEnd, IsNext, invVars
<1>3. CASE \E d \in Dispatchers : DispatcherRuns(d)
  <2>1. UNCHANGED <<invEvent, verdict>>
    BY <1>3, DispatcherWrites
  <2>2. invStatus'[i] \in {invStatus[i], "needs_human"}
    BY <1>3 DEF DispatcherRuns, DispStep, DispExpire, DispSweep, DispPick, DispTest, DispLook, DispSend,
       DispSendFails, DispCommit, DispFail
  <2> QED BY <2>1, <2>2
<1>4. CASE (\E u \in Operators : OperatorCalls(u)) \/ MarkerTtl
  <2>1. UNCHANGED <<invEvent, verdict>>
    BY <1>4, OperatorWrites
  <2>2. invStatus'[i] \in {invStatus[i], "completed"}
    BY <1>4 DEF OperatorCalls, OpStep, ReplyRead, ReplyFlush, ReplyUpdate, ReplyCommit, CancelRead,
       CancelCommit, OpFail, MarkerTtl, MarkerExpires
  <2> QED BY <2>1, <2>2
<1> QED BY <1>1, <1>2, <1>3, <1>4 DEF Next

LEMMA InvestigationsAppear ==
  ASSUME TypeInv, [Next]_vars, NEW i \in Investigations,
         invEvent'[i] # invEvent[i] \/ verdict'[i] # verdict[i]
  PROVE  \E n \in Agents, suggested \in BOOLEAN :
           AgentRuns(n) /\ AgentCommit(n, i, suggested)
<1> USE DEF TypeInv, TypeOK, StoreTypeOK, InvestigationTypeOK
<1>1. CASE \/ \E g \in Aggregators : AggregationRuns(g)
           \/ \E d \in Dispatchers : DispatcherRuns(d)
           \/ (\E u \in Operators : OperatorCalls(u)) \/ MarkerTtl
           \/ (\E p \in Settlers : SettlerRuns(p)) \/ OperatorDecides
           \/ AlertArrives \/ (\E s \in Services : LockExpires(s)) \/ Midnight
           \/ Crash \/ UNCHANGED vars
  BY <1>1, AggregationWrites, DispatcherWrites, OperatorWrites, SettlerWrites,
     ArrivalWrites, ClockWrites
  DEF invVars, Crash, vars, storeVars
<1>2. CASE \E n \in Agents : AgentRuns(n)
  <2>1. PICK n \in Agents : AgentRuns(n)
    BY <1>2
  <2>2. CASE \/ AgentPick(n) \/ (\E e \in Events : AgentBegin(n, e))
             \/ (\E v \in Verdicts : AgentConclude(n, v)) \/ AgentCharge(n) \/ AgentFail(n)
             \/ AgentEnd(n)
    BY <2>2 DEF AgentPick, AgentBegin, AgentConclude, AgentCharge, AgentFail, AgentEnd, invVars
  <2>3. CASE \E j \in Investigations, suggested \in BOOLEAN : AgentCommit(n, j, suggested)
    <3>1. PICK j \in Investigations, suggested \in BOOLEAN : AgentCommit(n, j, suggested)
      BY <2>3
    <3>2. i = j
      <4>1. /\ invEvent' = [invEvent EXCEPT ![j] = agentEvent[n]]
            /\ verdict' = [verdict EXCEPT ![j] = agentVerdict[n]]
        BY <3>1 DEF AgentCommit
      <4> QED BY <4>1
    <3> QED BY <2>1, <3>1, <3>2
  <2> QED BY <2>1, <2>2, <2>3 DEF AgentRuns, AgentStep
<1> QED BY <1>1, <1>2 DEF Next

\* What a committed investigation says.
RowsAreReal ==
  \A i \in Investigations :
    invEvent[i] # None => invStatus[i] # "absent" /\ verdict[i] \in Verdicts

LEMMA RowsStep == ASSUME TypeInv, RowsAreReal, [Next]_vars PROVE RowsAreReal'
<1> SUFFICES ASSUME NEW i \in Investigations, invEvent'[i] # None
             PROVE  invStatus'[i] # "absent" /\ verdict'[i] \in Verdicts
  BY DEF RowsAreReal
<1>1. CASE invEvent[i] # None
  BY <1>1, InvestigationsStay DEF RowsAreReal
<1>2. CASE invEvent[i] = None
  <2> PICK n \in Agents, suggested \in BOOLEAN : AgentCommit(n, i, suggested)
    BY <1>2, InvestigationsAppear
  <2> QED BY DEF AgentCommit, AgentKnows, TypeInv, TypeOK, StoreTypeOK, InvestigationTypeOK
<1> QED BY <1>1, <1>2

-----------------------------------------------------------------------------
(* Settlement: a closed event has its judgment case.                         *)

\* i is an investigation of event e that settlement may turn into a case.
CanSettle(i, e) == invEvent[i] = e /\ verdict[i] \in SettleVerdicts

\* e is an event that p has fetched and not turned into a target yet.
Fetching(p, e) == e \in assetFetched[p] \/ assetTested[p] = e

\* ClosedHasCase by induction: what a run is about to close has its case in the same
\* transaction, or has had it before.
SettleInv ==
  /\ RowsAreReal
  /\ \A p \in Settlers, e \in Events : Fetching(p, e) => evStatus[e] # "absent"
  /\ \A p \in Settlers, i \in Investigations :
       i \in assetTodo[p] =>
         /\ invEvent[i] \in Events /\ verdict[i] \in SettleVerdicts
         /\ evStatus[invEvent[i]] # "absent"
  /\ \A p \in Settlers, e \in Events :
       e \in assetClose[p] =>
         /\ evStatus[e] # "absent"
         /\ \E i \in Investigations : i \in assetCases[p] \cup Settled /\ CanSettle(i, e)
  /\ ClosedHasCase

LEMMA InitSettle == Init => SettleInv
BY StoreAssumption
DEF Init, StoreInit, AssetInit, SettleInv, Fetching, RowsAreReal, ClosedHasCase

\* What can be settled stays so.
LEMMA SettleableStays ==
  ASSUME TypeInv, RowsAreReal, [Next]_vars, NEW i \in Investigations, NEW e \in Events,
         CanSettle(i, e)
  PROVE  CanSettle(i, e)'
BY InvestigationsStay, StoreAssumption DEF CanSettle, RowsAreReal

\* Steps of the others add nothing to what is settled.
LEMMA OthersSettleNothing ==
  ASSUME TypeInv, [Next]_vars, \A p \in Settlers : ~SettlerRuns(p)
  PROVE  UNCHANGED cases /\ (UNCHANGED settleVars \/ AssetDies)
<1>1. CASE \/ \E g \in Aggregators : AggregationRuns(g)
           \/ \E n \in Agents : AgentRuns(n)
           \/ \E d \in Dispatchers : DispatcherRuns(d)
  BY <1>1, AggregationWrites, AgentWrites, DispatcherWrites DEF assetVars
<1>2. CASE \/ (\E u \in Operators : OperatorCalls(u)) \/ MarkerTtl
           \/ AlertArrives \/ (\E s \in Services : LockExpires(s)) \/ Midnight
  BY <1>2, OperatorWrites, ArrivalWrites, ClockWrites DEF assetVars
<1>3. CASE OperatorDecides \/ Crash \/ UNCHANGED vars
  BY <1>3 DEF OperatorDecides, DecideDisposition, Crash, vars, storeVars, assetVars
<1> QED BY <1>1, <1>2, <1>3 DEF Next

\* No case goes away.
LEMMA CasesStay ==
  ASSUME TypeInv, [Next]_vars, NEW i \in Investigations, cases[i] > 0
  PROVE  cases'[i] > 0
<1> USE DEF TypeInv, TypeOK, StoreTypeOK, InvestigationTypeOK
<1>1. cases[i] \in Nat /\ cases'[i] \in {cases[i], cases[i] + 1}
  <2>1. CASE \A p \in Settlers : ~SettlerRuns(p)
    BY <2>1, OthersSettleNothing
  <2>2. CASE \E p \in Settlers : SettlerRuns(p)
    BY <2>2 DEF SettlerRuns, AssetStep, AssetFetch, AssetTest, AssetLook, AssetSettle, AssetSettleFails, AssetCommit
  <2> QED BY <2>1, <2>2
<1> QED BY <1>1

LEMMA SettleStep == ASSUME TypeInv, SettleInv, [Next]_vars PROVE SettleInv'
<1> USE StoreAssumption DEF TypeInv, TypeOK, StoreTypeOK
<1>0. RowsAreReal'
  BY RowsStep DEF SettleInv
<1>1. \A i \in Investigations, e \in Events : CanSettle(i, e) => CanSettle(i, e)'
  BY SettleableStays DEF SettleInv
<1>2. Settled \subseteq Settled'
  BY CasesStay DEF Settled
<1>3. ASSUME NEW p \in Settlers, assetTodo'[p] \subseteq assetTodo[p]
      PROVE  \A i \in Investigations :
               i \in assetTodo'[p] =>
                 /\ invEvent'[i] \in Events /\ verdict'[i] \in SettleVerdicts
                 /\ evStatus'[invEvent'[i]] # "absent"
  <2> SUFFICES ASSUME NEW i \in Investigations, i \in assetTodo[p]
               PROVE  /\ invEvent'[i] \in Events /\ verdict'[i] \in SettleVerdicts
                      /\ evStatus'[invEvent'[i]] # "absent"
    BY <1>3
  <2>1. /\ invEvent[i] \in Events /\ verdict[i] \in SettleVerdicts
        /\ evStatus[invEvent[i]] # "absent"
    BY DEF SettleInv
  <2>2. CanSettle(i, invEvent[i]) /\ evStatus'[invEvent[i]] # "absent"
    BY <2>1, EventsStay DEF CanSettle
  <2>3. invEvent'[i] = invEvent[i] /\ verdict'[i] = verdict[i]
    BY <2>1, InvestigationsStay DEF SettleInv, RowsAreReal
  <2> QED BY <2>1, <2>2, <2>3
<1>4. ASSUME NEW p \in Settlers, NEW e \in Events, e \in assetClose[p],
             assetCases[p] \subseteq assetCases'[p]
      PROVE  /\ evStatus'[e] # "absent"
             /\ \E i \in Investigations :
                  i \in assetCases'[p] \cup Settled' /\ CanSettle(i, e)'
  BY <1>1, <1>2, <1>4, EventsStay DEF SettleInv
<1>5. ASSUME \A e \in Events : evStatus'[e] = "closed" => evStatus[e] = "closed"
      PROVE  ClosedHasCase'
  <2> SUFFICES ASSUME NEW e \in Events, evStatus[e] = "closed"
               PROVE  \E i \in Investigations : i \in Settled' /\ CanSettle(i, e)'
    BY <1>5 DEF ClosedHasCase, CanSettle, Settled
  <2>1. PICK i \in Investigations : i \in Settled /\ CanSettle(i, e)
    BY DEF SettleInv, ClosedHasCase, CanSettle, Settled
  <2>2. i \in Settled' /\ CanSettle(i, e)'
    BY <1>1, <1>2, <2>1
  <2> QED BY <2>2
<1>8. ASSUME NEW p \in Settlers, NEW e \in Events, Fetching(p, e)
      PROVE  evStatus'[e] # "absent"
  BY <1>8, EventsStay DEF SettleInv
<1>6. CASE \A p \in Settlers : ~SettlerRuns(p)
  <2>1. UNCHANGED cases /\ (UNCHANGED settleVars \/ AssetDies)
    BY <1>6, OthersSettleNothing
  <2>2. \A e \in Events : evStatus'[e] = "closed" => evStatus[e] = "closed"
    BY <1>6, EventMoves
  <2>3. ClosedHasCase'
    BY <1>5, <2>2
  <2>4. CASE AssetDies
    BY <1>0, <2>3, <2>4 DEF SettleInv, Fetching, AssetDies
  <2>5. CASE UNCHANGED settleVars
    BY <1>0, <1>3, <1>4, <1>8, <2>3, <2>5 DEF SettleInv, Fetching, settleVars, pickVars
  <2> QED BY <2>1, <2>4, <2>5
<1>7. CASE \E p \in Settlers : SettlerRuns(p)
  <2> PICK p \in Settlers : SettlerRuns(p)
    BY <1>7
  <2>1. CASE AssetFetch(p) \/ \E e \in Events : AssetTest(p, e)
    <3>1. UNCHANGED <<assetTodo, assetCases, assetClose, evStatus>>
      BY <2>1 DEF AssetFetch, AssetTest
    <3>2. ASSUME NEW q \in Settlers, NEW e \in Events, Fetching(q, e)'
          PROVE  evStatus'[e] # "absent"
      <4>1. CASE AssetFetch(p)
        <5>1. Fetching(q, e) \/ e \in Fetched
          BY <3>2, <4>1 DEF AssetFetch, AssetTypeOK, Fetching
        <5> QED BY <1>8, <3>1, <5>1 DEF Fetched
      <4>2. CASE \E f \in Events : AssetTest(p, f)
        <5>1. Fetching(q, e)
          BY <3>2, <4>2 DEF AssetTest, AssetTypeOK, Fetching
        <5> QED BY <1>8, <5>1
      <4> QED BY <2>1, <4>1, <4>2
    <3>3. ClosedHasCase'
      BY <1>5, <3>1
    <3> QED BY <1>0, <1>3, <1>4, <3>1, <3>2, <3>3 DEF SettleInv
  <2>4. CASE AssetLook(p)
    <3>0. PICK e \in Events : e = assetTested[p]
      BY <2>4 DEF AssetLook, AssetTypeOK
    <3> DEFINE found == {i \in Investigations : Settleable(i, e)}
    <3>1. /\ evStatus' = evStatus
          /\ \/ /\ assetTodo' = [assetTodo EXCEPT ![p] = {}]
                /\ assetCases' = [assetCases EXCEPT ![p] = {}]
                /\ assetClose' = [assetClose EXCEPT ![p] = {}]
                /\ assetFetched' = [assetFetched EXCEPT ![p] = {}]
             \/ /\ assetTodo' = [assetTodo EXCEPT ![p] = @ \cup (found \ Settled)]
                /\ \/ UNCHANGED assetClose
                   \/ /\ assetClose' = [assetClose EXCEPT ![p] = @ \cup {e}]
                      /\ found \cap Settled # {}
                /\ UNCHANGED <<assetCases, assetFetched>>
          /\ assetTested' = [assetTested EXCEPT ![p] = None]
      BY <2>4, <3>0 DEF AssetLook, AssetReset, AssetTypeOK
    <3>2. /\ evStatus[e] # "absent"
          /\ \A i \in found : i \in Investigations /\ CanSettle(i, e)
      BY <3>0 DEF SettleInv, Fetching, Settleable, CanSettle
    <3> HIDE DEF found
    <3>3. ASSUME NEW q \in Settlers, NEW f \in Events, Fetching(q, f)'
          PROVE  evStatus'[f] # "absent"
      <4>1. Fetching(q, f)
        BY <3>1, <3>3 DEF AssetTypeOK, Fetching
      <4> QED BY <1>8, <4>1
    <3>4. ASSUME NEW q \in Settlers, NEW i \in Investigations, i \in assetTodo'[q]
          PROVE  /\ invEvent'[i] \in Events /\ verdict'[i] \in SettleVerdicts
                 /\ evStatus'[invEvent'[i]] # "absent"
      <4>1. i \in assetTodo[q] \/ i \in found
        BY <3>1, <3>4 DEF AssetTypeOK
      <4>2. CASE i \in found
        <5>1. CanSettle(i, e)'
          BY <1>1, <3>1, <3>2, <4>2
        <5> QED BY <3>1, <3>2, <5>1 DEF CanSettle
      <4>3. CASE i \in assetTodo[q]
        <5>1. /\ invEvent[i] \in Events /\ verdict[i] \in SettleVerdicts
              /\ evStatus[invEvent[i]] # "absent"
          BY <4>3 DEF SettleInv
        <5>2. invEvent'[i] = invEvent[i] /\ verdict'[i] = verdict[i]
          BY <5>1, InvestigationsStay DEF SettleInv, RowsAreReal
        <5> QED BY <3>1, <5>1, <5>2
      <4> QED BY <4>1, <4>2, <4>3
    <3>5. ASSUME NEW q \in Settlers, NEW f \in Events, f \in assetClose'[q]
          PROVE  /\ evStatus'[f] # "absent"
                 /\ \E i \in Investigations :
                      i \in assetCases'[q] \cup Settled' /\ CanSettle(i, f)'
      <4>1. \/ f \in assetClose[q] /\ assetCases[q] \subseteq assetCases'[q]
            \/ f = e /\ found \cap Settled # {}
        BY <3>1, <3>5 DEF AssetTypeOK
      <4>2. CASE f \in assetClose[q] /\ assetCases[q] \subseteq assetCases'[q]
        BY <1>4, <4>2
      <4>3. CASE f = e /\ found \cap Settled # {}
        <5> PICK i \in found : i \in Settled
          BY <4>3
        <5> QED BY <1>1, <1>2, <3>1, <3>2, <4>3
      <4> QED BY <4>1, <4>2, <4>3
    <3>6. ClosedHasCase'
      BY <1>5, <3>1
    <3> QED BY <1>0, <3>3, <3>4, <3>5, <3>6 DEF SettleInv
  <2>2. CASE \E i \in Investigations : AssetSettle(p, i) \/ AssetSettleFails(p, i)
    <3> PICK i \in Investigations : AssetSettle(p, i) \/ AssetSettleFails(p, i)
      BY <2>2
    <3>1. /\ i \in assetTodo[p] /\ UNCHANGED <<evStatus, pickVars>>
          /\ assetTodo' = [assetTodo EXCEPT ![p] = @ \ {i}]
          /\ assetCases' \in {assetCases, WithCase(p, i)}
          /\ \/ UNCHANGED assetClose
             \/ /\ assetCases' = WithCase(p, i)
                /\ assetClose' = [assetClose EXCEPT ![p] = @ \cup {invEvent[i]}]
      BY DEF AssetSettle, AssetSettleFails, AssetTypeOK
    <3>2. \A q \in Settlers : /\ assetTodo'[q] \subseteq assetTodo[q]
                              /\ assetCases[q] \subseteq assetCases'[q]
      BY <3>1 DEF WithCase, AssetTypeOK
    <3>3. ASSUME NEW q \in Settlers, NEW e \in Events, e \in assetClose'[q]
          PROVE  /\ evStatus'[e] # "absent"
                 /\ \E j \in Investigations :
                      j \in assetCases'[q] \cup Settled' /\ CanSettle(j, e)'
      <4>1. CASE e \in assetClose[q]
        BY <1>4, <3>2, <4>1
      <4>2. CASE e \notin assetClose[q]
        <5>1. q = p /\ e = invEvent[i] /\ i \in assetCases'[q]
          BY <3>1, <3>3, <4>2 DEF WithCase, AssetTypeOK
        <5>2. CanSettle(i, e) /\ evStatus[e] # "absent"
          BY <3>1, <5>1 DEF SettleInv, CanSettle
        <5> QED BY <1>1, <3>1, <5>1, <5>2
      <4> QED BY <4>1, <4>2
    <3>4. ClosedHasCase'
      BY <1>5, <3>1
    <3> QED BY <1>0, <1>3, <1>8, <3>1, <3>2, <3>3, <3>4 DEF SettleInv, Fetching, pickVars
  <2>3. CASE AssetCommit(p)
    <3>1. /\ assetTodo' = [assetTodo EXCEPT ![p] = {}]
          /\ assetCases' = [assetCases EXCEPT ![p] = {}]
          /\ assetClose' = [assetClose EXCEPT ![p] = {}]
          /\ cases' = [i \in Investigations |->
                         IF i \in assetCases[p] THEN cases[i] + 1 ELSE cases[i]]
          /\ evStatus' = [e \in Events |->
                            IF e \in assetClose[p] THEN "closed" ELSE evStatus[e]]
      BY <2>3 DEF AssetCommit, AssetReset
    <3>2. \A i \in Investigations : i \in assetCases[p] \cup Settled => i \in Settled'
      BY <1>2, <3>1 DEF Settled, InvestigationTypeOK
    <3>3. ASSUME NEW e \in Events, evStatus'[e] = "closed"
          PROVE  \E i \in Investigations : i \in Settled' /\ CanSettle(i, e)'
      <4>1. CASE e \in assetClose[p]
        BY <1>1, <3>2, <4>1 DEF SettleInv
      <4>2. CASE e \notin assetClose[p]
        BY <1>1, <1>2, <3>1, <3>3, <4>2 DEF SettleInv, ClosedHasCase, CanSettle, Settled
      <4> QED BY <4>1, <4>2
    <3>4. ClosedHasCase'
      BY <3>3 DEF ClosedHasCase, CanSettle, Settled
    <3>5. ASSUME NEW q \in Settlers
          PROVE  /\ assetTodo'[q] \subseteq assetTodo[q]
                 /\ q # p => assetCases'[q] = assetCases[q] /\ assetClose'[q] = assetClose[q]
                 /\ assetClose'[p] = {}
      BY <3>1 DEF AssetTypeOK
    <3>6. \A q \in Settlers, e \in Events : Fetching(q, e)' => Fetching(q, e)
      BY <2>3 DEF AssetCommit, AssetReset, AssetTypeOK, Fetching
    <3> QED BY <1>0, <1>3, <1>4, <1>8, <3>4, <3>5, <3>6 DEF SettleInv
  <2> QED BY <2>1, <2>2, <2>3, <2>4 DEF SettlerRuns, AssetStep
<1> QED BY <1>6, <1>7

\* An event is closed only together with, or after, the judgment case of one of its
\* investigations with a verdict that can be settled, though a settlement may fail
\* after adding the case and runs, crashes and health checks interleave at will.  No
\* lock is needed for this.
THEOREM ClosedWithCase ==
  (Spec => []ClosedHasCase) /\ (ProbedSpec => []ClosedHasCase)
<1>1. Init => SettleInv
  BY InitSettle
<1>2. TypeInv /\ SettleInv /\ [Next]_vars => SettleInv'
  BY SettleStep
<1>3. TypeInv /\ SettleInv /\ [ProbedNext]_probedVars => SettleInv'
  <2> SUFFICES ASSUME TypeInv, SettleInv, \E h \in HealthChecks : CheckFindsEvent(h)
               PROVE  SettleInv'
    BY <1>2, ProbedSteps
  <2>1. UNCHANGED <<evStatus, invStatus, invEvent, verdict, cases, pickVars, assetTodo,
                    assetCases, assetClose>>
    BY CheckFindsWrites DEF invVars, assetVars, settleVars
  <2> QED BY <2>1 DEF SettleInv, Fetching, RowsAreReal, ClosedHasCase, CanSettle, Settled,
                      pickVars
<1>4. SettleInv => ClosedHasCase
  BY DEF SettleInv
<1> QED BY <1>1, <1>2, <1>3, <1>4, TypeInvariant, ProbedTypeInvariant, PTL
        DEF Spec, ProbedSpec, CheckInit

\* OneCasePerInvestigation by induction: the one run that settles has looked for the
\* case of everything it settles, and nobody else adds one.
OneCaseInv ==
  /\ SettlerOwnsLock
  /\ OneCasePerInvestigation
  /\ \A p \in Settlers : assetTested[p] # None \/ assetFetched[p] # {} => assetPc[p] # "idle"
  /\ \A p \in Settlers, i \in Investigations :
       i \in assetTodo[p] \cup assetCases[p] => assetPc[p] # "idle" /\ cases[i] = 0

LEMMA OneCaseStep ==
  ASSUME TypeInv, OneCaseInv, [Next]_vars, "defense_assets" \in Reliable
  PROVE  OneCaseInv'
<1> USE DEF TypeInv, TypeOK, StoreTypeOK
<1>0. SettlerOwnsLock'
  BY SettlerLockStep DEF OneCaseInv
<1>1. CASE \A p \in Settlers : ~SettlerRuns(p)
  <2>1. UNCHANGED cases /\ (UNCHANGED settleVars \/ AssetDies)
    BY <1>1, OthersSettleNothing
  <2> QED BY <1>0, <2>1 DEF OneCaseInv, OneCasePerInvestigation, settleVars, pickVars,
                      AssetDies
<1>2. CASE \E p \in Settlers : SettlerRuns(p)
  <2> PICK p \in Settlers : SettlerRuns(p)
    BY <1>2
  <2>1. CASE AssetFetch(p) \/ \E e \in Events : AssetTest(p, e)
    BY <1>0, <2>1 DEF AssetFetch, AssetTest, OneCaseInv, OneCasePerInvestigation, AssetTypeOK
  <2>4. CASE AssetLook(p)
    <3> DEFINE found == {i \in Investigations : Settleable(i, assetTested[p])}
    <3>1. \A i \in found \ Settled : cases[i] = 0
      BY DEF Settled, InvestigationTypeOK
    <3>2. assetTested[p] # None /\ UNCHANGED cases
      BY <2>4 DEF AssetLook
    <3> HIDE DEF found
    <3>3. CASE AssetReset(p)
      BY <1>0, <3>2, <3>3 DEF AssetReset, OneCaseInv, OneCasePerInvestigation, AssetTypeOK
    <3>4. CASE ~AssetReset(p)
      <4>1. /\ assetTodo' = [assetTodo EXCEPT ![p] = @ \cup (found \ Settled)]
            /\ assetTested' = [assetTested EXCEPT ![p] = None]
            /\ UNCHANGED <<assetPc, assetFetched, assetCases>>
        BY <2>4, <3>4 DEF AssetLook, found
      <4> QED BY <1>0, <3>1, <3>2, <4>1 DEF OneCaseInv, OneCasePerInvestigation, AssetTypeOK
    <3> QED BY <3>3, <3>4
  <2>2. CASE \E i \in Investigations : AssetSettle(p, i) \/ AssetSettleFails(p, i)
    BY <1>0, <2>2 DEF AssetSettle, AssetSettleFails, WithCase, OneCaseInv,
       OneCasePerInvestigation, AssetTypeOK, pickVars
  <2>3. CASE AssetCommit(p)
    <3>1. /\ assetTodo' = [assetTodo EXCEPT ![p] = {}]
          /\ assetCases' = [assetCases EXCEPT ![p] = {}]
          /\ assetPc[p] # "idle"
          /\ \A i \in Investigations :
               cases'[i] = IF i \in assetCases[p] THEN cases[i] + 1 ELSE cases[i]
      BY <2>3 DEF AssetCommit, AssetReset
    <3>2. \A q \in Settlers : q # p => assetPc[q] = "idle"
      BY <3>1 DEF OneCaseInv, SettlerOwnsLock
    <3>3. \A q \in Settlers, i \in Investigations :
            i \notin assetTodo'[q] \cup assetCases'[q]
      BY <3>1, <3>2 DEF OneCaseInv, AssetTypeOK
    <3>4. OneCasePerInvestigation'
      BY <3>1 DEF OneCaseInv, OneCasePerInvestigation
    <3>5. \A q \in Settlers : assetTested'[q] = None /\ assetFetched'[q] = {}
      BY <2>3, <3>2 DEF AssetCommit, AssetReset, OneCaseInv, AssetTypeOK
    <3> QED BY <1>0, <3>3, <3>4, <3>5 DEF OneCaseInv
  <2> QED BY <2>1, <2>2, <2>3, <2>4 DEF SettlerRuns, AssetStep
<1> QED BY <1>1, <1>2

\* An investigation gets at most one judgment case although the schema has no unique
\* constraint on it, a failed settlement may leave the case without the close and the
\* next run picks the event again: for any number of runs, provided that none outlives
\* the lock.
THEOREM OneCase ==
  ASSUME "defense_assets" \in Reliable
  PROVE  (Spec => []OneCasePerInvestigation) /\ (ProbedSpec => []OneCasePerInvestigation)
<1>1. Init => OneCaseInv
  BY DEF Init, StoreInit, AssetInit, OneCaseInv, SettlerOwnsLock, OneCasePerInvestigation
<1>2. TypeInv /\ OneCaseInv /\ [Next]_vars => OneCaseInv'
  BY OneCaseStep
<1>3. TypeInv /\ OneCaseInv /\ [ProbedNext]_probedVars => OneCaseInv'
  <2> SUFFICES ASSUME TypeInv, OneCaseInv, \E h \in HealthChecks : CheckFindsEvent(h)
               PROVE  OneCaseInv'
    BY <1>2, ProbedSteps
  <2>1. UNCHANGED <<lock, cases, assetPc, assetFetched, assetTested, assetTodo, assetCases>>
    BY CheckFindsWrites DEF assetVars, settleVars, pickVars
  <2> QED BY <2>1 DEF OneCaseInv, SettlerOwnsLock, OneCasePerInvestigation
<1>4. OneCaseInv => OneCasePerInvestigation
  BY DEF OneCaseInv
<1> QED BY <1>1, <1>2, <1>3, <1>4, TypeInvariant, ProbedTypeInvariant, PTL
        DEF Spec, ProbedSpec, CheckInit

-----------------------------------------------------------------------------
(* The daily budget                                                          *)

Existing == {e \in Events : evStatus[e] # "absent"}

\* A step creates at most one event.
LEMMA OneEventAppears ==
  ASSUME TypeInv, SettleInv, [Next]_vars, NEW e \in Existing', NEW f \in Existing',
         e \notin Existing, f \notin Existing
  PROVE  e = f
<1> USE DEF TypeInv, TypeOK, StoreTypeOK, EventTypeOK, Existing
<1>1. CASE \E g \in Aggregators : AggregationRuns(g)
  BY <1>1 DEF AggregationRuns, AggStep, AggFetch, AggFind, AggCommit, Destination,
     AggConflict, AggEnd
<1>2. CASE \E n \in Agents : AgentRuns(n)
  BY <1>2 DEF AgentRuns, AgentStep, AgentPick, AgentBegin, AgentConclude, AgentCharge, AgentCommit,
     AgentFail, AgentEnd
<1>3. CASE (\E u \in Operators : OperatorCalls(u)) \/ MarkerTtl
  <2>1. CASE \E u \in Operators : ReplyCommit(u)
    BY <2>1 DEF ReplyCommit
  <2>2. CASE ~\E u \in Operators : ReplyCommit(u)
    BY <1>3, <2>2 DEF OperatorCalls, OpStep, ReplyRead, ReplyFlush, ReplyUpdate, CancelRead,
       CancelCommit, OpFail, MarkerTtl, MarkerExpires
  <2> QED BY <2>1, <2>2
<1>4. CASE (\E p \in Settlers : SettlerRuns(p)) \/ OperatorDecides
  BY <1>4 DEF SettlerRuns, AssetStep, AssetFetch, AssetTest, AssetLook, AssetSettle, AssetSettleFails,
     AssetCommit, OperatorDecides, DecideDisposition, SettleInv
<1>5. CASE \/ (\E d \in Dispatchers : DispatcherRuns(d)) \/ AlertArrives
           \/ (\E s \in Services : LockExpires(s)) \/ Midnight
           \/ Crash \/ UNCHANGED vars
  BY <1>5, DispatcherWrites, ArrivalWrites, ClockWrites DEF Crash, vars, storeVars
<1> QED BY <1>1, <1>2, <1>3, <1>4, <1>5 DEF Next

\* BudgetRespected by induction, for the agents of A, who take the lock: what the one
\* run has charged and what it may still charge, one for each event of its batch, stay
\* within the budget.  The event under investigation counts until its transaction ends,
\* also after it is charged.
BudgetInv(A) ==
  /\ OwnLock(A)
  /\ BudgetRespected
  /\ IsFiniteSet(Existing)
  /\ \A n \in A :
       /\ IsFiniteSet(agentTodo[n])
       /\ agentPc[n] \in {"investigating", "concluded", "charged"} =>
            agentEvent[n] \in agentTodo[n]
       /\ agentPc[n] \in {"picked", "investigating", "concluded"} =>
            used + Cardinality(agentTodo[n]) <= DailyBudget
       /\ agentPc[n] = "charged" => used + Cardinality(agentTodo[n]) <= DailyBudget + 1

LEMMA InitBudget == ASSUME Init, NEW A \in SUBSET Agents PROVE BudgetInv(A)
<1>1. Existing = {}
  BY DEF Init, StoreInit, Existing
<1> QED BY <1>1, FS_EmptySet, InvestigationAssumption
        DEF Init, StoreInit, AgentInit, BudgetInv, OwnLock, BudgetRespected

LEMMA ExistingStaysFinite ==
  ASSUME TypeInv, SettleInv, [Next]_vars, IsFiniteSet(Existing)
  PROVE  IsFiniteSet(Existing')
<1>1. CASE Existing' \subseteq Existing
  BY <1>1, FS_Subset
<1>2. CASE ~(Existing' \subseteq Existing)
  <2> PICK e \in Existing' : e \notin Existing
    BY <1>2
  <2>1. Existing' \subseteq Existing \cup {e}
    BY OneEventAppears
  <2>2. IsFiniteSet(Existing \cup {e})
    BY FS_AddElement
  <2> QED BY <2>1, <2>2, FS_Subset
<1> QED BY <1>1, <1>2

\* Whatever leaves the agents of A alone or kills them, and charges nothing.
LEMMA BudgetRests ==
  ASSUME NEW A \in SUBSET Agents, TypeInv, BudgetInv(A), OwnLock(A)',
         IsFiniteSet(Existing'), used' \in {0, used},
         \/ AgentDies
         \/ \A n \in A : /\ agentPc'[n] = agentPc[n] /\ agentTodo'[n] = agentTodo[n]
                         /\ agentEvent'[n] = agentEvent[n]
  PROVE  BudgetInv(A)'
<1> USE InvestigationAssumption DEF TypeInv, TypeOK, StoreTypeOK
<1>1. used \in Nat /\ \A n \in A : Cardinality(agentTodo[n]) \in Nat
  BY FS_CardinalityType DEF BudgetInv, RedisTypeOK
<1>2. CASE AgentDies
  BY <1>2, FS_EmptySet DEF BudgetInv, BudgetRespected, AgentDies
<1>3. CASE \A n \in A : /\ agentPc'[n] = agentPc[n] /\ agentTodo'[n] = agentTodo[n]
                        /\ agentEvent'[n] = agentEvent[n]
  BY <1>1, <1>3 DEF BudgetInv, BudgetRespected
<1> QED BY <1>2, <1>3

LEMMA BudgetRuns ==
  ASSUME NEW A \in SUBSET Agents, TypeInv, SettleInv, BudgetInv(A), [Next]_vars,
         "investigation" \in Reliable, NEW n \in A, AgentRuns(n)
  PROVE  BudgetInv(A)'
<1> USE InvestigationAssumption, StoreAssumption DEF TypeInv, TypeOK, StoreTypeOK
<1>6. OwnLock(A)' /\ IsFiniteSet(Existing')
  BY OwnLockStep, ExistingStaysFinite DEF BudgetInv
<1> /\ used \in Nat /\ agentPc \in [Agents -> {"idle", "picked", "investigating", "concluded", "charged"}]
    /\ agentTodo \in [Agents -> SUBSET Events]
  BY DEF RedisTypeOK, AgentTypeOK
<1>7. \A m \in A : Cardinality(agentTodo[m]) \in Nat
  BY FS_CardinalityType DEF BudgetInv
<1>0. ASSUME agentPc[n] # "idle"
      PROVE  \A m \in A : m # n => agentPc[m] = "idle"
  BY <1>0 DEF BudgetInv, OwnLock
<1>1. CASE AgentPick(n)
  <2>1. /\ \A m \in A : agentPc[m] = "idle"
        /\ UNCHANGED <<used, agentEvent>>
        /\ agentPc' = [agentPc EXCEPT ![n] = "picked"]
    BY <1>1 DEF AgentPick, AcquireLock, BudgetInv, OwnLock, redisVars
  <2>2. PICK S \in SUBSET Eligible :
          /\ Cardinality(S) =
               Smaller(Cardinality(Eligible), Smaller(BatchSize, BudgetRemaining))
          /\ agentTodo' = [agentTodo EXCEPT ![n] = S]
    BY <1>1 DEF AgentPick
  <2>3. Eligible \subseteq Existing
    BY DEF Eligible, Existing
  <2>4. IsFiniteSet(Eligible) /\ IsFiniteSet(S)
    BY <2>3, FS_Subset DEF BudgetInv
  <2>5. Cardinality(Eligible) \in Nat /\ Cardinality(S) \in Nat
    BY <2>4, FS_CardinalityType
  <2>6. used + Cardinality(S) <= DailyBudget
    BY <1>1, <2>2, <2>5 DEF AgentPick, Smaller, BudgetRemaining
  <2> QED BY <1>6, <2>1, <2>2, <2>4, <2>6 DEF BudgetInv, BudgetRespected
<1>2. CASE \E e \in Events : AgentBegin(n, e)
  <2>1. PICK e \in Events : AgentBegin(n, e)
    BY <1>2
  <2>2. /\ UNCHANGED <<used, agentTodo>> /\ e \in agentTodo[n] /\ agentPc[n] = "picked"
        /\ agentPc' = [agentPc EXCEPT ![n] = "investigating"]
        /\ agentEvent' = [agentEvent EXCEPT ![n] = e]
    BY <2>1 DEF AgentBegin, redisVars
  <2> QED BY <1>6, <2>2 DEF BudgetInv, BudgetRespected, AgentTypeOK
<1>8. CASE \E v \in Verdicts : AgentConclude(n, v)
  <2>1. /\ UNCHANGED <<used, agentTodo, agentEvent>> /\ agentPc[n] = "investigating"
        /\ agentPc' = [agentPc EXCEPT ![n] = "concluded"]
    BY <1>8 DEF AgentConclude, redisVars
  <2> QED BY <1>6, <2>1 DEF BudgetInv, BudgetRespected
<1>3. CASE AgentCharge(n)
  <2>1. /\ UNCHANGED <<agentTodo, agentEvent>> /\ agentPc[n] = "concluded"
        /\ agentPc' = [agentPc EXCEPT ![n] = "charged"]
        /\ used' \in {used, used + 1}
    BY <1>3 DEF AgentCharge, redisVars
  <2>2. \A m \in A : m # n => agentPc[m] = "idle"
    BY <1>0, <2>1
  <2>3. agentTodo[n] # {} /\ Cardinality(agentTodo[n]) \in Nat \ {0}
    BY <1>7, <2>1, FS_EmptySet DEF BudgetInv
  <2>4. used + Cardinality(agentTodo[n]) <= DailyBudget
    BY <2>1 DEF BudgetInv
  <2>5. used' <= DailyBudget /\ used' + Cardinality(agentTodo[n]) <= DailyBudget + 1
    BY <2>1, <2>3, <2>4
  <2> QED BY <1>6, <2>1, <2>2, <2>5 DEF BudgetInv, BudgetRespected
<1>4. CASE \E i \in Investigations, suggested \in BOOLEAN : AgentCommit(n, i, suggested)
  <2>1. /\ UNCHANGED used /\ agentPc[n] = "charged"
        /\ agentPc' = [agentPc EXCEPT ![n] = "picked"]
        /\ agentTodo' = [agentTodo EXCEPT ![n] = @ \ {agentEvent[n]}]
        /\ agentEvent' = [agentEvent EXCEPT ![n] = None]
    BY <1>4 DEF AgentCommit, AgentForget, redisVars
  <2>2. \A m \in A : m # n => agentPc[m] = "idle"
    BY <1>0, <2>1
  <2>3. /\ IsFiniteSet(agentTodo[n] \ {agentEvent[n]})
        /\ Cardinality(agentTodo[n] \ {agentEvent[n]}) = Cardinality(agentTodo[n]) - 1
    BY <2>1, FS_RemoveElement DEF BudgetInv
  <2>4. used + Cardinality(agentTodo[n]) <= DailyBudget + 1
    BY <2>1 DEF BudgetInv
  <2>5. used + Cardinality(agentTodo[n] \ {agentEvent[n]}) <= DailyBudget
    BY <1>7, <2>3, <2>4
  <2> QED BY <1>6, <2>1, <2>2, <2>3, <2>5 DEF BudgetInv, BudgetRespected
<1>5. CASE AgentFail(n) \/ AgentEnd(n)
  <2>1. /\ UNCHANGED used /\ agentPc' = [agentPc EXCEPT ![n] = "idle"]
        /\ \/ agentTodo' = [agentTodo EXCEPT ![n] = {}]
           \/ UNCHANGED agentTodo
        /\ \A m \in A : m # n => agentEvent'[m] = agentEvent[m]
    BY <1>5 DEF AgentFail, AgentEnd, AgentForget, redisVars, AgentTypeOK
  <2> QED BY <1>6, <2>1, FS_EmptySet DEF BudgetInv, BudgetRespected
<1> QED BY <1>1, <1>2, <1>3, <1>4, <1>5, <1>8 DEF AgentRuns, AgentStep

LEMMA OthersChargeNothing ==
  ASSUME TypeInv, [Next]_vars, \A n \in Agents : ~AgentRuns(n)
  PROVE  (UNCHANGED agentVars \/ AgentDies) /\ used' \in {0, used}
<1>1. CASE \/ \E g \in Aggregators : AggregationRuns(g)
           \/ \E d \in Dispatchers : DispatcherRuns(d)
           \/ (\E u \in Operators : OperatorCalls(u)) \/ MarkerTtl
           \/ (\E p \in Settlers : SettlerRuns(p)) \/ OperatorDecides \/ AlertArrives
  BY <1>1, AggregationWrites, DispatcherWrites, OperatorWrites, SettlerWrites,
     ArrivalWrites
  DEF redisVars
<1>2. CASE (\E s \in Services : LockExpires(s)) \/ Midnight \/ Crash \/ UNCHANGED vars
  BY <1>2 DEF LockExpires, Midnight, Crash, vars, storeVars, redisVars
<1> QED BY <1>1, <1>2 DEF Next

LEMMA BudgetStep ==
  ASSUME TypeInv, SettleInv, BudgetInv(Agents), [Next]_vars, "investigation" \in Reliable
  PROVE  BudgetInv(Agents)'
<1>1. CASE \E n \in Agents : AgentRuns(n)
  BY <1>1, BudgetRuns
<1>2. CASE \A n \in Agents : ~AgentRuns(n)
  <2>1. (UNCHANGED agentVars \/ AgentDies) /\ used' \in {0, used}
    BY <1>2, OthersChargeNothing
  <2>2. OwnLock(Agents)' /\ IsFiniteSet(Existing')
    BY OwnLockStep, ExistingStaysFinite DEF BudgetInv
  <2> QED BY <2>1, <2>2, BudgetRests DEF agentVars
<1> QED BY <1>1, <1>2

\* Redis' daily counter never passes daily_budget although the batch is sized once
\* before the run, every event is charged on its own before its transaction commits,
\* exceptions and crashes come between, and human replies leave markers that skip the
\* charge: for any number of runs, provided that none outlives the lock.
THEOREM BudgetIsRespected ==
  ASSUME "investigation" \in Reliable
  PROVE  Spec => []BudgetRespected
<1>1. Init => SettleInv /\ BudgetInv(Agents)
  BY InitSettle, InitBudget
<1>2. TypeInv /\ SettleInv /\ BudgetInv(Agents) /\ [Next]_vars =>
        SettleInv' /\ BudgetInv(Agents)'
  BY SettleStep, BudgetStep
<1>3. BudgetInv(Agents) => BudgetRespected
  BY DEF BudgetInv
<1> QED BY <1>1, <1>2, <1>3, TypeInvariant, PTL DEF Spec

-----------------------------------------------------------------------------
(* The status of an event and what its latest investigation found.           *)

\* Investigations are numbered without gaps, so that the next one is the latest.
InvestigationsInOrder ==
  \A i, j \in Investigations : j < i /\ invStatus[i] # "absent" => invStatus[j] # "absent"

\* An event with a sound judgment is not investigated again.
SoundIsFinal ==
  \A i \in Investigations, e \in Events :
    CanSettle(i, e) => invStatus[i] = "completed" /\ IsLatest(i, e)

Undecided(e) == \A i \in Investigations : ~CanSettle(i, e)

\* The batch of a run is still what the pick saw.
BatchIsFresh ==
  \A n \in Agents :
    /\ agentPc[n] = "idle" => agentTodo[n] = {}
    /\ agentPc[n] \in {"investigating", "concluded", "charged"} =>
         agentEvent[n] \in agentTodo[n]
    /\ \A e \in agentTodo[n] : evStatus[e] = "pending_review" /\ Undecided(e)

ConcludedIsSound ==
  \A e \in Events : evStatus[e] \in {"concluded", "closed"} =>
    \E i \in Investigations : CanSettle(i, e)

WaitingAsks ==
  \A e \in Events : evStatus[e] = "human_pending" =>
    \E i \in Investigations :
      /\ IsLatest(i, e) /\ verdict[i] \in HumanVerdicts
      /\ ReinvestigationEnabled => invStatus[i] = "needs_human"

\* Investigation i of event e asks for a human.
Asks(i, e) == invEvent[i] = e /\ verdict[i] \in HumanVerdicts

\* Requests, committed or not, and candidates are about such investigations.
QuestionsAreReal ==
  /\ \A r \in Requests : reqStatus[r] # "absent" => Asks(reqInv[r], reqEvent[r])
  /\ \A d \in Dispatchers :
       /\ \A c \in dispTodo[d] : Asks(c.inv, c.event)
       /\ \A i \in dispReopen[d] : \E e \in Events : Asks(i, e)

\* A reply that found its event pending leaves it alone: when the event waits for a
\* human again, it does so for a later investigation.
RepliesAreUseful ==
  \A u \in Operators :
    /\ opPc[u] \in {"flushed", "updated"} /\ opEvStatus[u] = "pending_review"
    /\ evStatus[reqEvent[opReq[u]]] = "human_pending"
    => ~IsLatest(reqInv[opReq[u]], reqEvent[opReq[u]])

StatusInv ==
  /\ AgentOwnsLock /\ RowsAreReal /\ InvestigationsInOrder
  /\ SoundIsFinal /\ BatchIsFresh /\ ConcludedIsSound /\ WaitingAsks
  /\ QuestionsAreReal /\ RepliesAreUseful
  /\ answered \subseteq Committed /\ ReplyTakesEffect

\* The only steps that overwrite the status of an investigation.
LEMMA InvestigationMoves ==
  ASSUME TypeInv, [Next]_vars, NEW i \in Investigations, invStatus'[i] # invStatus[i]
  PROVE  \/ \E n \in Agents, suggested \in BOOLEAN :
              AgentCommit(n, i, suggested) /\ invStatus[i] = "absent"
         \/ \E d \in Dispatchers : DispCommit(d) /\ i \in dispReopen[d]
         \/ \E u \in Operators :
              /\ ReplyCommit(u) /\ reqInv[opReq[u]] = i
              /\ opInvStatus[u] = "needs_human" /\ invStatus'[i] = "completed"
<1> USE DEF TypeInv, TypeOK, StoreTypeOK, InvestigationTypeOK
<1>1. CASE \/ \E g \in Aggregators : AggregationRuns(g)
           \/ (\E p \in Settlers : SettlerRuns(p)) \/ OperatorDecides
           \/ AlertArrives \/ (\E s \in Services : LockExpires(s)) \/ Midnight
           \/ Crash \/ UNCHANGED vars
  BY <1>1, AggregationWrites, SettlerWrites, ArrivalWrites, ClockWrites
  DEF invVars, Crash, vars, storeVars
<1>2. CASE \E n \in Agents : AgentRuns(n)
  BY <1>2 DEF AgentRuns, AgentStep, AgentPick, AgentBegin, AgentConclude, AgentCharge, AgentCommit,
     AgentFail, AgentEnd, IsNext, invVars
<1>3. CASE \E d \in Dispatchers : DispatcherRuns(d)
  BY <1>3 DEF DispatcherRuns, DispStep, DispExpire, DispSweep, DispPick, DispTest, DispLook, DispSend,
     DispSendFails, DispCommit, DispFail
<1>4. CASE (\E u \in Operators : OperatorCalls(u)) \/ MarkerTtl
  BY <1>4 DEF OperatorCalls, OpStep, ReplyRead, ReplyFlush, ReplyUpdate, ReplyCommit, CancelRead,
     CancelCommit, OpFail, MarkerTtl, MarkerExpires
<1> QED BY <1>1, <1>2, <1>3, <1>4 DEF Next

\* A request is written by the dispatcher that sends it and keeps its event and its
\* investigation; once committed it stays a row.
LEMMA RequestsStay ==
  ASSUME TypeInv, [Next]_vars, NEW r \in Requests
  PROVE  /\ r \in Committed => r \in Committed'
         /\ \/ /\ reqStatus[r] = "absent" /\ reqStatus'[r] = "absent"
               /\ reqEvent'[r] = reqEvent[r] /\ reqInv'[r] = reqInv[r]
            \/ /\ reqStatus[r] # "absent" /\ (r \in Drafts' => r \in Drafts)
               /\ reqEvent'[r] = reqEvent[r] /\ reqInv'[r] = reqInv[r]
            \/ \E d \in Dispatchers : \E c \in dispTodo[d] :
                 /\ reqStatus[r] = "absent" /\ dispPc[d] = "sending"
                 /\ reqEvent'[r] = c.event /\ reqInv'[r] = c.inv
<1> USE DEF TypeInv, TypeOK, StoreTypeOK, RequestTypeOK, Drafts
<1>1. CASE UNCHANGED reqVars
  BY <1>1 DEF reqVars, Committed
<1>2. CASE \/ \E g \in Aggregators : AggregationRuns(g)
           \/ (\E p \in Settlers : SettlerRuns(p)) \/ OperatorDecides
           \/ AlertArrives \/ (\E s \in Services : LockExpires(s)) \/ Midnight
           \/ UNCHANGED vars
  BY <1>1, <1>2, AggregationWrites, SettlerWrites, ArrivalWrites, ClockWrites
  DEF vars, storeVars
<1>3. CASE \E n \in Agents : AgentRuns(n)
  <2>1. UNCHANGED <<reqEvent, reqInv>>
    BY <1>3, AgentWrites
  <2>2. /\ r \in Committed => r \in Committed'
        /\ reqStatus[r] = "absent" => reqStatus'[r] = "absent"
        /\ r \in Drafts' => r \in Drafts
    BY <1>3 DEF AgentRuns, AgentStep, AgentPick, AgentBegin, AgentConclude, AgentCharge, AgentCommit,
       AgentFail, AgentEnd, Rollback, AgentKnows, Committed
  <2> QED BY <2>1, <2>2
<1>4. CASE Crash
  BY <1>4 DEF Crash, Rollback, Committed
<1>5. CASE (\E u \in Operators : OperatorCalls(u)) \/ MarkerTtl
  <2>1. UNCHANGED <<reqEvent, reqInv>>
    BY <1>5, OperatorWrites
  <2>2. /\ r \in Committed => r \in Committed'
        /\ reqStatus[r] = "absent" => reqStatus'[r] = "absent"
        /\ r \in Drafts' => r \in Drafts
    BY <1>5 DEF OperatorCalls, OpStep, ReplyRead, ReplyFlush, ReplyUpdate, ReplyCommit, CancelRead,
       CancelCommit, OpFail, Rollback, MarkerTtl, MarkerExpires, reqVars, ReviewKnows, Committed
  <2> QED BY <2>1, <2>2
<1>6. CASE \E d \in Dispatchers : DispatcherRuns(d)
  <2> PICK d \in Dispatchers : DispatcherRuns(d)
    BY <1>6
  <2>1. CASE \/ (\E S \in SUBSET Requests : DispExpire(d, S)) \/ DispSweep(d)
             \/ DispPick(d) \/ (\E e \in Events : DispTest(d, e)) \/ DispLook(d)
             \/ \E c \in Candidate : DispSendFails(d, c)
    BY <2>1 DEF DispExpire, DispSweep, DispPick, DispTest, DispLook, DispSendFails, reqVars, Committed
  <2>2. CASE \E c \in Candidate, q \in Requests : DispSend(d, c, q)
    <3> PICK c \in Candidate, q \in Requests : DispSend(d, c, q)
      BY <2>2
    <3>1. /\ c \in dispTodo[d] /\ reqStatus[q] = "absent" /\ dispPc[d] = "sending"
          /\ reqStatus' = [reqStatus EXCEPT ![q] = "draft"]
          /\ reqEvent' = [reqEvent EXCEPT ![q] = c.event]
          /\ reqInv' = [reqInv EXCEPT ![q] = c.inv]
      BY DEF DispSend, Sends, IsNext
    <3>2. CASE r = q
      BY <3>1, <3>2 DEF Committed
    <3>3. CASE r # q
      BY <3>1, <3>3 DEF Committed
    <3> QED BY <3>2, <3>3
  <2>3. CASE DispCommit(d)
    <3>1. /\ r \in dispExpire[d] \cup dispCancel[d] => r \in Committed
          /\ UNCHANGED <<reqEvent, reqInv>>
      BY <2>3 DEF DispCommit, ReviewKnows
    <3>2. reqStatus'[r] = CASE r \in dispExpire[d] -> "expired"
                            [] r \in dispCancel[d] -> "cancelled"
                            [] reqStatus[r] = "draft" /\ reqLock[r] = d -> "sent"
                            [] OTHER -> reqStatus[r]
      BY <2>3 DEF DispCommit
    <3> QED BY <3>1, <3>2 DEF Committed
  <2>4. CASE DispFail(d)
    BY <2>4 DEF DispFail, Rollback, Committed
  <2> QED BY <2>1, <2>2, <2>3, <2>4 DEF DispatcherRuns, DispStep
<1> QED BY <1>2, <1>3, <1>4, <1>5, <1>6 DEF Next

LEMMA InitStatus == Init => StatusInv
<1> SUFFICES ASSUME Init PROVE StatusInv
  OBVIOUS
<1>1. /\ \A i \in Investigations : invEvent[i] = None /\ invStatus[i] = "absent"
      /\ \A e \in Events : evStatus[e] = "absent" /\ e # None
  BY StoreAssumption DEF Init, StoreInit
<1>2. /\ RowsAreReal /\ InvestigationsInOrder
      /\ SoundIsFinal /\ ConcludedIsSound /\ WaitingAsks
  BY <1>1 DEF RowsAreReal, InvestigationsInOrder, SoundIsFinal, CanSettle, ConcludedIsSound,
     WaitingAsks
<1>3. AgentOwnsLock /\ BatchIsFresh
  BY DEF Init, AgentInit, AgentOwnsLock, BatchIsFresh
<1>4. /\ QuestionsAreReal /\ RepliesAreUseful
      /\ answered \subseteq Committed /\ ReplyTakesEffect
  BY DEF Init, StoreInit, ReviewInit, QuestionsAreReal, RepliesAreUseful, ReplyTakesEffect
<1> QED BY <1>2, <1>3, <1>4 DEF StatusInv

\* The commit of an agent judges a pending event that has no sound judgment.
Judges(n, i, e, v) ==
  /\ agentEvent[n] = e /\ e \in agentTodo[n]
  /\ evStatus[e] = "pending_review" /\ Undecided(e)
  /\ invEvent[i] = None /\ IsNext(i, Investigations, invStatus)
  /\ invEvent' = [invEvent EXCEPT ![i] = e]
  /\ verdict' = [verdict EXCEPT ![i] = v]
  /\ evStatus' = [evStatus EXCEPT ![e] = VERDICT_EVENT_STATUS[v]]
  /\ invStatus' = [invStatus EXCEPT ![i] =
       IF VERDICT_EVENT_STATUS[v] = "human_pending" THEN "needs_human" ELSE "completed"]

LEMMA CommitIsFresh ==
  ASSUME TypeInv, StatusInv, NEW n \in Agents, NEW i \in Investigations,
         NEW suggested \in BOOLEAN, AgentCommit(n, i, suggested)
  PROVE  \E e \in Events, v \in Verdicts : Judges(n, i, e, v)
<1>1. agentEvent[n] \in agentTodo[n] /\ agentEvent[n] \in Events /\ agentVerdict[n] \in Verdicts
  BY DEF AgentCommit, StatusInv, BatchIsFresh, TypeInv, AgentKnows
<1>2. invEvent[i] = None
  BY DEF AgentCommit, IsNext, StatusInv, RowsAreReal, TypeInv, TypeOK, StoreTypeOK,
     InvestigationTypeOK
<1>3. Judges(n, i, agentEvent[n], agentVerdict[n])
  BY <1>1, <1>2 DEF AgentCommit, StatusInv, BatchIsFresh, Judges
<1> QED BY <1>1, <1>3

\* What a judgment writes.
LEMMA JudgmentWrites ==
  ASSUME TypeInv, NEW n \in Agents, NEW i \in Investigations, NEW e \in Events,
         NEW v \in Verdicts, Judges(n, i, e, v)
  PROVE  /\ invEvent'[i] = e /\ verdict'[i] = v
         /\ \A j \in Investigations : j # i => invEvent'[j] = invEvent[j]
         /\ \/ /\ v \in SettleVerdicts
               /\ evStatus'[e] = "concluded" /\ invStatus'[i] = "completed"
            \/ /\ v \in HumanVerdicts /\ v \notin SettleVerdicts
               /\ evStatus'[e] = "human_pending" /\ invStatus'[i] = "needs_human"
         /\ \A f \in Events : f # e => evStatus'[f] = evStatus[f]
<1>1. /\ invEvent'[i] = e /\ verdict'[i] = v
      /\ \A j \in Investigations : j # i => invEvent'[j] = invEvent[j]
      /\ evStatus'[e] = VERDICT_EVENT_STATUS[v]
      /\ \A f \in Events : f # e => evStatus'[f] = evStatus[f]
      /\ invStatus'[i] = IF VERDICT_EVENT_STATUS[v] = "human_pending" THEN "needs_human"
                         ELSE "completed"
  BY DEF Judges, TypeInv, TypeOK, StoreTypeOK, InvestigationTypeOK, EventTypeOK
<1>2. v \in SettleVerdicts \cup HumanVerdicts
  BY StoreAssumption
<1>3. VERDICT_EVENT_STATUS[v] = IF v \in SettleVerdicts THEN "concluded" ELSE "human_pending"
  BY <1>2 DEF VERDICT_EVENT_STATUS
<1> QED BY <1>1, <1>2, <1>3

\* The new investigation is the latest of its event.
LEMMA JudgmentIsLatest ==
  ASSUME TypeInv, StatusInv, NEW n \in Agents, NEW i \in Investigations, NEW e \in Events,
         NEW v \in Verdicts, Judges(n, i, e, v)
  PROVE  /\ IsLatest(i, e)'
         /\ \A j \in Investigations : j # i => ~IsLatest(j, e)'
<1>1. ASSUME NEW j \in Investigations, invEvent'[j] = e, j # i
      PROVE  j < i
  <2>1. invEvent[j] = e
    BY <1>1, JudgmentWrites
  <2>2. invStatus[j] # "absent" /\ invStatus[i] = "absent"
    BY <2>1, StoreAssumption DEF StatusInv, RowsAreReal, Judges, IsNext
  <2>3. ~(i < j)
    BY <2>2 DEF StatusInv, InvestigationsInOrder
  <2> QED BY <1>1, <2>3, StoreAssumption
<1>2. invEvent'[i] = e /\ i \in Nat
  BY JudgmentWrites, StoreAssumption
<1>3. IsLatest(i, e)'
  BY <1>1, <1>2 DEF IsLatest, InvestigationsOf
<1>4. ASSUME NEW j \in Investigations, j # i, IsLatest(j, e)' PROVE FALSE
  BY <1>1, <1>2, <1>4, StoreAssumption DEF IsLatest, InvestigationsOf
<1> QED BY <1>3, <1>4

\* An investigation may cease to be the latest of its event, and does not become it.
LEMMA LatestWas ==
  ASSUME TypeInv, RowsAreReal, [Next]_vars, NEW i \in Investigations, NEW e \in Events,
         invEvent[i] = e, IsLatest(i, e)'
  PROVE  IsLatest(i, e)
<1>1. ASSUME NEW j \in Investigations, invEvent[j] = e PROVE invEvent'[j] = e
  BY <1>1, InvestigationsStay, StoreAssumption DEF RowsAreReal
<1> QED BY <1>1 DEF IsLatest, InvestigationsOf

\* An API request that works on a request row works on a question to a human.
LEMMA OperatorAsks ==
  ASSUME TypeInv, StatusInv, NEW u \in Operators, opPc[u] # "idle"
  PROVE  /\ opReq[u] \in Committed
         /\ reqInv[opReq[u]] \in Investigations /\ reqEvent[opReq[u]] \in Events
         /\ Asks(reqInv[opReq[u]], reqEvent[opReq[u]])
BY DEF TypeInv, ReviewKnows, RequestRows, Committed, StatusInv, QuestionsAreReal

LEMMA InvestigationsInOrderStep ==
  ASSUME TypeInv, StatusInv, [Next]_vars PROVE InvestigationsInOrder'
<1> SUFFICES ASSUME NEW i \in Investigations, NEW j \in Investigations, j < i,
                    invStatus'[i] # "absent"
             PROVE  invStatus'[j] # "absent"
  BY DEF InvestigationsInOrder
<1>1. CASE invStatus[i] # "absent"
  BY <1>1, InvestigationsStay DEF StatusInv, InvestigationsInOrder
<1>2. CASE invStatus[i] = "absent"
  <2>0. \A e \in Events : ~Asks(i, e)
    BY <1>2, StoreAssumption DEF Asks, StatusInv, RowsAreReal
  <2>1. PICK n \in Agents, suggested \in BOOLEAN : AgentCommit(n, i, suggested)
    BY <1>2, <2>0, InvestigationMoves, OperatorAsks
    DEF StatusInv, QuestionsAreReal, ReplyCommit
  <2>2. invStatus[j] # "absent"
    BY <2>1 DEF AgentCommit, IsNext
  <2> QED BY <2>2, InvestigationsStay
<1> QED BY <1>1, <1>2

LEMMA SoundIsFinalStep ==
  ASSUME TypeInv, StatusInv, [Next]_vars PROVE SoundIsFinal'
<1> USE StoreAssumption
<1> SUFFICES ASSUME NEW i \in Investigations, NEW e \in Events, CanSettle(i, e)'
             PROVE  invStatus'[i] = "completed" /\ IsLatest(i, e)'
  BY DEF SoundIsFinal
<1>1. CASE invEvent[i] = e
  <2>1. CanSettle(i, e) /\ invStatus[i] = "completed" /\ IsLatest(i, e)
    BY <1>1, InvestigationsStay DEF CanSettle, StatusInv, RowsAreReal, SoundIsFinal
  <2>2. invStatus'[i] = "completed"
    <3>1. \A d \in Dispatchers : i \notin dispReopen[d]
      BY <2>1 DEF CanSettle, StatusInv, QuestionsAreReal, Asks, SettleVerdicts, HumanVerdicts
    <3> QED BY <2>1, <3>1, InvestigationMoves DEF TypeInv, TypeOK, StoreTypeOK,
           InvestigationTypeOK
  <2>3. ASSUME NEW j \in Investigations, invEvent'[j] = e PROVE j <= i
    <3>1. CASE invEvent[j] = e
      BY <2>1, <3>1 DEF IsLatest, InvestigationsOf
    <3>2. CASE invEvent[j] # e
      <4> PICK n \in Agents, suggested \in BOOLEAN : AgentCommit(n, j, suggested)
        BY <2>3, <3>2, InvestigationsAppear
      <4> PICK f \in Events, v \in Verdicts : Judges(n, j, f, v)
        BY CommitIsFresh
      <4>1. f = e /\ Undecided(f)
        BY <2>3, JudgmentWrites DEF Judges
      <4> QED BY <2>1, <4>1 DEF Undecided
    <3> QED BY <3>1, <3>2
  <2>4. invEvent'[i] = e
    BY DEF CanSettle
  <2> QED BY <2>2, <2>3, <2>4 DEF IsLatest, InvestigationsOf
<1>2. CASE invEvent[i] # e
  <2>1. invEvent'[i] = e /\ verdict'[i] \in SettleVerdicts
    BY DEF CanSettle
  <2> PICK n \in Agents, suggested \in BOOLEAN : AgentCommit(n, i, suggested)
    BY <1>2, <2>1, InvestigationsAppear
  <2> PICK f \in Events, v \in Verdicts : Judges(n, i, f, v)
    BY CommitIsFresh
  <2>2. f = e /\ invStatus'[i] = "completed"
    BY <2>1, JudgmentWrites
  <2> QED BY <2>2, JudgmentIsLatest
<1> QED BY <1>1, <1>2

LEMMA ConcludedIsSoundStep ==
  ASSUME TypeInv, SettleInv, StatusInv, [Next]_vars PROVE ConcludedIsSound'
<1> SUFFICES ASSUME NEW e \in Events, evStatus'[e] \in {"concluded", "closed"}
             PROVE  \E i \in Investigations : CanSettle(i, e)'
  BY DEF ConcludedIsSound
<1>1. ASSUME NEW i \in Investigations, CanSettle(i, e)
      PROVE  CanSettle(i, e)'
  BY <1>1, SettleableStays DEF SettleInv
<1>2. CASE evStatus'[e] = evStatus[e]
  BY <1>1, <1>2 DEF StatusInv, ConcludedIsSound
<1>3. CASE evStatus'[e] # evStatus[e]
  <2>1. CASE \E n \in Agents, i \in Investigations, suggested \in BOOLEAN :
               AgentCommit(n, i, suggested) /\ agentEvent[n] = e
    <3> PICK n \in Agents, i \in Investigations, suggested \in BOOLEAN :
          AgentCommit(n, i, suggested) /\ agentEvent[n] = e
      BY <2>1
    <3> PICK f \in Events, v \in Verdicts : Judges(n, i, f, v)
      BY CommitIsFresh
    <3>1. f = e
      BY DEF Judges
    <3>2. invEvent'[i] = e /\ verdict'[i] \in SettleVerdicts
      BY <3>1, JudgmentWrites
    <3> QED BY <3>2 DEF CanSettle
  <2>2. CASE \E p \in Settlers : e \in assetClose[p]
    BY <1>1, <2>2 DEF SettleInv
  <2> QED BY <1>3, <2>1, <2>2, EventMoves
<1> QED BY <1>2, <1>3

\* An event comes to wait for a human by a judgment, whose investigation is the latest.
LEMMA WaitingAppears ==
  ASSUME TypeInv, StatusInv, [Next]_vars, NEW e \in Events,
         evStatus'[e] = "human_pending", evStatus[e] # "human_pending"
  PROVE  \E i \in Investigations :
           /\ invEvent[i] # e /\ IsLatest(i, e)' /\ verdict'[i] \in HumanVerdicts
           /\ invStatus'[i] = "needs_human"
           /\ \A j \in Investigations : j # i => ~IsLatest(j, e)'
<1>1. PICK n \in Agents, i \in Investigations, suggested \in BOOLEAN :
        AgentCommit(n, i, suggested) /\ agentEvent[n] = e
  BY EventMoves
<1> PICK f \in Events, v \in Verdicts : Judges(n, i, f, v)
  BY <1>1, CommitIsFresh
<1>2. f = e /\ invEvent[i] = None
  BY <1>1 DEF Judges
<1>3. verdict'[i] \in HumanVerdicts /\ invStatus'[i] = "needs_human"
  BY <1>2, JudgmentWrites
<1>4. IsLatest(i, e)' /\ \A j \in Investigations : j # i => ~IsLatest(j, e)'
  BY <1>2, JudgmentIsLatest
<1> QED BY <1>2, <1>3, <1>4, StoreAssumption

\* A new judgment takes the event out of HUMAN_PENDING or asks again.
LEMMA LatestStays ==
  ASSUME TypeInv, StatusInv, [Next]_vars, NEW i \in Investigations, NEW e \in Events,
         IsLatest(i, e), evStatus[e] = "human_pending"
  PROVE  IsLatest(i, e)'
<1>1. invEvent'[i] = e
  BY InvestigationsStay, StoreAssumption DEF StatusInv, RowsAreReal, IsLatest
<1>2. ASSUME NEW j \in Investigations, invEvent'[j] = e PROVE j <= i
  <2>1. CASE invEvent[j] = e
    BY <2>1 DEF IsLatest, InvestigationsOf
  <2>2. CASE invEvent[j] # e
    <3> PICK n \in Agents, suggested \in BOOLEAN : AgentCommit(n, j, suggested)
      BY <1>2, <2>2, InvestigationsAppear
    <3> PICK f \in Events, v \in Verdicts : Judges(n, j, f, v)
      BY CommitIsFresh
    <3>1. f = e /\ evStatus[f] = "pending_review"
      BY <1>2, JudgmentWrites DEF Judges
    <3> QED BY <3>1
  <2> QED BY <2>1, <2>2
<1> QED BY <1>1, <1>2 DEF IsLatest, InvestigationsOf

LEMMA WaitingAsksStep ==
  ASSUME TypeInv, StatusInv, [Next]_vars PROVE WaitingAsks'
<1> USE StoreAssumption
<1> SUFFICES ASSUME NEW e \in Events, evStatus'[e] = "human_pending"
             PROVE  \E i \in Investigations :
                      /\ IsLatest(i, e)' /\ verdict'[i] \in HumanVerdicts
                      /\ ReinvestigationEnabled => invStatus'[i] = "needs_human"
  BY DEF WaitingAsks
<1>1. CASE evStatus[e] # "human_pending"
  BY <1>1, WaitingAppears
<1>2. CASE evStatus[e] = "human_pending"
  <2> PICK i \in Investigations :
        /\ IsLatest(i, e) /\ verdict[i] \in HumanVerdicts
        /\ ReinvestigationEnabled => invStatus[i] = "needs_human"
    BY <1>2 DEF StatusInv, WaitingAsks
  <2>1. invEvent[i] = e /\ invStatus[i] # "absent"
    BY DEF IsLatest, StatusInv, RowsAreReal
  <2>2. IsLatest(i, e)' /\ verdict'[i] = verdict[i]
    BY <1>2, <2>1, LatestStays, InvestigationsStay
  <2>3. ASSUME ReinvestigationEnabled, invStatus'[i] # "needs_human"
        PROVE  FALSE
    <3>1. CASE \E d \in Dispatchers : DispCommit(d) /\ i \in dispReopen[d]
      <4>1. invStatus'[i] = "needs_human"
        BY <3>1 DEF DispCommit
      <4> QED BY <2>3, <4>1
    <3>2. CASE \E u \in Operators :
                 ReplyCommit(u) /\ reqInv[opReq[u]] = i
      <4> PICK u \in Operators : ReplyCommit(u) /\ reqInv[opReq[u]] = i
        BY <3>2
      <4>1. opPc[u] = "updated"
        BY DEF ReplyCommit
      <4>2. reqEvent[opReq[u]] = e
        BY <2>1, <4>1, OperatorAsks DEF Asks
      <4>3. CASE opEvStatus[u] # "pending_review"
        <5>1. evStatus' = [evStatus EXCEPT ![e] = "pending_review"]
          BY <2>3, <4>2, <4>3 DEF ReplyCommit, Reopens
        <5> QED BY <5>1 DEF TypeInv, TypeOK, StoreTypeOK, EventTypeOK
      <4>4. CASE opEvStatus[u] = "pending_review"
        BY <1>2, <4>1, <4>2, <4>4 DEF StatusInv, RepliesAreUseful
      <4> QED BY <4>3, <4>4
    <3> QED BY <2>1, <2>3, <3>1, <3>2, InvestigationMoves
  <2> QED BY <2>2, <2>3
<1> QED BY <1>1, <1>2

\* An event of a batch stays as the pick saw it until its own run commits.
LEMMA FreshStays ==
  ASSUME TypeInv, SettleInv, StatusInv, [Next]_vars, NEW n \in Agents,
         NEW e \in Events, e \in agentTodo[n],
         ~\E i \in Investigations, suggested \in BOOLEAN :
            AgentCommit(n, i, suggested) /\ agentEvent[n] = e
  PROVE  evStatus'[e] = "pending_review" /\ Undecided(e)'
<1>1. evStatus[e] = "pending_review" /\ Undecided(e) /\ agentPc[n] # "idle"
  BY DEF StatusInv, BatchIsFresh
<1>2. ASSUME NEW m \in Agents, NEW i \in Investigations, NEW suggested \in BOOLEAN,
             AgentCommit(m, i, suggested), agentEvent[m] = e
      PROVE  FALSE
  <2>1. m = n
    BY <1>1, <1>2 DEF AgentCommit, StatusInv, AgentOwnsLock
  <2> QED BY <1>2, <2>1
<1>3. evStatus'[e] = "pending_review"
  <2> SUFFICES ASSUME evStatus'[e] # evStatus[e] PROVE evStatus'[e] = "pending_review"
    BY <1>1
  <2>1. ASSUME NEW p \in Settlers, e \in assetClose[p] PROVE FALSE
    BY <1>1, <2>1 DEF SettleInv, Undecided
  <2> QED BY <1>2, <2>1, EventMoves
<1>4. ASSUME NEW i \in Investigations, CanSettle(i, e)' PROVE FALSE
  <2>1. CASE invEvent[i] # e
    <3> PICK m \in Agents, suggested \in BOOLEAN : AgentCommit(m, i, suggested)
      BY <1>4, <2>1, InvestigationsAppear DEF CanSettle
    <3>1. PICK f \in Events, v \in Verdicts : Judges(m, i, f, v)
      BY CommitIsFresh
    <3>2. f = e
      BY <1>4, <3>1, JudgmentWrites DEF CanSettle
    <3> QED BY <1>2, <3>1, <3>2 DEF Judges
  <2>2. CASE invEvent[i] = e
    <3>1. verdict'[i] = verdict[i]
      BY <2>2, InvestigationsStay, StoreAssumption DEF StatusInv, RowsAreReal
    <3> QED BY <1>1, <1>4, <2>2, <3>1 DEF CanSettle, Undecided
  <2> QED BY <2>1, <2>2
<1> QED BY <1>3, <1>4 DEF Undecided

LEMMA BatchIsFreshStep ==
  ASSUME TypeInv, SettleInv, StatusInv, [Next]_vars PROVE BatchIsFresh'
<1> USE DEF TypeInv, TypeOK, StoreTypeOK, AgentTypeOK
<1> SUFFICES ASSUME NEW n \in Agents
             PROVE  /\ agentPc'[n] = "idle" => agentTodo'[n] = {}
                    /\ agentPc'[n] \in {"investigating", "concluded", "charged"} =>
                         agentEvent'[n] \in agentTodo'[n]
                    /\ \A e \in agentTodo'[n] :
                         evStatus'[e] = "pending_review" /\ Undecided(e)'
  BY DEF BatchIsFresh
<1>0. /\ agentPc[n] = "idle" => agentTodo[n] = {}
      /\ agentPc[n] \in {"investigating", "concluded", "charged"} =>
           agentEvent[n] \in agentTodo[n]
      /\ agentTodo[n] \subseteq Events
  BY DEF StatusInv, BatchIsFresh
<1>1. CASE \E i \in Investigations, suggested \in BOOLEAN : AgentCommit(n, i, suggested)
  <2>1. /\ agentPc'[n] = "picked"
        /\ agentTodo'[n] = agentTodo[n] \ {agentEvent[n]}
    BY <1>1 DEF AgentCommit
  <2>2. \A e \in agentTodo'[n] : evStatus'[e] = "pending_review" /\ Undecided(e)'
    BY <1>0, <2>1, FreshStays
  <2> QED BY <2>1, <2>2
<1>2. CASE AgentPick(n)
  <2>1. /\ agentPc'[n] = "picked" /\ agentTodo'[n] \subseteq Eligible
        /\ UNCHANGED <<evStatus, invEvent, verdict>>
    BY <1>2 DEF AgentPick, invVars
  <2>2. \A e \in Eligible : evStatus[e] = "pending_review" /\ Undecided(e)
    BY DEF Eligible, InvestigationsOf, StatusInv, SoundIsFinal, Undecided, CanSettle
  <2>3. \A e \in Eligible : Undecided(e)'
    BY <2>1, <2>2 DEF Undecided, CanSettle
  <2> QED BY <2>1, <2>2, <2>3
<1>3. CASE /\ ~AgentPick(n)
           /\ ~\E i \in Investigations, suggested \in BOOLEAN : AgentCommit(n, i, suggested)
  <2>1. /\ agentTodo'[n] \in {agentTodo[n], {}}
        /\ agentPc'[n] = "idle" => agentTodo'[n] = {}
        /\ agentPc'[n] \in {"investigating", "concluded", "charged"} =>
             agentEvent'[n] \in agentTodo'[n]
    <3>1. CASE \E m \in Agents : AgentRuns(m)
      <4> PICK m \in Agents : AgentRuns(m)
        BY <3>1
      <4>1. CASE m = n
        BY <1>0, <1>3, <4>1 DEF AgentRuns, AgentStep, AgentBegin, AgentConclude,
           AgentCharge, AgentFail, AgentEnd
      <4>2. CASE m # n
        BY <1>0, <4>2 DEF AgentRuns, AgentStep, AgentPick, AgentBegin, AgentConclude,
           AgentCharge, AgentCommit, AgentForget, AgentFail, AgentEnd
      <4> QED BY <4>1, <4>2
    <3>2. CASE UNCHANGED agentVars
      BY <1>0, <3>2 DEF agentVars
    <3>3. CASE \/ \E g \in Aggregators : AggregationRuns(g)
               \/ (\E d \in Dispatchers : DispatcherRuns(d))
               \/ (\E p \in Settlers : SettlerRuns(p)) \/ OperatorDecides
               \/ (\E u \in Operators : OperatorCalls(u)) \/ MarkerTtl
               \/ AlertArrives \/ (\E s \in Services : LockExpires(s)) \/ Midnight
               \/ UNCHANGED vars
      BY <3>2, <3>3, AggregationWrites, DispatcherWrites, SettlerWrites, OperatorWrites,
         ArrivalWrites, ClockWrites DEF vars
    <3>4. CASE Crash
      BY <3>4 DEF Crash, AgentDies
    <3> QED BY <3>1, <3>3, <3>4 DEF Next
  <2>2. \A e \in agentTodo[n] : evStatus'[e] = "pending_review" /\ Undecided(e)'
    BY <1>0, <1>3, FreshStays
  <2> QED BY <2>1, <2>2
<1> QED BY <1>1, <1>2, <1>3

LEMMA AsksStays ==
  ASSUME TypeInv, StatusInv, [Next]_vars, NEW i \in Investigations, NEW e \in Events,
         Asks(i, e)
  PROVE  /\ invEvent'[i] = e /\ verdict'[i] = verdict[i]
         /\ verdict'[i] \in HumanVerdicts
BY InvestigationsStay, StoreAssumption DEF Asks, StatusInv, RowsAreReal

\* Candidates and reopened investigations only come from a look.
LEMMA CandidatesAppear ==
  ASSUME TypeInv, [Next]_vars, NEW d \in Dispatchers, ~DispLook(d)
  PROVE  dispTodo'[d] \subseteq dispTodo[d] /\ dispReopen'[d] \subseteq dispReopen[d]
<1> USE DEF TypeInv, TypeOK, ReviewTypeOK
<1>1. CASE \E k \in Dispatchers : DispatcherRuns(k)
  <2> PICK k \in Dispatchers : DispatcherRuns(k)
    BY <1>1
  <2>1. CASE k = d
    BY <2>1 DEF DispatcherRuns, DispStep, DispExpire, DispSweep, DispPick, DispTest,
       DispSend, DispSendFails, DispCommit, DispFail, DispReset
  <2>2. CASE k # d
    BY <2>2 DEF DispatcherRuns, DispStep, DispExpire, DispSweep, DispPick, DispTest,
       DispLook, DispSend, DispSendFails, DispCommit, DispFail, DispReset
  <2> QED BY <2>1, <2>2
<1>2. CASE UNCHANGED dispVars
  BY <1>2 DEF dispVars
<1>3. CASE \/ \E g \in Aggregators : AggregationRuns(g)
           \/ (\E n \in Agents : AgentRuns(n))
           \/ (\E p \in Settlers : SettlerRuns(p)) \/ OperatorDecides
           \/ (\E u \in Operators : OperatorCalls(u)) \/ MarkerTtl
           \/ AlertArrives \/ (\E s \in Services : LockExpires(s)) \/ Midnight
           \/ UNCHANGED vars
  BY <1>2, <1>3, AggregationWrites, AgentWrites, SettlerWrites, OperatorWrites,
     ArrivalWrites, ClockWrites DEF vars, reviewVars
<1>4. CASE Crash
  BY <1>4 DEF Crash, ReviewDies
<1> QED BY <1>1, <1>3, <1>4 DEF Next

LEMMA QuestionsAreRealStep ==
  ASSUME TypeInv, StatusInv, [Next]_vars PROVE QuestionsAreReal'
<1> USE HumanReviewAssumption
<1>1. ASSUME NEW r \in Requests, reqStatus'[r] # "absent"
      PROVE  Asks(reqInv[r], reqEvent[r])'
  <2>1. ASSUME NEW i \in Investigations, NEW e \in Events, Asks(i, e),
               reqInv'[r] = i, reqEvent'[r] = e
        PROVE  Asks(reqInv[r], reqEvent[r])'
    BY <2>1, AsksStays DEF Asks
  <2>2. CASE /\ reqStatus[r] # "absent"
             /\ reqEvent'[r] = reqEvent[r] /\ reqInv'[r] = reqInv[r]
    <3>1. reqInv[r] \in Investigations /\ reqEvent[r] \in Events
          /\ Asks(reqInv[r], reqEvent[r])
      BY <2>2 DEF TypeInv, RequestRows, StatusInv, QuestionsAreReal
    <3> QED BY <2>1, <2>2, <3>1
  <2>3. CASE \E d \in Dispatchers : \E c \in dispTodo[d] :
               reqEvent'[r] = c.event /\ reqInv'[r] = c.inv
    <3> PICK d \in Dispatchers :
          \E c \in dispTodo[d] : reqEvent'[r] = c.event /\ reqInv'[r] = c.inv
      BY <2>3
    <3> PICK c \in dispTodo[d] : reqEvent'[r] = c.event /\ reqInv'[r] = c.inv
      OBVIOUS
    <3>1. c.inv \in Investigations /\ c.event \in Events /\ Asks(c.inv, c.event)
      BY DEF TypeInv, TypeOK, ReviewTypeOK, Candidate, StatusInv, QuestionsAreReal
    <3> QED BY <2>1, <3>1
  <2> QED BY <1>1, <2>2, <2>3, RequestsStay
<1>2. ASSUME NEW d \in Dispatchers
      PROVE  /\ \A c \in dispTodo'[d] : Asks(c.inv, c.event)'
             /\ \A i \in dispReopen'[d] : \E e \in Events : Asks(i, e)'
  <2>1. \A c \in dispTodo[d] : Asks(c.inv, c.event)'
    <3> SUFFICES ASSUME NEW c \in dispTodo[d] PROVE Asks(c.inv, c.event)'
      OBVIOUS
    <3>1. c.inv \in Investigations /\ c.event \in Events /\ Asks(c.inv, c.event)
      BY DEF TypeInv, TypeOK, ReviewTypeOK, Candidate, StatusInv, QuestionsAreReal
    <3> QED BY <3>1, AsksStays DEF Asks
  <2>2. ASSUME NEW i \in dispReopen[d] PROVE \E e \in Events : Asks(i, e)'
    <3>1. i \in Investigations
      BY DEF TypeInv, TypeOK, ReviewTypeOK
    <3>2. PICK e \in Events : Asks(i, e)
      BY DEF StatusInv, QuestionsAreReal
    <3> QED BY <3>1, <3>2, AsksStays DEF Asks
  <2>3. CASE ~DispLook(d)
    BY <2>1, <2>2, <2>3, CandidatesAppear
  <2>4. CASE DispLook(d)
    <3> PICK e \in Events : e = dispTested[d]
      BY <2>4 DEF DispLook, TypeInv, TypeOK, ReviewTypeOK
    <3>1. /\ dispTodo'[d] = dispTodo[d] \cup
                {[event |-> e, inv |-> i] : i \in HumanInvestigation(e)}
          /\ dispReopen'[d] = dispReopen[d] \cup
                {i \in HumanInvestigation(e) : invStatus[i] # "needs_human"}
          /\ UNCHANGED <<invEvent, verdict>>
      BY <2>4 DEF DispLook, ReviewOthers, TypeInv, TypeOK, ReviewTypeOK
    <3>2. \A i \in HumanInvestigation(e) : Asks(i, e)'
      BY <3>1 DEF HumanInvestigation, IsLatest, Asks
    <3>3. \A c \in dispTodo'[d] : Asks(c.inv, c.event)'
      <4> SUFFICES ASSUME NEW c \in dispTodo'[d], c \notin dispTodo[d]
                   PROVE  Asks(c.inv, c.event)'
        BY <2>1
      <4> PICK i \in HumanInvestigation(e) : c = [event |-> e, inv |-> i]
        BY <3>1
      <4> QED BY <3>2 DEF Asks
    <3>4. \A i \in dispReopen'[d] : \E f \in Events : Asks(i, f)'
      BY <2>2, <3>1, <3>2
    <3> QED BY <3>3, <3>4
  <2> QED BY <2>3, <2>4
<1> QED BY <1>1, <1>2 DEF QuestionsAreReal

\* What a reply has loaded stays until it commits.
LEMMA FlushedStays ==
  ASSUME TypeInv, [Next]_vars, NEW u \in Operators, opPc'[u] \in {"flushed", "updated"},
         ~ReplyFlush(u)
  PROVE  /\ opPc[u] \in {"flushed", "updated"} /\ opReq'[u] = opReq[u]
         /\ opEvStatus'[u] = opEvStatus[u]
<1> USE DEF TypeInv, TypeOK, ReviewTypeOK
<1>1. CASE \E w \in Operators : OperatorCalls(w)
  <2> PICK w \in Operators : OperatorCalls(w)
    BY <1>1
  <2>1. CASE w = u
    BY <2>1 DEF OperatorCalls, OpStep, ReplyRead, ReplyUpdate, ReplyCommit, CancelRead,
       CancelCommit, OpFail, OpReset
  <2>2. CASE w # u
    BY <2>2 DEF OperatorCalls, OpStep, ReplyRead, ReplyFlush, ReplyUpdate, ReplyCommit,
       CancelRead, CancelCommit, OpFail, OpReset
  <2> QED BY <2>1, <2>2
<1>2. CASE UNCHANGED opVars
  BY <1>2 DEF opVars
<1>3. CASE \/ \E g \in Aggregators : AggregationRuns(g)
           \/ (\E n \in Agents : AgentRuns(n))
           \/ (\E d \in Dispatchers : DispatcherRuns(d))
           \/ (\E p \in Settlers : SettlerRuns(p)) \/ OperatorDecides
           \/ AlertArrives \/ (\E s \in Services : LockExpires(s)) \/ Midnight
           \/ UNCHANGED vars
  BY <1>2, <1>3, AggregationWrites, AgentWrites, DispatcherWrites, SettlerWrites,
     ArrivalWrites, ClockWrites DEF vars, reviewVars
<1>4. CASE MarkerTtl
  BY <1>2, <1>4 DEF MarkerTtl, MarkerExpires, reviewVars
<1>5. CASE Crash
  BY <1>5 DEF Crash, ReviewDies
<1> QED BY <1>1, <1>3, <1>4, <1>5 DEF Next

\* A committed request stays committed, about the same investigation of the same event.
LEMMA CommittedStays ==
  ASSUME TypeInv, StatusInv, [Next]_vars, NEW r \in Committed
  PROVE  /\ r \in Requests /\ r \in Committed'
         /\ reqEvent[r] \in Events /\ reqInv[r] \in Investigations
         /\ Asks(reqInv[r], reqEvent[r])
         /\ reqEvent'[r] = reqEvent[r] /\ reqInv'[r] = reqInv[r]
<1>1. /\ r \in Requests /\ reqStatus[r] # "absent"
      /\ reqEvent[r] \in Events /\ reqInv[r] \in Investigations
      /\ Asks(reqInv[r], reqEvent[r])
  BY DEF Committed, TypeInv, RequestRows, StatusInv, QuestionsAreReal
<1> QED BY <1>1, RequestsStay

\* A request about an investigation that is not the latest of its waiting event stays so,
\* and when the event comes to wait again every committed request is such a request.
LEMMA OutdatedStays ==
  ASSUME TypeInv, StatusInv, [Next]_vars, NEW r \in Committed,
         evStatus'[reqEvent[r]] = "human_pending",
         evStatus[reqEvent[r]] = "human_pending" => ~IsLatest(reqInv[r], reqEvent[r])
  PROVE  ~IsLatest(reqInv[r], reqEvent[r])'
<1> PICK e \in Events, i \in Investigations : e = reqEvent[r] /\ i = reqInv[r]
  BY CommittedStays
<1>1. invEvent[i] = e /\ reqEvent'[r] = e /\ reqInv'[r] = i
  BY CommittedStays DEF Asks
<1>2. ~IsLatest(i, e)'
  <2>1. CASE evStatus[e] = "human_pending"
    BY <1>1, <2>1, LatestWas DEF StatusInv
  <2>2. CASE evStatus[e] # "human_pending"
    BY <1>1, <2>2, WaitingAppears
  <2> QED BY <2>1, <2>2
<1> QED BY <1>1, <1>2 DEF IsLatest, InvestigationsOf

LEMMA RepliesAreUsefulStep ==
  ASSUME TypeInv, StatusInv, [Next]_vars PROVE RepliesAreUseful'
<1> SUFFICES ASSUME NEW u \in Operators, opPc'[u] \in {"flushed", "updated"},
                    opEvStatus'[u] = "pending_review",
                    evStatus'[reqEvent'[opReq'[u]]] = "human_pending"
             PROVE  ~IsLatest(reqInv[opReq[u]], reqEvent[opReq[u]])'
  BY DEF RepliesAreUseful
<1>1. /\ opPc[u] # "idle" /\ opReq'[u] = opReq[u]
      /\ evStatus[reqEvent[opReq[u]]] = "human_pending" =>
           ~IsLatest(reqInv[opReq[u]], reqEvent[opReq[u]])
  <2>1. CASE ReplyFlush(u)
    <3>1. /\ opEvStatus'[u] = evStatus[reqEvent[opReq[u]]]
          /\ opPc[u] = "replying" /\ opReq'[u] = opReq[u]
      BY <2>1 DEF ReplyFlush, TypeInv, TypeOK, ReviewTypeOK
    <3> QED BY <3>1
  <2>2. CASE ~ReplyFlush(u)
    BY <2>2, FlushedStays DEF StatusInv, RepliesAreUseful
  <2> QED BY <2>1, <2>2
<1> PICK r \in Committed : r = opReq[u]
  BY <1>1, OperatorAsks
<1>2. ~IsLatest(reqInv[r], reqEvent[r])'
  BY <1>1, OutdatedStays, CommittedStays
<1> QED BY <1>1, <1>2 DEF IsLatest, InvestigationsOf

\* Replies are recorded by their commits only.
LEMMA AnswersAppear ==
  ASSUME TypeInv, [Next]_vars
  PROVE  \/ answered' = answered
         \/ \E u \in Operators : ReplyCommit(u) /\ answered' = answered \cup {opReq[u]}
<1>1. CASE \/ \E g \in Aggregators : AggregationRuns(g)
           \/ (\E n \in Agents : AgentRuns(n))
           \/ (\E d \in Dispatchers : DispatcherRuns(d))
           \/ (\E p \in Settlers : SettlerRuns(p)) \/ OperatorDecides
           \/ AlertArrives \/ (\E s \in Services : LockExpires(s)) \/ Midnight
           \/ UNCHANGED vars
  BY <1>1, AggregationWrites, AgentWrites, DispatcherWrites, SettlerWrites,
     ArrivalWrites, ClockWrites DEF vars, storeVars, reqVars
<1>2. CASE (\E u \in Operators : OperatorCalls(u)) \/ MarkerTtl
  BY <1>2 DEF OperatorCalls, OpStep, ReplyRead, ReplyFlush, ReplyUpdate, ReplyCommit, CancelRead,
     CancelCommit, OpFail, Rollback, MarkerTtl, MarkerExpires, reqVars
<1>3. CASE Crash
  BY <1>3 DEF Crash
<1> QED BY <1>1, <1>2, <1>3 DEF Next

LEMMA AnswersStep ==
  ASSUME TypeInv, StatusInv, [Next]_vars
  PROVE  (answered \subseteq Committed)' /\ ReplyTakesEffect'
<1> USE HumanReviewAssumption
<1> SUFFICES ASSUME NEW r \in answered'
             PROVE  /\ r \in Committed'
                    /\ /\ ReinvestigationEnabled
                       /\ evStatus'[reqEvent'[r]] = "human_pending"
                       => ~IsLatest(reqInv[r], reqEvent[r])'
  BY DEF ReplyTakesEffect, IsLatest, InvestigationsOf
<1>1. CASE r \in answered
  <2>1. r \in Committed /\ reqEvent'[r] = reqEvent[r]
    BY <1>1, CommittedStays DEF StatusInv
  <2> QED BY <1>1, <2>1, CommittedStays, OutdatedStays DEF StatusInv, ReplyTakesEffect
<1>2. CASE r \notin answered
  <2> PICK u \in Operators : ReplyCommit(u) /\ r = opReq[u]
    BY <1>2, AnswersAppear
  <2>1. opPc[u] = "updated"
    BY DEF ReplyCommit
  <2>2. r \in Committed /\ reqEvent[r] \in Events
    BY <2>1, OperatorAsks
  <2>3. r \in Committed' /\ reqEvent'[r] = reqEvent[r]
    BY <2>2, CommittedStays
  <2>4. ASSUME ReinvestigationEnabled, evStatus'[reqEvent[r]] = "human_pending"
        PROVE  ~IsLatest(reqInv[r], reqEvent[r])'
    <3>1. ~Reopens(u)
      <4> SUFFICES ASSUME Reopens(u) PROVE FALSE
        OBVIOUS
      <4>1. evStatus' = [evStatus EXCEPT ![reqEvent[r]] = "pending_review"]
        BY DEF ReplyCommit
      <4> QED BY <2>2, <2>4, <4>1 DEF TypeInv, TypeOK, StoreTypeOK, EventTypeOK
    <3>2. opEvStatus[u] = "pending_review"
      BY <2>4, <3>1 DEF Reopens
    <3> QED BY <2>1, <2>2, <2>4, <3>2, OutdatedStays DEF StatusInv, RepliesAreUseful
  <2> QED BY <2>3, <2>4
<1> QED BY <1>1, <1>2

LEMMA StatusStep ==
  ASSUME TypeInv, SettleInv, StatusInv, [Next]_vars, "investigation" \in Reliable
  PROVE  StatusInv'
<1>1. AgentOwnsLock' /\ RowsAreReal'
  BY AgentLockStep, RowsStep DEF StatusInv
<1> QED BY <1>1, InvestigationsInOrderStep, SoundIsFinalStep, ConcludedIsSoundStep,
           WaitingAsksStep, BatchIsFreshStep, QuestionsAreRealStep, RepliesAreUsefulStep,
           AnswersStep
        DEF StatusInv

LEMMA StatusReached ==
  ASSUME "investigation" \in Reliable
  PROVE  Spec => [](TypeInv /\ SettleInv /\ StatusInv)
<1>1. Init => SettleInv /\ StatusInv
  BY InitSettle, InitStatus
<1>2. TypeInv /\ SettleInv /\ StatusInv /\ [Next]_vars => SettleInv' /\ StatusInv'
  BY SettleStep, StatusStep
<1> QED BY <1>1, <1>2, TypeInvariant, PTL DEF Spec

\* What the status of an event says is what its latest investigation found, although
\* three services and the API write the statuses of events and investigations from
\* values read before other commits: a concluded or closed event has a completed
\* investigation whose verdict can be settled, an event waiting for a human one that
\* asks for it.  For any number of runs, provided no investigation outlives its lock.
THEOREM StatusAgrees ==
  ASSUME "investigation" \in Reliable
  PROVE  Spec => []StatusAgreesWithInvestigation
<1>1. StatusInv => StatusAgreesWithInvestigation
  <2> SUFFICES ASSUME StatusInv, NEW e \in Events
               PROVE  /\ evStatus[e] \in {"concluded", "closed"} =>
                           \E i \in Investigations :
                             /\ IsLatest(i, e)
                             /\ invStatus[i] = "completed" /\ verdict[i] \in SettleVerdicts
                      /\ evStatus[e] = "human_pending" =>
                           \E i \in Investigations :
                             /\ IsLatest(i, e)
                             /\ verdict[i] \in HumanVerdicts
                             /\ ReinvestigationEnabled => invStatus[i] = "needs_human"
    BY DEF StatusAgreesWithInvestigation
  <2>1. CASE evStatus[e] \in {"concluded", "closed"}
    <3>1. PICK i \in Investigations : CanSettle(i, e)
      BY <2>1 DEF StatusInv, ConcludedIsSound
    <3>2. IsLatest(i, e) /\ invStatus[i] = "completed"
      BY <3>1 DEF StatusInv, SoundIsFinal
    <3> QED BY <2>1, <3>1, <3>2 DEF CanSettle
  <2>2. CASE evStatus[e] = "human_pending"
    BY <2>2 DEF StatusInv, WaitingAsks
  <2> QED BY <2>1, <2>2
<1> QED BY <1>1, StatusReached, PTL

\* A recorded reply takes its event out of HUMAN_PENDING until the event is judged again,
\* even when the dispatcher or a cancellation overwrites the request's own status, when
\* the reply was sent to an expired request or crossed another reply to the same event.
THEOREM RepliesTakeEffect ==
  ASSUME "investigation" \in Reliable
  PROVE  Spec => []ReplyTakesEffect
<1>1. StatusInv => ReplyTakesEffect
  BY DEF StatusInv
<1> QED BY <1>1, StatusReached, PTL

-----------------------------------------------------------------------------
(* The pipeline implements EventLife.  Each variable of the abstract life    *)
(* has a lemma that says what moves it.                                      *)

\* What has a case, or is about to get one, is an investigation that can be settled.
FiledInv ==
  \A i \in Investigations :
    (cases[i] > 0 \/ \E p \in Settlers : i \in assetCases[p]) =>
      \E e \in Events : CanSettle(i, e)

LEMMA CasesAppear ==
  ASSUME TypeInv, [Next]_vars, NEW i \in Investigations
  PROVE  /\ cases'[i] > 0 =>
              cases[i] > 0 \/ \E p \in Settlers : i \in assetCases[p]
         /\ \A p \in Settlers :
              i \in assetCases'[p] => i \in assetCases[p] \cup assetTodo[p]
<1> USE DEF TypeInv, TypeOK, StoreTypeOK, InvestigationTypeOK, AssetTypeOK
<1>1. CASE \A p \in Settlers : ~SettlerRuns(p)
  BY <1>1, OthersSettleNothing DEF settleVars, AssetDies
<1>2. CASE \E p \in Settlers : SettlerRuns(p)
  <2> PICK p \in Settlers : SettlerRuns(p)
    BY <1>2
  <2>1. CASE AssetFetch(p) \/ (\E e \in Events : AssetTest(p, e)) \/ AssetLook(p)
    BY <2>1 DEF AssetFetch, AssetTest, AssetLook, AssetReset
  <2>2. CASE \E j \in Investigations : AssetSettle(p, j) \/ AssetSettleFails(p, j)
    BY <2>2 DEF AssetSettle, AssetSettleFails, WithCase
  <2>3. CASE AssetCommit(p)
    BY <2>3 DEF AssetCommit, AssetReset
  <2> QED BY <2>1, <2>2, <2>3 DEF SettlerRuns, AssetStep
<1> QED BY <1>1, <1>2

LEMMA FiledStep ==
  ASSUME TypeInv, SettleInv, FiledInv, [Next]_vars PROVE FiledInv'
<1> SUFFICES ASSUME NEW i \in Investigations,
                    cases'[i] > 0 \/ \E p \in Settlers : i \in assetCases'[p]
             PROVE  \E e \in Events : CanSettle(i, e)'
  BY DEF FiledInv
<1>1. CASE cases[i] > 0 \/ \E p \in Settlers : i \in assetCases[p]
  BY <1>1, SettleableStays DEF FiledInv, SettleInv
<1>2. CASE \E p \in Settlers : i \in assetTodo[p]
  <2>1. invEvent[i] \in Events /\ CanSettle(i, invEvent[i])
    BY <1>2 DEF SettleInv, CanSettle
  <2> QED BY <2>1, SettleableStays DEF SettleInv
<1> QED BY <1>1, <1>2, CasesAppear

\* A sound judgment is what Findings tells of its event.
LEMMA SoundFinding ==
  ASSUME NEW i \in Investigations, NEW e \in Events, CanSettle(i, e)
  PROVE  Findings[e] = "sound"
BY DEF CanSettle, Findings, InvestigationsOf

\* The cases a step adds belong to events with a sound judgment.
LEMMA FiledGrows ==
  ASSUME TypeInv, SettleInv, StatusInv, FiledInv, [Next]_vars
  PROVE  Filed \subseteq Filed' /\ \A e \in Filed' \ Filed : Findings[e] = "sound"
<1>1. ASSUME NEW e \in Filed PROVE e \in Filed'
  <2> PICK i \in Investigations : invEvent[i] = e /\ cases[i] > 0
    BY DEF Filed, InvestigationsOf
  <2>1. e \in Events /\ invEvent'[i] = e
    BY InvestigationsStay, StoreAssumption DEF Filed, StatusInv, RowsAreReal
  <2>2. cases'[i] > 0
    BY CasesStay
  <2> QED BY <2>1, <2>2 DEF Filed, InvestigationsOf
<1>2. ASSUME NEW e \in Filed', e \notin Filed PROVE Findings[e] = "sound"
  <2> PICK i \in Investigations : e \in Events /\ invEvent'[i] = e /\ cases'[i] > 0
    BY DEF Filed, InvestigationsOf
  <2>1. cases[i] > 0 \/ \E p \in Settlers : i \in assetCases[p]
    BY CasesAppear
  <2>2. PICK f \in Events : CanSettle(i, f)
    BY <2>1 DEF FiledInv
  <2>3. f = e
    BY <2>2, SettleableStays DEF CanSettle, StatusInv
  <2> QED BY <2>2, <2>3, SoundFinding
<1> QED BY <1>1, <1>2

\* Where no case is added and no event is judged, Filed stays.
LEMMA FiledStays ==
  ASSUME TypeInv, SettleInv, StatusInv, FiledInv, [Next]_vars, UNCHANGED cases
  PROVE  UNCHANGED Filed
<1>1. ASSUME NEW e \in Filed' PROVE e \in Filed
  <2> PICK i \in Investigations : e \in Events /\ invEvent'[i] = e /\ cases[i] > 0
    BY DEF Filed, InvestigationsOf
  <2>1. PICK f \in Events : CanSettle(i, f)
    BY DEF FiledInv
  <2>2. f = e
    BY <2>1, SettleableStays DEF CanSettle, StatusInv
  <2> QED BY <2>1, <2>2 DEF Filed, InvestigationsOf, CanSettle
<1> QED BY <1>1, FiledGrows

\* Only the commit of an agent finds something.
LEMMA FindingsStay ==
  ASSUME TypeInv, [Next]_vars,
         ~\E n \in Agents, i \in Investigations, suggested \in BOOLEAN :
            AgentRuns(n) /\ AgentCommit(n, i, suggested)
  PROVE  UNCHANGED Findings
<1>1. \A i \in Investigations : invEvent'[i] = invEvent[i] /\ verdict'[i] = verdict[i]
  BY InvestigationsAppear
<1>2. \A e \in Events : InvestigationsOf(e)' = InvestigationsOf(e)
  BY <1>1 DEF InvestigationsOf
<1> QED BY <1>1, <1>2 DEF Findings, InvestigationsOf

LEMMA JudgmentFinds ==
  ASSUME TypeInv, NEW n \in Agents, NEW i \in Investigations, NEW e \in Events,
         NEW v \in Verdicts, Judges(n, i, e, v)
  PROVE  /\ Findings[e] # "sound"
         /\ Findings' = [Findings EXCEPT ![e] =
                           IF v \in SettleVerdicts THEN "sound" ELSE "unsure"]
<1>1. Findings[e] # "sound"
  BY DEF Judges, Undecided, CanSettle, Findings, InvestigationsOf
<1>2. /\ \A j \in Investigations : j # i => invEvent'[j] = invEvent[j]
      /\ \A j \in Investigations : j # i => verdict'[j] = verdict[j]
      /\ invEvent'[i] = e /\ verdict'[i] = v /\ invEvent[i] = None
  BY DEF Judges, TypeInv, TypeOK, StoreTypeOK, InvestigationTypeOK
<1>3. /\ i \in InvestigationsOf(e)'
      /\ \A j \in InvestigationsOf(e)' : j # i => verdict'[j] \notin SettleVerdicts
  BY <1>2 DEF Judges, Undecided, CanSettle, InvestigationsOf
<1>4. ASSUME NEW f \in Events, f # e
      PROVE  /\ InvestigationsOf(f)' = InvestigationsOf(f)
             /\ \A j \in InvestigationsOf(f) : verdict'[j] = verdict[j]
  BY <1>2, <1>4, StoreAssumption DEF InvestigationsOf
<1>5. Findings'[e] = IF v \in SettleVerdicts THEN "sound" ELSE "unsure"
  BY <1>2, <1>3 DEF Findings
<1>6. \A f \in Events : f # e => Findings'[f] = Findings[f]
  BY <1>4 DEF Findings
<1>7. Findings' = [f \in Events |-> Findings'[f]] /\ Findings = [f \in Events |-> Findings[f]]
  BY DEF Findings
<1> QED BY <1>1, <1>5, <1>6, <1>7

\* An event somebody replied to stays one.
LEMMA RepliedStays ==
  ASSUME TypeInv, StatusInv, [Next]_vars
  PROVE  /\ UNCHANGED answered => UNCHANGED Replied
         /\ \A r \in Committed : answered' = answered \cup {r} =>
              Replied' = Replied \cup {reqEvent[r]}
<1>1. \A r \in Committed : reqEvent'[r] = reqEvent[r]
  BY CommittedStays
<1>2. answered \subseteq Committed
  BY DEF StatusInv
<1> QED BY <1>1, <1>2 DEF Replied

LEMMA JudgmentImplements ==
  ASSUME TypeInv, SettleInv, StatusInv, FiledInv, [Next]_vars,
         NEW n \in Agents, NEW i \in Investigations, NEW suggested \in BOOLEAN,
         AgentRuns(n), AgentCommit(n, i, suggested)
  PROVE  \E e \in Events : Life!Judge(e)
<1> PICK e \in Events, v \in Verdicts : Judges(n, i, e, v)
  BY CommitIsFresh
<1>1. UNCHANGED <<Replied, Filed>>
  BY AgentWrites, RepliedStays, FiledStays
<1>2. /\ evStatus[e] = "pending_review"
      /\ evStatus' = [evStatus EXCEPT ![e] =
                        IF v \in SettleVerdicts THEN "concluded" ELSE "human_pending"]
  BY StoreAssumption DEF Judges, VERDICT_EVENT_STATUS
<1>3. /\ Findings[e] # "sound"
      /\ Findings' = [Findings EXCEPT ![e] =
                        IF v \in SettleVerdicts THEN "sound" ELSE "unsure"]
  BY JudgmentFinds
<1>4. Life!Judge(e)
  <2>1. CASE v \in SettleVerdicts
    BY <1>1, <1>2, <1>3, <2>1 DEF Life!Judge
  <2>2. CASE v \notin SettleVerdicts
    BY <1>1, <1>2, <1>3, <2>2 DEF Life!Judge
  <2> QED BY <2>1, <2>2
<1> QED BY <1>4

\* A reply that finds the event pending leaves its status alone.
LEMMA ReplyImplements ==
  ASSUME TypeInv, SettleInv, StatusInv, FiledInv, [Next]_vars,
         NEW u \in Operators, ReplyCommit(u)
  PROVE  \E e \in Events : Life!Reply(e)
<1>1. PICK r \in Committed, e \in Events, i \in Investigations :
        r = opReq[u] /\ e = reqEvent[r] /\ invEvent[i] = e
  BY OperatorAsks DEF ReplyCommit, Asks
<1>2. Findings[e] # "none"
  BY <1>1 DEF Findings, InvestigationsOf
<1>3. UNCHANGED <<Findings, Filed>>
  <2>1. UNCHANGED <<invEvent, verdict, cases>>
    BY DEF ReplyCommit, OpOthers, ReviewOthers, assetVars
  <2> QED BY <2>1, FiledStays DEF Findings, InvestigationsOf
<1>4. Replied' = Replied \cup {e}
  BY <1>1, RepliedStays DEF ReplyCommit
<1>5. \/ ReinvestigationEnabled /\ evStatus' = [evStatus EXCEPT ![e] = "pending_review"]
      \/ UNCHANGED evStatus
  BY <1>1 DEF ReplyCommit, Reopens
<1>6. Life!Reply(e)
  BY <1>2, <1>3, <1>4, <1>5 DEF Life!Reply
<1> QED BY <1>6

\* A commit of the settlement closes what it has on its list, less what another run has
\* closed since, and files the cases it added.
LEMMA SettlementImplements ==
  ASSUME TypeInv, SettleInv, StatusInv, FiledInv, [Next]_vars,
         NEW p \in Settlers, SettlerRuns(p), AssetCommit(p)
  PROVE  \E new, close \in SUBSET Events : Life!Settle(new, close)
<1> DEFINE new == Filed' \ Filed
           close == {e \in Events : evStatus'[e] # evStatus[e]}
<1>1. UNCHANGED <<Findings, Replied>>
  <2>1. UNCHANGED <<invEvent, verdict, answered>>
    BY SettlerWrites DEF invVars, reqVars
  <2> QED BY <2>1, RepliedStays DEF Findings, InvestigationsOf
<1>2. new \subseteq Events /\ Filed' = Filed \cup new /\ \A e \in new : Findings[e] = "sound"
  BY FiledGrows DEF Filed
<1>3. evStatus' = [e \in Events |-> IF e \in close THEN "closed" ELSE evStatus[e]]
  BY DEF AssetCommit
<1>4. ASSUME NEW e \in close PROVE Findings[e] = "sound" /\ e \in Filed'
  <2>1. e \in assetClose[p]
    BY <1>4 DEF AssetCommit
  <2>2. PICK i \in Investigations : i \in assetCases[p] \cup Settled /\ CanSettle(i, e)
    BY <2>1 DEF SettleInv
  <2>3. Findings[e] = "sound"
    BY <2>2, SoundFinding
  <2>4. cases'[i] > 0
    BY <2>2, CasesStay
       DEF AssetCommit, Settled, TypeInv, TypeOK, StoreTypeOK, InvestigationTypeOK
  <2>5. invEvent'[i] = e
    BY <2>2, SettleableStays DEF CanSettle, SettleInv
  <2> QED BY <2>3, <2>4, <2>5 DEF Filed, InvestigationsOf
<1>5. close \subseteq Events /\ close \subseteq Filed \cup new
  BY <1>2, <1>4
<1> HIDE DEF new, close
<1>6. Life!Settle(new, close)
  BY <1>1, <1>2, <1>3, <1>4, <1>5 DEF Life!Settle
<1> QED BY <1>2, <1>5, <1>6

\* A step that judges, replies and settles nothing may open one event.
LEMMA OthersImplement ==
  ASSUME TypeInv, SettleInv, StatusInv, FiledInv, [Next]_vars,
         ~\E n \in Agents, i \in Investigations, suggested \in BOOLEAN :
            AgentRuns(n) /\ AgentCommit(n, i, suggested),
         ~\E u \in Operators : ReplyCommit(u),
         ~\E p \in Settlers : SettlerRuns(p) /\ AssetCommit(p)
  PROVE  (\E e \in Events : Life!Open(e)) \/ UNCHANGED <<evStatus, Findings, Replied, Filed>>
<1>1. UNCHANGED <<Findings, Replied, Filed>>
  <2>1. UNCHANGED answered
    BY AnswersAppear
  <2>2. UNCHANGED cases
    <3>1. CASE \A p \in Settlers : ~SettlerRuns(p)
      BY <3>1, OthersSettleNothing
    <3>2. CASE \E p \in Settlers : SettlerRuns(p)
      BY <3>2 DEF SettlerRuns, AssetStep, AssetFetch, AssetTest, AssetLook, AssetSettle,
         AssetSettleFails
    <3> QED BY <3>1, <3>2
  <2> QED BY <2>1, <2>2, FindingsStay, RepliedStays, FiledStays
<1>2. \A e \in Events : evStatus'[e] # evStatus[e] =>
        evStatus[e] = "absent" /\ evStatus'[e] = "pending_review"
  BY EventMoves
<1>3. \A e, f \in Events :
        evStatus'[e] # evStatus[e] /\ evStatus'[f] # evStatus[f] => e = f
  BY <1>2, OneEventAppears DEF Existing
<1>4. evStatus \in [Events -> EventStatus] /\ evStatus' \in [Events -> EventStatus]
  BY NextTypes DEF TypeInv, TypeOK, StoreTypeOK, EventTypeOK
<1>5. CASE \A e \in Events : evStatus'[e] = evStatus[e]
  BY <1>1, <1>4, <1>5
<1>6. CASE \E e \in Events : evStatus'[e] # evStatus[e]
  <2> PICK e \in Events : evStatus'[e] # evStatus[e]
    BY <1>6
  <2>1. evStatus' = [evStatus EXCEPT ![e] = "pending_review"]
    BY <1>2, <1>3, <1>4
  <2> QED BY <1>1, <1>2, <2>1 DEF Life!Open
<1> QED BY <1>5, <1>6

LEMMA NextImplements ==
  ASSUME TypeInv, SettleInv, StatusInv, FiledInv, [Next]_vars
  PROVE  [Life!Next]_<<evStatus, Findings, Replied, Filed>>
BY JudgmentImplements, ReplyImplements, SettlementImplements, OthersImplement DEF Life!Next

\* Whatever the jobs, the API requests, the expiring locks and the crashes do to its
\* rows, an event lives the life EventLife describes: provided that no investigation
\* outlives its lock, for any number of events and runs of every service.
THEOREM PipelineImplementsLife ==
  ASSUME "investigation" \in Reliable
  PROVE  Spec => ImplementsEventLife
<1>1. Init => FiledInv /\ Life!Init
  <2> SUFFICES ASSUME Init PROVE FiledInv /\ Life!Init
    OBVIOUS
  <2>1. /\ \A i \in Investigations : invEvent[i] = None /\ cases[i] = 0
        /\ answered = {} /\ evStatus = [e \in Events |-> "absent"]
        /\ \A p \in Settlers : assetCases[p] = {}
    BY DEF Init, StoreInit, AssetInit
  <2>2. \A e \in Events : InvestigationsOf(e) = {}
    BY <2>1, StoreAssumption DEF InvestigationsOf
  <2>3. Replied = {} /\ Filed = {}
    BY <2>1, <2>2 DEF Replied, Filed
  <2>4. Findings = [e \in Events |-> "none"]
    BY <2>2 DEF Findings
  <2> QED BY <2>1, <2>3, <2>4 DEF FiledInv, Life!Init
<1>2. TypeInv /\ SettleInv /\ FiledInv /\ [Next]_vars => FiledInv'
  BY FiledStep
<1>3. TypeInv /\ SettleInv /\ StatusInv /\ FiledInv /\ [Next]_vars =>
        [Life!Next]_<<evStatus, Findings, Replied, Filed>>
  BY NextImplements
<1> QED BY <1>1, <1>2, <1>3, StatusReached, PTL
        DEF Spec, ImplementsEventLife, Life!Spec, Life!lifeVars

-----------------------------------------------------------------------------
(* Suggested dispositions and the closing of events.                         *)

\* An investigation of e with nothing it suggested left undecided.
Decided(i, e) == invEvent[i] = e /\ disposition[i] # "suggested"

\* An event is put on the list to close only together with, or after, the case of an
\* investigation that is decided; and nothing is suggested for it afterwards.
DecidedInv ==
  RequireDispositionConfirm =>
    \A e \in Events :
      /\ \A p \in Settlers : e \in assetClose[p] =>
           \E i \in Investigations : i \in assetCases[p] \cup Settled /\ Decided(i, e)
      /\ evStatus[e] = "closed" =>
           \E i \in Investigations : i \in Settled /\ Decided(i, e)

LEMMA InitDecided == Init => DecidedInv
BY DEF Init, StoreInit, AssetInit, DecidedInv

\* Only the commit of an investigation suggests a disposition.
LEMMA SuggestionsAppear ==
  ASSUME TypeInv, [Next]_vars, NEW i \in Investigations,
         disposition'[i] = "suggested", disposition[i] # "suggested"
  PROVE  \E n \in Agents, suggested \in BOOLEAN : AgentCommit(n, i, suggested)
<1> USE DEF TypeInv, TypeOK, StoreTypeOK, InvestigationTypeOK
<1>1. CASE \E n \in Agents : AgentRuns(n)
  BY <1>1 DEF AgentRuns, AgentStep, AgentPick, AgentBegin, AgentConclude, AgentCharge, AgentCommit,
     AgentFail, AgentEnd, AgentOthers, assetVars
<1>2. CASE \/ \E g \in Aggregators : AggregationRuns(g)
           \/ (\E d \in Dispatchers : DispatcherRuns(d))
           \/ (\E u \in Operators : OperatorCalls(u)) \/ MarkerTtl
           \/ AlertArrives \/ (\E s \in Services : LockExpires(s)) \/ Midnight
           \/ Crash \/ UNCHANGED vars
  BY <1>2, AggregationWrites, DispatcherWrites, OperatorWrites, ArrivalWrites, ClockWrites
  DEF assetVars, vars, storeVars, Crash
<1>3. CASE \E p \in Settlers : SettlerRuns(p)
  BY <1>3 DEF SettlerRuns, AssetStep, AssetFetch, AssetTest, AssetLook, AssetSettle, AssetSettleFails, AssetCommit
<1>4. CASE OperatorDecides
  BY <1>4 DEF OperatorDecides, DecideDisposition
<1> QED BY <1>1, <1>2, <1>3, <1>4 DEF Next

\* A decision is not taken back.
LEMMA DecidedStays ==
  ASSUME TypeInv, RowsAreReal, [Next]_vars, NEW i \in Investigations, NEW e \in Events,
         Decided(i, e)
  PROVE  Decided(i, e)'
<1>1. invStatus[i] # "absent" /\ invEvent'[i] = e
  BY InvestigationsStay, StoreAssumption DEF Decided, RowsAreReal
<1>2. ASSUME disposition'[i] = "suggested" PROVE FALSE
  <2> PICK n \in Agents, suggested \in BOOLEAN : AgentCommit(n, i, suggested)
    BY <1>2, SuggestionsAppear DEF Decided
  <2> QED BY <1>1 DEF AgentCommit, IsNext
<1> QED BY <1>1, <1>2 DEF Decided

\* A run lists an event to close only after the confirmation test of its investigation,
\* and keeps the case of a listed event until it commits.
LEMMA ClosuresAppear ==
  ASSUME TypeInv, [Next]_vars, NEW p \in Settlers, NEW e \in assetClose'[p]
  PROVE  \/ e \in assetClose[p] /\ assetCases[p] \subseteq assetCases'[p]
         \/ \E i \in Investigations :
              /\ i \in assetCases'[p] \cup Settled
              /\ invEvent[i] = e /\ ShouldClose(i)
<1> USE DEF TypeInv, TypeOK, AssetTypeOK
<1>1. CASE \E q \in Settlers : SettlerRuns(q)
  <2> PICK q \in Settlers : SettlerRuns(q)
    BY <1>1
  <2>1. CASE AssetFetch(q) \/ (\E f \in Events : AssetTest(q, f))
    BY <2>1 DEF AssetFetch, AssetTest
  <2>2. CASE AssetLook(q)
    <3>1. CASE AssetReset(q)
      BY <2>2, <3>1 DEF AssetReset
    <3>2. CASE ~AssetReset(q)
      <4>1. /\ UNCHANGED assetCases
            /\ assetClose' = [assetClose EXCEPT ![q] =
                 IF \E i \in {j \in Investigations : Settleable(j, assetTested[q])} \cap Settled :
                      LeftOpen(i)
                 THEN @ \cup {assetTested[q]} ELSE @]
        BY <2>2, <3>2 DEF AssetLook
      <4>2. CASE e \in assetClose[p]
        BY <4>1, <4>2
      <4>3. CASE e \notin assetClose[p]
        <5>1. /\ e = assetTested[q]
              /\ \E i \in {j \in Investigations : Settleable(j, e)} \cap Settled : LeftOpen(i)
          BY <4>1, <4>3
        <5> QED BY <5>1 DEF Settleable, LeftOpen
      <4> QED BY <4>2, <4>3
    <3> QED BY <3>1, <3>2
  <2>3. CASE \E i \in Investigations : AssetSettle(q, i)
    <3> PICK i \in Investigations : AssetSettle(q, i)
      BY <2>3
    <3>1. /\ assetCases' = [assetCases EXCEPT ![q] = @ \cup {i}]
          /\ assetClose' = [assetClose EXCEPT ![q] =
                              IF ShouldClose(i) THEN @ \cup {invEvent[i]} ELSE @]
      BY DEF AssetSettle, WithCase
    <3>2. assetCases[p] \subseteq assetCases'[p]
      BY <3>1
    <3>3. e \in assetClose[p]
          \/ (ShouldClose(i) /\ e = invEvent[i] /\ i \in assetCases'[p])
      BY <3>1
    <3> QED BY <3>2, <3>3
  <2>4. CASE \E i \in Investigations : AssetSettleFails(q, i)
    BY <2>4 DEF AssetSettleFails, WithCase
  <2>5. CASE AssetCommit(q)
    BY <2>5 DEF AssetCommit, AssetReset
  <2> QED BY <2>1, <2>2, <2>3, <2>4, <2>5 DEF SettlerRuns, AssetStep
<1>2. CASE \A q \in Settlers : ~SettlerRuns(q)
  <2>1. UNCHANGED settleVars \/ AssetDies
    BY <1>2, OthersSettleNothing
  <2> QED BY <2>1 DEF settleVars, AssetDies
<1> QED BY <1>1, <1>2

LEMMA DecidedStep ==
  ASSUME TypeInv, RowsAreReal, DecidedInv, [Next]_vars PROVE DecidedInv'
<1> SUFFICES ASSUME RequireDispositionConfirm, NEW e \in Events
             PROVE  /\ \A p \in Settlers : e \in assetClose'[p] =>
                         \E i \in Investigations :
                           i \in assetCases'[p] \cup Settled' /\ Decided(i, e)'
                    /\ evStatus'[e] = "closed" =>
                         \E i \in Investigations : i \in Settled' /\ Decided(i, e)'
  BY DEF DecidedInv
<1>1. \A i \in Investigations : Decided(i, e) => Decided(i, e)'
  BY DecidedStays
<1>2. Settled \subseteq Settled'
  BY CasesStay DEF Settled
<1>3. ASSUME NEW p \in Settlers, e \in assetClose'[p]
      PROVE  \E i \in Investigations :
               i \in assetCases'[p] \cup Settled' /\ Decided(i, e)'
  <2>1. CASE e \in assetClose[p] /\ assetCases[p] \subseteq assetCases'[p]
    BY <1>1, <1>2, <2>1 DEF DecidedInv
  <2>2. CASE \E i \in Investigations :
               /\ i \in assetCases'[p] \cup Settled
               /\ invEvent[i] = e /\ ShouldClose(i)
    <3> PICK i \in Investigations :
          /\ i \in assetCases'[p] \cup Settled
          /\ invEvent[i] = e /\ ShouldClose(i)
      BY <2>2
    <3>1. Decided(i, e)
      BY DEF ShouldClose, DispositionsResolved, Decided
    <3> QED BY <1>1, <1>2, <3>1
  <2> QED BY <1>3, <2>1, <2>2, ClosuresAppear
<1>4. ASSUME evStatus'[e] = "closed"
      PROVE  \E i \in Investigations : i \in Settled' /\ Decided(i, e)'
  <2>1. CASE evStatus[e] = "closed"
    BY <1>1, <1>2, <2>1 DEF DecidedInv
  <2>2. CASE evStatus[e] # "closed"
    <3>1. PICK p \in Settlers : AssetCommit(p) /\ e \in assetClose[p]
      BY <1>4, <2>2, EventMoves
    <3>2. PICK i \in Investigations : i \in assetCases[p] \cup Settled /\ Decided(i, e)
      BY <3>1 DEF DecidedInv
    <3>3. i \in Settled'
      BY <1>2, <3>1, <3>2
      DEF AssetCommit, Settled, TypeInv, TypeOK, StoreTypeOK, InvestigationTypeOK
    <3> QED BY <1>1, <3>2, <3>3
  <2> QED BY <2>1, <2>2
<1> QED BY <1>3, <1>4

\* Where disposition must be confirmed, no event is closed over a suggestion nobody has
\* decided: not by a run that tested another investigation, nor by one that finds the
\* case of an earlier run, nor when the investigation is added between two of its steps.
THEOREM ClosedAfterDecision == Spec => []ClosedIsDecided
<1>1. Init => RowsAreReal /\ DecidedInv
  BY InitSettle, InitDecided DEF SettleInv
<1>2. TypeInv /\ RowsAreReal /\ DecidedInv /\ [Next]_vars => RowsAreReal' /\ DecidedInv'
  BY RowsStep, DecidedStep
<1>3. DecidedInv => ClosedIsDecided
  BY DEF DecidedInv, Decided, ClosedIsDecided
<1> QED BY <1>1, <1>2, <1>3, TypeInvariant, PTL DEF Spec

-----------------------------------------------------------------------------
(* What health checks leave behind stays apart.                              *)

\* An investigation the pipeline may go on with: not one of the mock LLM, unless its
\* event got its first probe between two queries of a run.
RealResult(i) == invEvent[i] # None /\ (verdict[i] \notin MockVerdicts \/ invEvent[i] \in exposed)

\* The runs that settle investigation i, or have.
Settling(i) ==
  cases[i] > 0 \/ \E p \in Settlers : i \in assetTodo[p] \cup assetCases[p]

\* What a check works on is an event with a probe; what anybody else found is real.
ChecksWorkOnProbes ==
  /\ \A h \in HealthChecks :
       /\ agentTodo[h] \subseteq ProbeEvents
       /\ agentPc[h] \in {"investigating", "concluded", "charged"} =>
            agentEvent[h] \in ProbeEvents
  /\ \A n \in Agents \ HealthChecks : agentVerdict[n] \notin MockVerdicts

\* Every mark of a real result was made when its investigation was one, an event
\* that has a probe keeps it, and one that was tested has none or is exposed.
ApartInv ==
  /\ RowsAreReal
  /\ ChecksWorkOnProbes
  /\ \A i \in Investigations : verdict[i] \in MockVerdicts =>
       invEvent[i] \in Events /\ invEvent[i] \in ProbeEvents
  /\ \A e \in BetweenQueries : e \in ProbeEvents => e \in exposed
  /\ \A i \in Investigations : Settling(i) => RealResult(i)
  /\ \A r \in Requests : reqInv[r] # None => RealResult(reqInv[r])
  /\ \A d \in Dispatchers, c \in Candidate : c \in dispTodo[d] => RealResult(c.inv)

LEMMA InitApart == CheckInit => ApartInv
<1> SUFFICES ASSUME CheckInit PROVE ApartInv
  OBVIOUS
<1> USE StoreAssumption, HealthCheckAssumption
    DEF CheckInit, Init, StoreInit, AgentInit, ReviewInit, AssetInit
<1>1. ChecksWorkOnProbes
  BY DEF ChecksWorkOnProbes
<1>2. RowsAreReal /\ \A i \in Investigations : verdict[i] \notin MockVerdicts /\ ~Settling(i)
  BY DEF RowsAreReal, Settling
<1>3. BetweenQueries = {}
  BY DEF BetweenQueries
<1> QED BY <1>1, <1>2, <1>3 DEF ApartInv

\* A link is written once.
LEMMA ProbeEventsStay ==
  ASSUME TypeInv, [Next]_vars, NEW e \in Events, e \in ProbeEvents
  PROVE  e \in ProbeEvents'
<1> USE StoreAssumption DEF TypeInv, TypeOK, StoreTypeOK, AlertTypeOK
<1> PICK a \in Probes : link[a] = e
  BY DEF ProbeEvents
<1>1. CASE \E g \in Aggregators : AggregationRuns(g)
  <2>1. link'[a] = e
    BY <1>1 DEF AggregationRuns, AggStep, AggFetch, AggFind, AggCommit, UniqueAlertLink,
       AggConflict, AggEnd, alertVars
  <2> QED BY <2>1 DEF ProbeEvents
<1>2. CASE \A g \in Aggregators : ~AggregationRuns(g)
  <2>1. UNCHANGED link
    BY <1>2, OthersLinkNothing
  <2> QED BY <2>1 DEF ProbeEvents
<1> QED BY <1>1, <1>2

\* Who changes what the agents work on, and who charges the budget, when health checks
\* run.
LEMMA ProbedAgentSteps ==
  ASSUME TypeInv, [ProbedNext]_probedVars
  PROVE  \/ /\ used' \in {0, used}
            /\ \/ UNCHANGED agentVars
               \/ AgentDies
               \/ \E h \in HealthChecks : CheckFindsEvent(h)
         \/ \E h \in HealthChecks : CheckInvestigates(h)
         \/ \E n \in Agents \ HealthChecks : RealAgentRuns(n)
<1>1. CASE \E h \in HealthChecks : CheckRuns(h)
  <2> PICK h \in HealthChecks : CheckRuns(h)
    BY <1>1
  <2>1. CASE CheckStarts(h)
    BY <2>1, ArrivalWrites, StoreAssumption, HealthCheckAssumption
    DEF CheckStarts, AlertArrives, redisVars
  <2>2. CASE CheckAggregates(h)
    BY <2>2, AggregationWrites, HealthCheckAssumption, AggregationAssumption
    DEF CheckAggregates, AggregationRuns, AggStep, redisVars
  <2>3. CASE NothingToAggregate(h) \/ CheckStops(h)
    BY <2>3 DEF NothingToAggregate, CheckStops, vars, storeVars, redisVars
  <2>4. CASE CheckFindsEvent(h)
    BY <2>4, CheckFindsWrites DEF redisVars
  <2> QED BY <2>1, <2>2, <2>3, <2>4 DEF CheckRuns
<1>2. CASE \/ RealAlertArrives
           \/ \E g \in Aggregators \ HealthChecks : AggregationRuns(g)
           \/ \E d \in Dispatchers : DispatcherRuns(d)
           \/ (\E u \in Operators : OperatorCalls(u)) \/ MarkerTtl
           \/ (\E p \in Settlers : SettlerRuns(p)) \/ OperatorDecides
  <2>1. RealAlertArrives => AlertArrives
    BY DEF RealAlertArrives, AlertArrives
  <2> QED BY <1>2, <2>1, ArrivalWrites, AggregationWrites, DispatcherWrites, OperatorWrites,
             SettlerWrites
          DEF redisVars
<1>3. CASE (\E s \in Services : LockExpires(s)) \/ Midnight
  BY <1>3, ClockWrites DEF LockExpires, Midnight, redisVars
<1>4. CASE Crash
  BY <1>4 DEF Crash, redisVars
<1>5. CASE UNCHANGED probedVars
  BY <1>5 DEF probedVars, vars, storeVars, redisVars
<1> QED BY <1>1, <1>2, <1>3, <1>4, <1>5 DEF ProbedNext, ProbedStep

LEMMA ChecksWorkOnProbesStep ==
  ASSUME TypeInv, ChecksWorkOnProbes, [ProbedNext]_probedVars
  PROVE  ChecksWorkOnProbes'
<1> USE HealthCheckAssumption, StoreAssumption
    DEF TypeInv, TypeOK, StoreTypeOK, AlertTypeOK, AgentTypeOK
<1>1. ASSUME NEW e \in Events, e \in ProbeEvents PROVE e \in ProbeEvents'
  <2>1. CASE [Next]_vars
    BY <1>1, <2>1, ProbeEventsStay
  <2>2. CASE \E h \in HealthChecks : CheckFindsEvent(h)
    BY <1>1, <2>2, CheckFindsWrites DEF alertVars, ProbeEvents
  <2> QED BY <2>1, <2>2, ProbedSteps
<1>2. ASSUME NEW n \in Agents, NEW m \in Agents, n # m, AgentRuns(n)
      PROVE  /\ agentTodo'[m] = agentTodo[m] /\ agentPc'[m] = agentPc[m]
             /\ agentEvent'[m] = agentEvent[m] /\ agentVerdict'[m] = agentVerdict[m]
  BY <1>2 DEF AgentRuns, AgentStep, AgentPick, AgentBegin, AgentConclude, AgentCharge, AgentCommit,
     AgentForget, AgentFail, AgentEnd
<1>3. ASSUME NEW h \in HealthChecks, CheckInvestigates(h) PROVE AgentRuns(h)
  BY <1>3, InvestigationAssumption DEF CheckInvestigates, AgentRuns, AgentStep
<1>4. ASSUME NEW h \in HealthChecks
      PROVE  /\ agentTodo'[h] \subseteq ProbeEvents
             /\ agentPc'[h] \in {"investigating", "concluded", "charged"} =>
                  agentEvent'[h] \in ProbeEvents
  <2>0. /\ agentTodo[h] \subseteq ProbeEvents
        /\ agentPc[h] \in {"investigating", "concluded", "charged"} => agentEvent[h] \in ProbeEvents
    BY DEF ChecksWorkOnProbes
  <2>1. CASE UNCHANGED agentVars \/ AgentDies
    BY <2>0, <2>1 DEF agentVars, AgentDies
  <2>2. CASE \E k \in HealthChecks : CheckFindsEvent(k)
    <3>1. link[ProbeOf[h]] \in ProbeEvents
      BY DEF ProbeEvents
    <3> QED BY <2>0, <2>2, <3>1 DEF CheckFindsEvent
  <2>3. CASE CheckInvestigates(h)
    BY <2>0, <2>3 DEF CheckInvestigates, AgentBegin, AgentConclude, AgentCharge, AgentCommit, AgentFail,
       AgentEnd
  <2>4. CASE \E n \in Agents \ {h} : AgentRuns(n)
    BY <1>2, <2>0, <2>4
  <2> QED BY <1>3, <2>1, <2>2, <2>3, <2>4, ProbedAgentSteps DEF RealAgentRuns
<1>5. ASSUME NEW n \in Agents \ HealthChecks PROVE agentVerdict'[n] \notin MockVerdicts
  <2>0. agentVerdict[n] \notin MockVerdicts
    BY DEF ChecksWorkOnProbes
  <2>1. CASE UNCHANGED agentVars \/ AgentDies
    BY <2>0, <2>1 DEF agentVars, AgentDies
  <2>2. CASE \E k \in HealthChecks : CheckFindsEvent(k)
    BY <2>0, <2>2 DEF CheckFindsEvent
  <2>3. CASE \E m \in Agents \ {n} : AgentRuns(m)
    BY <1>2, <2>0, <2>3
  <2>4. CASE RealAgentRuns(n)
    BY <2>4 DEF RealAgentRuns
  <2> QED BY <1>3, <2>1, <2>2, <2>3, <2>4, ProbedAgentSteps DEF RealAgentRuns
<1>6. ASSUME NEW h \in HealthChecks
      PROVE  /\ agentTodo'[h] \subseteq ProbeEvents'
             /\ agentPc'[h] \in {"investigating", "concluded", "charged"} =>
                  agentEvent'[h] \in ProbeEvents'
  <2>1. /\ agentTodo'[h] \subseteq Events
        /\ agentPc'[h] \in {"investigating", "concluded", "charged"} => agentEvent'[h] \in Events
    BY ProbedTypes DEF AgentKnows
  <2> QED BY <1>1, <1>4, <2>1
<1> QED BY <1>5, <1>6 DEF ChecksWorkOnProbes

\* A commit of an agent that carries the mock verdict is a check's, on a probe's event.
LEMMA MockCommits ==
  ASSUME TypeInv, ChecksWorkOnProbes, NEW n \in Agents, NEW i \in Investigations,
         NEW suggested \in BOOLEAN, AgentCommit(n, i, suggested), verdict'[i] \in MockVerdicts
  PROVE  invEvent'[i] \in Events /\ invEvent'[i] \in ProbeEvents
<1>1. /\ agentPc[n] = "charged"
      /\ verdict' = [verdict EXCEPT ![i] = agentVerdict[n]]
      /\ invEvent' = [invEvent EXCEPT ![i] = agentEvent[n]]
  BY DEF AgentCommit
<1>2. verdict'[i] = agentVerdict[n] /\ invEvent'[i] = agentEvent[n]
  BY <1>1 DEF TypeInv, TypeOK, StoreTypeOK, InvestigationTypeOK
<1>3. n \in HealthChecks
  BY <1>2 DEF ChecksWorkOnProbes
<1> QED BY <1>1, <1>2, <1>3 DEF ChecksWorkOnProbes, TypeInv, AgentKnows

\* Only a look starts the settlement of an investigation.
LEMMA SettlementsAppear ==
  ASSUME TypeInv, [Next]_vars, NEW i \in Investigations, Settling(i)', ~Settling(i)
  PROVE  \E p \in Settlers : assetTested[p] # None /\ Settleable(i, assetTested[p])
<1> USE DEF TypeInv, TypeOK, StoreTypeOK, InvestigationTypeOK, AssetTypeOK
<1>1. cases[i] = 0 /\ \A p \in Settlers : i \notin assetTodo[p] \cup assetCases[p]
  BY DEF Settling
<1>2. cases'[i] > 0 \/ \E p \in Settlers : i \in assetTodo'[p] \cup assetCases'[p]
  BY DEF Settling
<1>3. CASE \E p \in Settlers : SettlerRuns(p)
  <2> PICK p \in Settlers : SettlerRuns(p)
    BY <1>3
  <2>1. CASE AssetFetch(p) \/ \E e \in Events : AssetTest(p, e)
    BY <1>1, <1>2, <2>1 DEF AssetFetch, AssetTest
  <2>2. CASE AssetLook(p)
    BY <1>1, <1>2, <2>2 DEF AssetLook, AssetReset
  <2>3. CASE \E j \in Investigations : AssetSettle(p, j) \/ AssetSettleFails(p, j)
    BY <1>1, <1>2, <2>3 DEF AssetSettle, AssetSettleFails, WithCase
  <2>4. CASE AssetCommit(p)
    BY <1>1, <1>2, <2>4 DEF AssetCommit, AssetReset
  <2> QED BY <2>1, <2>2, <2>3, <2>4 DEF SettlerRuns, AssetStep
<1>4. CASE \A p \in Settlers : ~SettlerRuns(p)
  <2>1. UNCHANGED cases /\ (UNCHANGED settleVars \/ AssetDies)
    BY <1>4, OthersSettleNothing
  <2> QED BY <1>1, <1>2, <2>1 DEF settleVars, AssetDies
<1> QED BY <1>3, <1>4

\* An event comes between the two queries of a run by a test that found no probe.
LEMMA TestsAppear ==
  ASSUME TypeInv, [Next]_vars, NEW e \in Events, e \in BetweenQueries', e \notin BetweenQueries
  PROVE  e \notin ProbeEvents /\ UNCHANGED ProbeEvents
<1> USE StoreAssumption DEF TypeInv, TypeOK, AssetTypeOK, ReviewTypeOK
<1>1. /\ \A p \in Settlers : assetTested[p] # e
      /\ \A d \in Dispatchers : dispTested[d] # e
  BY DEF BetweenQueries
<1>2. (\E p \in Settlers : assetTested'[p] = e) \/ (\E d \in Dispatchers : dispTested'[d] = e)
  BY DEF BetweenQueries
<1>3. CASE \E p \in Settlers : assetTested'[p] = e
  <2> PICK p \in Settlers : assetTested'[p] = e
    BY <1>3
  <2>1. CASE \E q \in Settlers : SettlerRuns(q)
    <3> PICK q \in Settlers : SettlerRuns(q)
      BY <2>1
    <3>1. CASE \E f \in Events : AssetTest(q, f)
      <4>1. e \notin ProbeEvents /\ UNCHANGED link
        BY <1>1, <3>1 DEF AssetTest, IsProbeEvent, AssetOthers, alertVars
      <4> QED BY <4>1 DEF ProbeEvents
    <3>2. CASE ~\E f \in Events : AssetTest(q, f)
      <4>1. assetTested'[p] \in {assetTested[p], None}
        BY <3>2 DEF SettlerRuns, AssetStep, AssetFetch, AssetLook, AssetReset, AssetSettle,
           AssetSettleFails, AssetCommit, pickVars
      <4> QED BY <1>1, <4>1
    <3> QED BY <3>1, <3>2
  <2>2. CASE \A q \in Settlers : ~SettlerRuns(q)
    <3>1. UNCHANGED settleVars \/ AssetDies
      BY <2>2, OthersSettleNothing
    <3> QED BY <1>1, <3>1 DEF settleVars, pickVars, AssetDies
  <2> QED BY <2>1, <2>2
<1>4. CASE \E d \in Dispatchers : dispTested'[d] = e
  <2> PICK d \in Dispatchers : dispTested'[d] = e
    BY <1>4
  <2>1. CASE \E k \in Dispatchers : DispatcherRuns(k)
    <3> PICK k \in Dispatchers : DispatcherRuns(k)
      BY <2>1
    <3>1. CASE \E f \in Events : DispTest(k, f)
      <4>1. e \notin ProbeEvents /\ UNCHANGED link
        BY <1>1, <3>1 DEF DispTest, IsProbeEvent, ReviewOthers, alertVars
      <4> QED BY <4>1 DEF ProbeEvents
    <3>2. CASE ~\E f \in Events : DispTest(k, f)
      <4>1. dispTested'[d] \in {dispTested[d], None}
        BY <3>2 DEF DispatcherRuns, DispStep, DispExpire, DispSweep, DispPick, DispLook,
           DispSend, DispSendFails, DispCommit, DispFail, DispReset, pickingVars
      <4> QED BY <1>1, <4>1
    <3> QED BY <3>1, <3>2
  <2>2. CASE UNCHANGED dispVars
    BY <1>1, <2>2 DEF dispVars, pickingVars
  <2>3. CASE Crash
    BY <1>1, <2>3 DEF Crash, ReviewDies
  <2>4. CASE \/ \E g \in Aggregators : AggregationRuns(g)
             \/ (\E n \in Agents : AgentRuns(n))
             \/ (\E p \in Settlers : SettlerRuns(p)) \/ OperatorDecides
             \/ (\E u \in Operators : OperatorCalls(u)) \/ MarkerTtl
             \/ AlertArrives \/ (\E s \in Services : LockExpires(s)) \/ Midnight
             \/ UNCHANGED vars
    BY <2>2, <2>4, AggregationWrites, AgentWrites, SettlerWrites, OperatorWrites,
       ArrivalWrites, ClockWrites DEF vars, reviewVars
  <2> QED BY <2>1, <2>3, <2>4 DEF Next
<1> QED BY <1>2, <1>3, <1>4

\* An event that gets its first probe between two queries is exposed.
LEMMA ExposedGrows ==
  ASSUME [ProbedNext]_probedVars
  PROVE  /\ exposed \subseteq exposed'
         /\ \A e \in BetweenQueries : e \in ProbeEvents' => e \in ProbeEvents \/ e \in exposed'
<1>1. CASE Exposes
  BY <1>1 DEF Exposes
<1>2. CASE UNCHANGED probedVars
  BY <1>2 DEF probedVars, vars, storeVars, alertVars, ProbeEvents
<1> QED BY <1>1, <1>2 DEF ProbedNext

LEMMA RealResultStays ==
  ASSUME TypeInv, RowsAreReal, [Next]_vars, exposed \subseteq exposed',
         NEW i \in Investigations, RealResult(i)
  PROVE  RealResult(i)'
BY InvestigationsStay DEF RealResult, RowsAreReal

LEMMA ApartStep ==
  ASSUME TypeInv, ApartInv, [ProbedNext]_probedVars PROVE ApartInv'
<1> USE StoreAssumption
<1>0. RowsAreReal /\ ChecksWorkOnProbes /\ ChecksWorkOnProbes'
  BY ChecksWorkOnProbesStep DEF ApartInv
<1>9. exposed \subseteq exposed'
  BY ExposedGrows
<1>1. CASE \E h \in HealthChecks : CheckFindsEvent(h)
  <2>1. UNCHANGED <<link, invStatus, invEvent, verdict, cases, assetTodo, assetTested, assetCases,
                    reqInv, dispTested, dispTodo>>
    BY <1>1, CheckFindsWrites
    DEF alertVars, invVars, assetVars, settleVars, pickVars, reqVars, reviewVars, dispVars, pickingVars
  <2>2. UNCHANGED <<ProbeEvents, BetweenQueries>>
    BY <2>1 DEF ProbeEvents, BetweenQueries
  <2>3. RowsAreReal'
    BY <1>0, <2>1 DEF RowsAreReal
  <2>4. ASSUME NEW i \in Investigations
        PROVE  (Settling(i)' => Settling(i)) /\ (RealResult(i) => RealResult(i)')
    BY <1>9, <2>1 DEF Settling, RealResult
  <2>5. \A r \in Requests : reqInv'[r] # None => RealResult(reqInv[r])'
    BY <1>9, <2>1 DEF ApartInv, RealResult
  <2>6. \A d \in Dispatchers, c \in Candidate : c \in dispTodo'[d] => RealResult(c.inv)'
    BY <1>9, <2>1 DEF ApartInv, RealResult
  <2> QED BY <1>0, <1>9, <2>1, <2>2, <2>3, <2>4, <2>5, <2>6 DEF ApartInv
<1>2. CASE [Next]_vars
  <2>1. RowsAreReal'
    BY <1>0, <1>2, RowsStep
  <2>2. ASSUME NEW i \in Investigations, verdict'[i] \in MockVerdicts
        PROVE  invEvent'[i] \in Events /\ invEvent'[i] \in ProbeEvents'
    <3>1. CASE invEvent'[i] = invEvent[i] /\ verdict'[i] = verdict[i]
      BY <1>2, <2>2, <3>1, ProbeEventsStay DEF ApartInv
    <3>2. CASE invEvent'[i] # invEvent[i] \/ verdict'[i] # verdict[i]
      <4> PICK n \in Agents, suggested \in BOOLEAN : AgentCommit(n, i, suggested)
        BY <1>2, <3>2, InvestigationsAppear
      <4>1. invEvent'[i] \in Events /\ invEvent'[i] \in ProbeEvents
        BY <1>0, <2>2, MockCommits
      <4> QED BY <1>2, <4>1, ProbeEventsStay
    <3> QED BY <3>1, <3>2
  <2>3. ASSUME NEW i \in Investigations, Settling(i)'
        PROVE  RealResult(i)'
    <3>1. CASE Settling(i)
      BY <1>0, <1>2, <1>9, <3>1, RealResultStays DEF ApartInv
    <3>2. CASE ~Settling(i)
      <4>1. PICK e \in BetweenQueries : invEvent[i] = e /\ e \in Events
        BY <1>2, <2>3, <3>2, SettlementsAppear
        DEF BetweenQueries, Settleable, TypeInv, TypeOK, AssetTypeOK
      <4>2. RealResult(i)
        BY <4>1 DEF ApartInv, RealResult
      <4> QED BY <1>0, <1>2, <1>9, <4>2, RealResultStays
    <3> QED BY <3>1, <3>2
  <2>4. ASSUME NEW d \in Dispatchers, NEW c \in Candidate, c \in dispTodo'[d]
        PROVE  RealResult(c.inv)'
    <3>1. RealResult(c.inv)
      <4>1. CASE DispLook(d) /\ c \notin dispTodo[d]
        <5>1. PICK e \in BetweenQueries, i \in Investigations :
                i \in HumanInvestigation(e) /\ c = [event |-> e, inv |-> i]
          <6>1. /\ dispTested[d] \in BetweenQueries
                /\ dispTodo'[d] = dispTodo[d] \cup
                     {[event |-> dispTested[d], inv |-> i] :
                        i \in HumanInvestigation(dispTested[d])}
            BY <4>1 DEF DispLook, BetweenQueries, TypeInv, TypeOK, ReviewTypeOK
          <6> QED BY <2>4, <4>1, <6>1 DEF HumanInvestigation
        <5>2. /\ e \in Events /\ i \in Investigations /\ invEvent[i] = e
              /\ c.inv = i
          BY <5>1 DEF HumanInvestigation, IsLatest, BetweenQueries
        <5> QED BY <5>1, <5>2 DEF ApartInv, RealResult
      <4>2. CASE ~DispLook(d) \/ c \in dispTodo[d]
        BY <1>2, <2>4, <4>2, CandidatesAppear DEF ApartInv
      <4> QED BY <4>1, <4>2
    <3>2. c.inv \in Investigations
      BY DEF Candidate
    <3>3. RealResult(c.inv)'
      BY <1>0, <1>2, <1>9, <3>1, <3>2, RealResultStays
    <3> QED BY <3>3
  <2>5. ASSUME NEW r \in Requests, reqInv'[r] # None
        PROVE  RealResult(reqInv[r])'
    <3>1. ASSUME NEW j \in Investigations, RealResult(j), reqInv'[r] = j
          PROVE  RealResult(reqInv[r])'
      BY <1>0, <1>2, <1>9, <3>1, RealResultStays DEF RealResult
    <3>2. CASE reqInv'[r] = reqInv[r]
      <4>1. reqInv[r] \in Investigations /\ RealResult(reqInv[r])
        BY <2>5, <3>2 DEF ApartInv, TypeInv, TypeOK, StoreTypeOK, RequestTypeOK
      <4> QED BY <3>1, <3>2, <4>1
    <3>3. CASE \E d \in Dispatchers : \E c \in dispTodo[d] : reqInv'[r] = c.inv
      <4> PICK d \in Dispatchers : \E c \in dispTodo[d] : reqInv'[r] = c.inv
        BY <3>3
      <4> PICK c \in dispTodo[d] : reqInv'[r] = c.inv
        OBVIOUS
      <4>1. c \in Candidate
        BY DEF TypeInv, TypeOK, ReviewTypeOK
      <4>2. c.inv \in Investigations /\ RealResult(c.inv)
        BY <4>1 DEF Candidate, ApartInv
      <4> QED BY <3>1, <4>2
    <3> QED BY <1>2, <3>2, <3>3, RequestsStay
  <2>6. ASSUME NEW e \in BetweenQueries', e \in ProbeEvents'
        PROVE  e \in exposed'
    <3>1. e \in Events
      BY DEF BetweenQueries
    <3>2. CASE e \in BetweenQueries
      BY <1>9, <2>6, <3>2, ExposedGrows DEF ApartInv
    <3>3. CASE e \notin BetweenQueries
      BY <1>2, <2>6, <3>1, <3>3, TestsAppear
    <3> QED BY <3>2, <3>3
  <2> QED BY <1>0, <2>1, <2>2, <2>3, <2>4, <2>5, <2>6 DEF ApartInv
<1> QED BY <1>1, <1>2, ProbedSteps

\* What the mock LLM of a health check found is neither settled into a judgment case nor
\* put before a human, although its probe may share an event with real alerts, be merged
\* into it while a settlement or a dispatcher works on that event, and be investigated
\* beside them: for any number of checks, overlapping ones included, runs and alerts, with
\* no lock assumed.  The one way through is the window between a run's probe test of an
\* event and its query for the investigation (defense_assets/pipeline.py:131-133,
\* human_review/service.py:286-288), when the event gets its first probe in it.
THEOREM ProbesApart == ProbedSpec => []ProbesStayApart
<1>1. ApartInv /\ TypeInv => ProbesStayApart
  <2> SUFFICES ASSUME ApartInv, TypeInv, NEW i \in Investigations, verdict[i] \in MockVerdicts,
                      invEvent[i] \notin exposed
               PROVE  cases[i] = 0 /\ \A r \in Requests : reqInv[r] # i
    BY DEF ProbesStayApart
  <2>1. ~RealResult(i)
    BY DEF RealResult
  <2>2. cases[i] = 0
    BY <2>1 DEF ApartInv, Settling, TypeInv, TypeOK, StoreTypeOK, InvestigationTypeOK
  <2>3. \A r \in Requests : reqInv[r] # i
    BY <2>1, StoreAssumption DEF ApartInv
  <2> QED BY <2>2, <2>3
<1>2. TypeInv /\ ApartInv /\ [ProbedNext]_probedVars => ApartInv'
  BY ApartStep
<1> QED BY <1>1, <1>2, InitApart, ProbedTypeInvariant, PTL DEF ProbedSpec, CheckInit

-----------------------------------------------------------------------------
(* How often an event is asked about.                                        *)

\* The events a dispatcher has picked and not sent a message about yet.
InHand(d) == Asking(d) \cup {c.event : c \in dispTodo[d]}

\* RequestCap by induction: what is counted at the pick stays the count until the run
\* commits, which adds at most one request to it.
CapInv ==
  /\ RequestCap
  /\ \A e \in Events : IsFiniteSet(RequestsOf(e))
  /\ \A d \in Dispatchers : \A e \in InHand(d) : Cardinality(RequestsOf(e)) <= MaxResend
  /\ \A r \in Drafts : Cardinality(RequestsOf(reqEvent[r])) <= MaxResend

LEMMA InitCap == Init => CapInv
<1> SUFFICES ASSUME Init PROVE CapInv
  OBVIOUS
<1>1. \A e \in Events : RequestsOf(e) = {}
  BY DEF Init, StoreInit, RequestsOf
<1>2. Drafts = {} /\ \A d \in Dispatchers : InHand(d) = {}
  BY DEF Init, StoreInit, ReviewInit, Drafts, InHand, Asking
<1>3. \A e \in Events : IsFiniteSet(RequestsOf(e)) /\ Cardinality(RequestsOf(e)) = 0
  BY <1>1, FS_EmptySet
<1>4. 0 <= MaxResend + 1
  BY HumanReviewAssumption
<1> QED BY <1>2, <1>3, <1>4 DEF CapInv, RequestCap

\* Only the commit of a dispatcher adds request rows: those of its drafts.
LEMMA RowsAppear ==
  ASSUME TypeInv, [Next]_vars, NEW r \in Committed', r \notin Committed
  PROVE  \E d \in Dispatchers : DispatcherRuns(d) /\ DispCommit(d) /\ r \in Drafts
<1> USE DEF TypeInv, TypeOK, StoreTypeOK, RequestTypeOK, Committed
<1>1. CASE \/ \E g \in Aggregators : AggregationRuns(g)
           \/ (\E p \in Settlers : SettlerRuns(p)) \/ OperatorDecides
           \/ AlertArrives \/ (\E s \in Services : LockExpires(s)) \/ Midnight
           \/ UNCHANGED vars
  BY <1>1, AggregationWrites, SettlerWrites, ArrivalWrites, ClockWrites
  DEF vars, storeVars, reqVars
<1>2. CASE \E n \in Agents : AgentRuns(n)
  BY <1>2 DEF AgentRuns, AgentStep, AgentPick, AgentBegin, AgentConclude, AgentCharge, AgentCommit,
     AgentFail, AgentEnd, Rollback, AgentKnows
<1>3. CASE (\E u \in Operators : OperatorCalls(u)) \/ MarkerTtl
  BY <1>3 DEF OperatorCalls, OpStep, ReplyRead, ReplyFlush, ReplyUpdate, ReplyCommit, CancelRead,
     CancelCommit, OpFail, Rollback, MarkerTtl, MarkerExpires, reqVars, ReviewKnows, opVars
<1>4. CASE Crash
  BY <1>4 DEF Crash, Rollback
<1>5. CASE \E d \in Dispatchers : DispatcherRuns(d)
  <2> PICK d \in Dispatchers : DispatcherRuns(d)
    BY <1>5
  <2>1. CASE \/ (\E S \in SUBSET Requests : DispExpire(d, S)) \/ DispSweep(d)
             \/ DispPick(d) \/ (\E e \in Events : DispTest(d, e)) \/ DispLook(d)
             \/ \E c \in Candidate : DispSendFails(d, c)
    BY <2>1 DEF DispExpire, DispSweep, DispPick, DispTest, DispLook, DispSendFails, reqVars
  <2>2. CASE \E c \in Candidate, q \in Requests : DispSend(d, c, q)
    BY <2>2 DEF DispSend
  <2>3. CASE DispCommit(d)
    BY <2>3 DEF DispCommit, ReviewKnows, Drafts
  <2>4. CASE DispFail(d)
    BY <2>4 DEF DispFail, Rollback
  <2> QED BY <2>1, <2>2, <2>3, <2>4 DEF DispatcherRuns, DispStep
<1> QED BY <1>1, <1>2, <1>3, <1>4, <1>5 DEF Next

\* Until then every event has the request rows it had.
LEMMA RowsStay ==
  ASSUME TypeInv, [Next]_vars, \A d \in Dispatchers : ~DispCommit(d), NEW e \in Events
  PROVE  RequestsOf(e)' = RequestsOf(e)
<1>1. Committed' = Committed
  BY RequestsStay, RowsAppear DEF Committed
<1>2. \A r \in Committed : reqEvent'[r] = reqEvent[r]
  BY RequestsStay DEF Committed
<1>3. RequestsOf(e) = {r \in Committed : reqEvent[r] = e}
  BY DEF RequestsOf, Committed
<1>4. RequestsOf(e)' = {r \in Committed' : reqEvent'[r] = e}
  BY DEF RequestsOf, Committed
<1> QED BY <1>1, <1>2, <1>3, <1>4

\* What a dispatcher has in hand comes from its pick.
LEMMA InHandAppears ==
  ASSUME TypeInv, [Next]_vars, NEW d \in Dispatchers, NEW e \in InHand(d)', e \notin InHand(d)
  PROVE  DispPick(d) /\ e \in DispatchCandidates(d)
<1> USE DEF TypeInv, TypeOK, ReviewTypeOK, InHand, Asking
<1>1. CASE \E k \in Dispatchers : DispatcherRuns(k)
  <2> PICK k \in Dispatchers : DispatcherRuns(k)
    BY <1>1
  <2>1. CASE k = d /\ DispPick(d)
    BY <2>1 DEF DispPick
  <2>2. CASE k = d /\ \E f \in Events : DispTest(d, f)
    BY <2>2 DEF DispTest
  <2>3. CASE k = d /\ DispLook(d)
    BY <2>3 DEF DispLook
  <2>4. CASE \/ k # d
             \/ (\E S \in SUBSET Requests : DispExpire(d, S)) \/ DispSweep(d)
             \/ (\E c \in Candidate, r \in Requests : DispSend(d, c, r))
             \/ (\E c \in Candidate : DispSendFails(d, c)) \/ DispCommit(d) \/ DispFail(d)
    <3>1. /\ dispPicked'[d] \subseteq dispPicked[d]
          /\ dispTested'[d] \in {dispTested[d], None}
          /\ dispTodo'[d] \subseteq dispTodo[d]
      <4>1. CASE k # d
        BY <4>1 DEF DispatcherRuns, DispStep, DispExpire, DispSweep, DispPick, DispTest,
           DispLook, DispSend, DispSendFails, DispCommit, DispFail, DispReset, pickingVars
      <4>2. CASE k = d
        BY <2>4, <4>2 DEF DispExpire, DispSweep, DispSend, DispSendFails, DispCommit,
           DispFail, DispReset, pickingVars
      <4> QED BY <4>1, <4>2
    <3> QED BY <3>1
  <2> QED BY <2>1, <2>2, <2>3, <2>4 DEF DispatcherRuns, DispStep
<1>2. CASE UNCHANGED dispVars
  BY <1>2 DEF dispVars, pickingVars
<1>3. CASE \/ \E g \in Aggregators : AggregationRuns(g)
           \/ (\E n \in Agents : AgentRuns(n))
           \/ (\E p \in Settlers : SettlerRuns(p)) \/ OperatorDecides
           \/ (\E u \in Operators : OperatorCalls(u)) \/ MarkerTtl
           \/ AlertArrives \/ (\E s \in Services : LockExpires(s)) \/ Midnight
           \/ UNCHANGED vars
  BY <1>2, <1>3, AggregationWrites, AgentWrites, SettlerWrites, OperatorWrites,
     ArrivalWrites, ClockWrites DEF vars, reviewVars
<1>4. CASE Crash
  BY <1>4 DEF Crash, ReviewDies
<1> QED BY <1>1, <1>2, <1>3, <1>4 DEF Next

LEMMA CapStep == ASSUME TypeInv, DispatchInv, CapInv, [Next]_vars PROVE CapInv'
<1> USE HumanReviewAssumption
<1>1. CASE \A d \in Dispatchers : ~DispCommit(d)
  <2>1. \A e \in Events : RequestsOf(e)' = RequestsOf(e)
    BY <1>1, RowsStay
  <2>2. ASSUME NEW e \in Events, Cardinality(RequestsOf(e)) <= MaxResend
        PROVE  Cardinality(RequestsOf(e)') <= MaxResend
    BY <2>1, <2>2
  <2>3. ASSUME NEW d \in Dispatchers, NEW e \in InHand(d)'
        PROVE  e \in Events /\ Cardinality(RequestsOf(e)) <= MaxResend
    <3>1. CASE e \in InHand(d)
      BY <3>1 DEF CapInv, InHand, Asking, TypeInv, TypeOK, ReviewTypeOK, Candidate
    <3>2. CASE e \notin InHand(d)
      <4>1. e \in DispatchCandidates(d)
        BY <2>3, <3>2, InHandAppears
      <4> QED BY <4>1 DEF DispatchCandidates
    <3> QED BY <3>1, <3>2
  <2>4. ASSUME NEW r \in Drafts'
        PROVE  reqEvent'[r] \in Events /\ Cardinality(RequestsOf(reqEvent'[r])) <= MaxResend
    <3>1. r \in Requests /\ reqStatus'[r] # "absent"
      BY DEF Drafts
    <3>2. CASE r \in Drafts /\ reqEvent'[r] = reqEvent[r]
      BY <3>1, <3>2 DEF CapInv, Drafts, TypeInv, RequestRows
    <3>3. CASE \E d \in Dispatchers : \E c \in dispTodo[d] :
                 dispPc[d] = "sending" /\ reqEvent'[r] = c.event
      BY <3>3 DEF CapInv, InHand, TypeInv, TypeOK, ReviewTypeOK, Candidate
    <3> QED BY <3>1, <3>2, <3>3, RequestsStay
  <2>5. RequestCap' /\ \A e \in Events : IsFiniteSet(RequestsOf(e)')
    BY <2>1 DEF CapInv, RequestCap
  <2>6. \A d \in Dispatchers : \A e \in InHand(d)' : Cardinality(RequestsOf(e))' <= MaxResend
    BY <2>1, <2>3
  <2>7. \A r \in Drafts' : Cardinality(RequestsOf(reqEvent[r]))' <= MaxResend
    BY <2>1, <2>4
  <2> QED BY <2>5, <2>6, <2>7 DEF CapInv
<1>2. CASE \E d \in Dispatchers : DispCommit(d)
  <2> PICK d \in Dispatchers : DispCommit(d)
    BY <1>2
  <2>1. /\ dispPc[d] = "sending" /\ UNCHANGED reqEvent
        /\ \A x \in Dispatchers : x # d => dispPc[x] = "idle"
        /\ \A r \in Drafts : reqLock[r] = d
    BY OneDispatcher DEF DispCommit, Sends
  <2>2. \A x \in Dispatchers : InHand(x)' = {}
    BY <2>1 DEF DispCommit, DispReset, TypeInv, TypeOK, ReviewTypeOK, InHand, Asking,
       DispatchInv, OneQuestion, NothingPicked
  <2>3. Drafts' = {}
    <3>1. \A r \in Requests : reqStatus'[r] # "draft"
      BY <2>1 DEF DispCommit, Drafts
    <3> QED BY <3>1 DEF Drafts
  <2>4. ASSUME NEW e \in Events
        PROVE  IsFiniteSet(RequestsOf(e)') /\ Cardinality(RequestsOf(e)') <= MaxResend + 1
    <3>0. /\ IsFiniteSet(RequestsOf(e)) /\ Cardinality(RequestsOf(e)) <= MaxResend + 1
          /\ Cardinality(RequestsOf(e)) \in Nat
      BY FS_CardinalityType DEF CapInv, RequestCap
    <3>1. RequestsOf(e)' \subseteq RequestsOf(e) \cup {r \in Drafts : reqEvent[r] = e}
      BY <2>1 DEF RequestsOf, DispCommit, Drafts, TypeInv, ReviewKnows, Committed
    <3>2. CASE \A r \in Drafts : reqEvent[r] # e
      <4>1. RequestsOf(e)' \subseteq RequestsOf(e)
        BY <3>1, <3>2
      <4>2. /\ IsFiniteSet(RequestsOf(e)')
            /\ Cardinality(RequestsOf(e)') <= Cardinality(RequestsOf(e))
        BY <3>0, <4>1, FS_Subset
      <4>3. Cardinality(RequestsOf(e)') \in Nat
        BY <4>2, FS_CardinalityType
      <4> QED BY <3>0, <4>2, <4>3, HumanReviewAssumption
    <3>3. CASE \E r \in Drafts : reqEvent[r] = e
      <4> PICK r \in Drafts : reqEvent[r] = e
        BY <3>3
      <4>1. \A q \in Drafts : reqEvent[q] = e => q = r
        BY <2>1 DEF DispatchInv, OneQuestion
      <4>2. RequestsOf(e)' \subseteq RequestsOf(e) \cup {r}
        BY <3>1, <4>1
      <4>3. /\ IsFiniteSet(RequestsOf(e) \cup {r})
            /\ Cardinality(RequestsOf(e) \cup {r}) <= Cardinality(RequestsOf(e)) + 1
            /\ Cardinality(RequestsOf(e) \cup {r}) \in Nat
        <5>1. IsFiniteSet(RequestsOf(e) \cup {r})
          BY <3>0, FS_AddElement
        <5>2. Cardinality(RequestsOf(e) \cup {r}) \in
                {Cardinality(RequestsOf(e)), Cardinality(RequestsOf(e)) + 1}
          BY <3>0, FS_AddElement
        <5> QED BY <3>0, <5>1, <5>2
      <4>4. Cardinality(RequestsOf(e)) <= MaxResend
        BY DEF CapInv
      <4>5. /\ IsFiniteSet(RequestsOf(e)')
            /\ Cardinality(RequestsOf(e)') <= Cardinality(RequestsOf(e) \cup {r})
            /\ Cardinality(RequestsOf(e)') \in Nat
        <5>1. /\ IsFiniteSet(RequestsOf(e)')
              /\ Cardinality(RequestsOf(e)') <= Cardinality(RequestsOf(e) \cup {r})
          BY <4>2, <4>3, FS_Subset
        <5> QED BY <5>1, FS_CardinalityType
      <4> QED BY <3>0, <4>3, <4>4, <4>5
    <3> QED BY <3>2, <3>3
  <2> QED BY <2>2, <2>3, <2>4 DEF CapInv, RequestCap
<1> QED BY <1>1, <1>2

\* A human is asked about an event at most max_resend times after the first, counting
\* expired, cancelled and answered requests alike: the count is taken once per run,
\* before messages leave and other services close requests, and all that a run sends is
\* committed at its end.  For any number of runs, provided none outlives the lock.
THEOREM RequestsAreCapped ==
  ASSUME "human_review" \in Reliable
  PROVE  Spec => []RequestCap
<1>1. Init => DispatchInv /\ CapInv
  BY InitDispatch, InitCap
<1>2. TypeInv /\ DispatchInv /\ CapInv /\ [Next]_vars => DispatchInv' /\ CapInv'
  BY NextDispatch, CapStep
<1>3. CapInv => RequestCap
  BY DEF CapInv
<1> QED BY <1>1, <1>2, <1>3, TypeInvariant, PTL DEF Spec

-----------------------------------------------------------------------------
(* The reviews and the budget while health checks run.                       *)

\* With health checks beside it the pipeline still has at most one open request for an
\* event and still asks at most max_resend times after the first: checks work in the
\* same tables, but neither on the requests nor under the dispatcher's lock.
THEOREM ProbedRequests ==
  ASSUME "human_review" \in Reliable
  PROVE  ProbedSpec => [](AtMostOneSent /\ RequestCap)
<1>1. Init => DispatchInv /\ CapInv
  BY InitDispatch, InitCap
<1>2. TypeInv /\ DispatchInv /\ CapInv /\ [ProbedNext]_probedVars => DispatchInv' /\ CapInv'
  <2>1. TypeInv /\ DispatchInv /\ CapInv /\ [Next]_vars => DispatchInv' /\ CapInv'
    BY NextDispatch, CapStep
  <2> SUFFICES ASSUME TypeInv, DispatchInv, CapInv, \E h \in HealthChecks : CheckFindsEvent(h)
               PROVE  DispatchInv' /\ CapInv'
    BY <2>1, ProbedSteps
  <2>2. UNCHANGED <<reqStatus, reqEvent, reqLock, lock, dispVars>>
    BY CheckFindsWrites DEF reqVars, reviewVars
  <2>3. DispatchInv'
    BY <2>2, QuietStep DEF Sent, Drafts, DispatchInv, DispatcherOwnsLock, dispVars,
       pickingVars
  <2>4. CapInv'
    BY <2>2 DEF CapInv, RequestCap, RequestsOf, Drafts, dispVars, pickingVars, InHand, Asking
  <2> QED BY <2>3, <2>4
<1>3. DispatchInv /\ CapInv => AtMostOneSent /\ RequestCap
  BY DEF DispatchInv, CapInv
<1> QED BY <1>1, <1>2, <1>3, ProbedTypeInvariant, PTL DEF ProbedSpec, CheckInit

\* What a check does to its own investigation is no business of the real agents, and as
\* the event it works on has a probe, it charges nothing.
LEMMA CheckChargesNothing ==
  ASSUME TypeInv, ChecksWorkOnProbes, NEW h \in HealthChecks, CheckInvestigates(h)
  PROVE  /\ UNCHANGED used
         /\ \A n \in Agents \ HealthChecks :
              /\ agentPc'[n] = agentPc[n] /\ agentTodo'[n] = agentTodo[n]
              /\ agentEvent'[n] = agentEvent[n]
<1> USE HealthCheckAssumption DEF TypeInv, TypeOK, AgentTypeOK, redisVars
<1>1. CASE (\E e \in Events : AgentBegin(h, e)) \/ (\E v \in MockVerdicts : AgentConclude(h, v))
  BY <1>1 DEF AgentBegin, AgentConclude
<1>2. CASE AgentCharge(h)
  <2>1. IsProbeEvent(agentEvent[h])
    BY <1>2 DEF AgentCharge, ChecksWorkOnProbes, IsProbeEvent
  <2> QED BY <1>2, <2>1 DEF AgentCharge
<1>3. CASE \E i \in Investigations : AgentCommit(h, i, FALSE)
  BY <1>3 DEF AgentCommit, AgentForget
<1>4. CASE AgentFail(h) \/ AgentEnd(h)
  BY <1>4 DEF AgentFail, AgentEnd, AgentForget
<1> QED BY <1>1, <1>2, <1>3, <1>4 DEF CheckInvestigates

LEMMA ProbedBudgetStep ==
  ASSUME TypeInv, SettleInv, ChecksWorkOnProbes, BudgetInv(Agents \ HealthChecks),
         [ProbedNext]_probedVars, "investigation" \in Reliable
  PROVE  BudgetInv(Agents \ HealthChecks)'
<1> DEFINE A == Agents \ HealthChecks
<1> HIDE DEF A
<1>0. A \in SUBSET Agents /\ BudgetInv(A) /\ A = Agents \ HealthChecks
  BY DEF A
<1>1. OwnLock(A)' /\ IsFiniteSet(Existing')
  <2>1. CASE [Next]_vars
    BY <1>0, <2>1, OwnLockStep, ExistingStaysFinite DEF BudgetInv
  <2>2. CASE \E h \in HealthChecks : CheckFindsEvent(h)
    <3>1. UNCHANGED <<lock, evStatus>> /\ \A n \in A : agentPc'[n] = agentPc[n]
      BY <1>0, <2>2, CheckFindsWrites
      DEF CheckFindsEvent, TypeInv, TypeOK, AgentTypeOK
    <3> QED BY <1>0, <3>1 DEF BudgetInv, OwnLock, Existing
  <2> QED BY <2>1, <2>2, ProbedSteps
<1>2. CASE \E n \in A : AgentRuns(n)
  <2>1. [Next]_vars
    BY <1>0, <1>2 DEF Next
  <2> QED BY <1>0, <1>2, <2>1, BudgetRuns
<1>3. CASE \E h \in HealthChecks : CheckInvestigates(h)
  BY <1>0, <1>1, <1>3, CheckChargesNothing, BudgetRests
<1>4. CASE /\ used' \in {0, used}
           /\ \/ UNCHANGED agentVars
              \/ AgentDies
              \/ \E h \in HealthChecks : CheckFindsEvent(h)
  <2>1. CASE \E h \in HealthChecks : CheckFindsEvent(h)
    <3>1. \A n \in A : /\ agentPc'[n] = agentPc[n] /\ agentTodo'[n] = agentTodo[n]
                       /\ agentEvent'[n] = agentEvent[n]
      BY <1>0, <2>1 DEF CheckFindsEvent, TypeInv, TypeOK, AgentTypeOK
    <3> QED BY <1>0, <1>1, <1>4, <3>1, BudgetRests
  <2>2. CASE UNCHANGED agentVars \/ AgentDies
    BY <1>0, <1>1, <1>4, <2>2, BudgetRests DEF agentVars
  <2> QED BY <1>4, <2>1, <2>2
<1>5. BudgetInv(A)'
  BY <1>0, <1>2, <1>3, <1>4, ProbedAgentSteps DEF RealAgentRuns
<1> QED BY <1>0, <1>5

\* Health checks investigate without the job's lock and outside its batch, beside a run
\* that is spending the budget, and the counter still never passes daily_budget: what
\* they investigate is a probe's event, which is never charged.
THEOREM ProbedBudget ==
  ASSUME "investigation" \in Reliable
  PROVE  ProbedSpec => []BudgetRespected
<1> DEFINE PInv == SettleInv /\ ChecksWorkOnProbes /\ BudgetInv(Agents \ HealthChecks)
<1>1. CheckInit => PInv
  BY InitSettle, InitApart, InitBudget DEF ApartInv, CheckInit
<1>2. TypeInv /\ PInv /\ [ProbedNext]_probedVars => PInv'
  <2> SUFFICES ASSUME TypeInv, PInv, [ProbedNext]_probedVars PROVE PInv'
    OBVIOUS
  <2>1. SettleInv'
    <3>1. CASE [Next]_vars
      BY <3>1, SettleStep
    <3>2. CASE \E h \in HealthChecks : CheckFindsEvent(h)
      <4>1. UNCHANGED <<evStatus, invEvent, invStatus, verdict, link, cases, assetVars,
                        settleVars>>
        BY <3>2, CheckFindsWrites DEF alertVars, invVars, assetVars
      <4> QED BY <4>1 DEF SettleInv, RowsAreReal, ClosedHasCase, CanSettle, Settled, settleVars,
           pickVars, Fetching
    <3> QED BY <3>1, <3>2, ProbedSteps
  <2>2. ChecksWorkOnProbes' /\ BudgetInv(Agents \ HealthChecks)'
    BY ChecksWorkOnProbesStep, ProbedBudgetStep
  <2> QED BY <2>1, <2>2
<1>3. PInv => BudgetRespected
  BY DEF BudgetInv
<1> QED BY <1>1, <1>2, <1>3, ProbedTypeInvariant, PTL DEF ProbedSpec, CheckInit
=============================================================================
