---------------------------- MODULE HumanReview -----------------------------
(***************************************************************************)
(* HumanReviewService: the dispatcher's run (expire, sweep, pick, send,    *)
(* one commit at the end), and the unlocked API calls handle_reply and     *)
(* cancel_request.  A dispatcher that has flushed its expirations and      *)
(* cancellations holds those rows until its commit, IM messages leave      *)
(* before it, and nothing it read is read again.                           *)
(***************************************************************************)
EXTENDS EventStore

CONSTANTS
  Dispatchers,             \* runs of the dispatcher: the job and POST /run
  Operators,               \* API requests: replies and cancellations
  MaxResend,               \* human_review.max_resend
  ReinvestigationEnabled   \* human_review.reinvestigation_enabled

ASSUME HumanReviewAssumption ==
  /\ Dispatchers \subseteq Workers
  /\ Operators \subseteq Workers
  /\ Dispatchers \cap Operators = {}
  /\ MaxResend \in Nat
  /\ ReinvestigationEnabled \in BOOLEAN

VARIABLES
  dispPc,      \* where each dispatcher run is
  dispExpire,  \* the rows it sets to EXPIRED
  dispCancel,  \* the rows it sets to CANCELLED
  dispPicked,  \* events it has picked and not looked at yet
  dispTested,  \* the one of them that was no probe when it asked, or None
  dispTodo,    \* candidates not sent yet: [event, inv] as read by the pick
  dispReopen,  \* investigations it sets back to NEEDS_HUMAN
  opPc,        \* where each API request is
  opReq,       \* the request row it works on, or None
  opEvStatus,  \* Event.status as the reply loaded it
  opInvStatus  \* Investigation.status as the reply loaded it

pickingVars == <<dispPicked, dispTested>>
dispVars == <<dispPc, dispExpire, dispCancel, pickingVars, dispTodo, dispReopen>>
opVars   == <<opPc, opReq, opEvStatus, opInvStatus>>
reviewVars == <<dispVars, opVars>>

Candidate == [event : Events, inv : Investigations]

ReviewTypeOK ==
  /\ dispPc \in [Dispatchers -> {"idle", "expiring", "swept", "sending"}]
  /\ dispExpire \in [Dispatchers -> SUBSET Requests]
  /\ dispCancel \in [Dispatchers -> SUBSET Requests]
  /\ dispPicked \in [Dispatchers -> SUBSET Events]
  /\ dispTested \in [Dispatchers -> Events \cup {None}]
  /\ dispTodo \in [Dispatchers -> SUBSET Candidate]
  /\ dispReopen \in [Dispatchers -> SUBSET Investigations]
  /\ opPc \in [Operators -> {"idle", "replying", "flushed", "updated", "cancelling"}]
  /\ opReq \in [Operators -> Requests \cup {None}]
  /\ opEvStatus \in [Operators -> EventStatus \cup {None}]
  /\ opInvStatus \in [Operators -> InvestigationStatus \cup {None}]

ReviewInit ==
  /\ dispPc = [d \in Dispatchers |-> "idle"]
  /\ dispExpire = [d \in Dispatchers |-> {}]
  /\ dispCancel = [d \in Dispatchers |-> {}]
  /\ dispPicked = [d \in Dispatchers |-> {}]
  /\ dispTested = [d \in Dispatchers |-> None]
  /\ dispTodo = [d \in Dispatchers |-> {}]
  /\ dispReopen = [d \in Dispatchers |-> {}]
  /\ opPc = [u \in Operators |-> "idle"]
  /\ opReq = [u \in Operators |-> None]
  /\ opEvStatus = [u \in Operators |-> None]
  /\ opInvStatus = [u \in Operators |-> None]

\* The process dies: its runs and API requests are gone.
ReviewDies ==
  /\ dispPc' = [d \in Dispatchers |-> "idle"]
  /\ dispExpire' = [d \in Dispatchers |-> {}]
  /\ dispCancel' = [d \in Dispatchers |-> {}]
  /\ dispPicked' = [d \in Dispatchers |-> {}]
  /\ dispTested' = [d \in Dispatchers |-> None]
  /\ dispTodo' = [d \in Dispatchers |-> {}]
  /\ dispReopen' = [d \in Dispatchers |-> {}]
  /\ opPc' = [u \in Operators |-> "idle"]
  /\ opReq' = [u \in Operators |-> None]
  /\ opEvStatus' = [u \in Operators |-> None]
  /\ opInvStatus' = [u \in Operators |-> None]

\* The store variables no dispatcher or reply step writes.
ReviewOthers == <<alertVars, invEvent, verdict, seen, assetVars, used>>

-----------------------------------------------------------------------------
(* The dispatcher                                                            *)

DispReset(d) ==
  /\ dispPc' = [dispPc EXCEPT ![d] = "idle"]
  /\ dispExpire' = [dispExpire EXCEPT ![d] = {}]
  /\ dispCancel' = [dispCancel EXCEPT ![d] = {}]
  /\ dispPicked' = [dispPicked EXCEPT ![d] = {}]
  /\ dispTested' = [dispTested EXCEPT ![d] = None]
  /\ dispTodo' = [dispTodo EXCEPT ![d] = {}]
  /\ dispReopen' = [dispReopen EXCEPT ![d] = {}]

\* The rows d has decided to take out of SENT; its own queries see them gone.
Removed(d) == dispExpire[d] \cup dispCancel[d]

\* _expire_stale_requests: which SENT rows are older than timeout_hours is a
\* free choice, time being abstracted.
DispExpire(d, S) ==
  /\ dispPc[d] = "idle"
  /\ AcquireLock("human_review", d)
  /\ S \subseteq Sent
  /\ dispExpire' = [dispExpire EXCEPT ![d] = S]
  /\ dispPc' = [dispPc EXCEPT ![d] = "expiring"]
  /\ UNCHANGED <<dispCancel, pickingVars, dispTodo, dispReopen, opVars, evStatus, invStatus,
                 reqVars, rowLock, marker, faults, ReviewOthers>>

\* Mutant: the sweep looks at the investigation and forgets the event's status.
Obsolete_OnlyOlder(r) == ~IsLatest(reqInv[r], reqEvent[r])

\* cancel_all_obsolete_sent_reviews: the event no longer waits for a human, or
\* the request belongs to an older investigation.
Obsolete(r) ==
  \/ evStatus[reqEvent[r]] # "human_pending"
  \/ ~IsLatest(reqInv[r], reqEvent[r])

\* Autoflush of the expirations, then the SELECT of the sweep.
DispSweep(d) ==
  /\ dispPc[d] = "expiring"
  /\ \A r \in dispExpire[d] : RequestRowFree(r, d)
  /\ reqLock' = [r \in Requests |-> IF r \in dispExpire[d] THEN d ELSE reqLock[r]]
  /\ dispCancel' = [dispCancel EXCEPT ![d] =
                      {r \in Sent \ dispExpire[d] : Obsolete(r)}]
  /\ dispPc' = [dispPc EXCEPT ![d] = "swept"]
  /\ UNCHANGED <<dispExpire, pickingVars, dispTodo, dispReopen, opVars, evStatus,
                 invStatus, reqStatus, reqEvent, reqInv, answered, rowLock, lock, marker,
                 faults, ReviewOthers>>

\* Mutant: without the NOT EXISTS.
DispatchCandidates_NoSentTest(d) ==
  {e \in Events :
     /\ evStatus[e] = "human_pending"
     /\ Cardinality(RequestsOf(e)) <= MaxResend}

\* Mutant: the resend limit off by one.
DispatchCandidates_OneMore(d) ==
  {e \in Events :
     /\ evStatus[e] = "human_pending"
     /\ \A r \in Sent \ Removed(d) : reqEvent[r] # e
     /\ Cardinality(RequestsOf(e)) <= MaxResend + 1}

\* The WHERE clause of _pick_dispatch_candidates, in d's transaction.
DispatchCandidates(d) ==
  {e \in Events :
     /\ evStatus[e] = "human_pending"
     /\ \A r \in Sent \ Removed(d) : reqEvent[r] # e
     /\ Cardinality(RequestsOf(e)) <= MaxResend}

\* Autoflush of the cancellations, then the pick.  The batch limit is left out.
DispPick(d) ==
  /\ dispPc[d] = "swept"
  /\ \A r \in dispCancel[d] : RequestRowFree(r, d)
  /\ reqLock' = [r \in Requests |-> IF r \in dispCancel[d] THEN d ELSE reqLock[r]]
  /\ dispPicked' = [dispPicked EXCEPT ![d] = DispatchCandidates(d)]
  /\ dispPc' = [dispPc EXCEPT ![d] = "sending"]
  /\ UNCHANGED <<dispExpire, dispCancel, dispTested, dispTodo, dispReopen, opVars,
                 evStatus, invStatus, reqStatus, reqEvent, reqInv, answered, rowLock,
                 lock, marker, faults, ReviewOthers>>

\* Is the next event a probe?
DispTest(d, e) ==
  /\ e \in dispPicked[d]
  /\ dispTested[d] = None
  /\ dispPicked' = [dispPicked EXCEPT ![d] = @ \ {e}]
  /\ dispTested' = [dispTested EXCEPT ![d] = IF IsProbeEvent(e) THEN None ELSE e]
  /\ UNCHANGED <<dispPc, dispExpire, dispCancel, dispTodo, dispReopen, opVars, evStatus,
                 invStatus, reqVars, rowLock, lock, marker, faults, ReviewOthers>>

\* _latest_human_investigation: the latest one of e, if its verdict asks for a human.
HumanInvestigation(e) ==
  {i \in Investigations : IsLatest(i, e) /\ verdict[i] \in HumanVerdicts}

\* What the query returns is sent later, and set back to NEEDS_HUMAN if it is not.
DispLook(d) ==
  LET e == dispTested[d]
  IN  /\ e # None
      /\ dispTested' = [dispTested EXCEPT ![d] = None]
      /\ dispTodo' = [dispTodo EXCEPT ![d] =
            @ \cup {[event |-> e, inv |-> i] : i \in HumanInvestigation(e)}]
      /\ dispReopen' = [dispReopen EXCEPT ![d] =
            @ \cup {i \in HumanInvestigation(e) : invStatus[i] # "needs_human"}]
      /\ UNCHANGED <<dispPc, dispExpire, dispCancel, dispPicked, opVars, evStatus,
                     invStatus, reqVars, rowLock, lock, marker, faults, ReviewOthers>>

\* _pick_dispatch_candidates has returned.
Sends(d) == dispPc[d] = "sending" /\ dispPicked[d] = {} /\ dispTested[d] = None

\* _dispatch_one: the message leaves under a fresh id and the row is added to
\* the session.
DispSend(d, c, r) ==
  /\ Sends(d)
  /\ c \in dispTodo[d]
  /\ IsNext(r, Requests, reqStatus)
  /\ reqStatus' = [reqStatus EXCEPT ![r] = "draft"]
  /\ reqEvent' = [reqEvent EXCEPT ![r] = c.event]
  /\ reqInv' = [reqInv EXCEPT ![r] = c.inv]
  /\ reqLock' = [reqLock EXCEPT ![r] = d]
  /\ dispTodo' = [dispTodo EXCEPT ![d] = @ \ {c}]
  /\ UNCHANGED <<dispPc, dispExpire, dispCancel, pickingVars, dispReopen, opVars,
                 evStatus, invStatus, answered, rowLock, lock, marker, faults,
                 ReviewOthers>>

\* send_review_request reports failure: run counts the error and goes on.
DispSendFails(d, c) ==
  /\ Sends(d)
  /\ c \in dispTodo[d]
  /\ Fault
  /\ dispTodo' = [dispTodo EXCEPT ![d] = @ \ {c}]
  /\ dispReopen' = [dispReopen EXCEPT ![d] = @ \ {c.inv}]
  /\ UNCHANGED <<dispPc, dispExpire, dispCancel, pickingVars, opVars, evStatus,
                 invStatus, reqVars, rowLock, lock, marker, ReviewOthers>>

DispCommit(d) ==
  /\ Sends(d)
  /\ dispTodo[d] = {}
  /\ reqStatus' = [r \in Requests |->
        CASE r \in dispExpire[d] -> "expired"
          [] r \in dispCancel[d] -> "cancelled"
          [] reqStatus[r] = "draft" /\ reqLock[r] = d -> "sent"
          [] OTHER -> reqStatus[r]]
  /\ reqLock' = [r \in Requests |-> IF reqLock[r] = d THEN None ELSE reqLock[r]]
  /\ invStatus' = [i \in Investigations |->
        IF i \in dispReopen[d] THEN "needs_human" ELSE invStatus[i]]
  /\ DispReset(d)
  /\ ReleaseLock("human_review", d)
  /\ UNCHANGED <<opVars, evStatus, reqEvent, reqInv, answered, rowLock, marker,
                 faults, ReviewOthers>>

\* An exception outside the per-event try: the job rolls back, messages that
\* left are answered to nobody.
DispFail(d) ==
  /\ dispPc[d] # "idle"
  /\ Fault
  /\ Rollback({d})
  /\ DispReset(d)
  /\ ReleaseLock("human_review", d)
  /\ UNCHANGED <<opVars, evStatus, invStatus, reqEvent, reqInv, answered, marker,
                 ReviewOthers>>

DispStep(d) ==
  \/ \E S \in SUBSET Requests : DispExpire(d, S)
  \/ DispSweep(d)
  \/ DispPick(d)
  \/ \E e \in Events : DispTest(d, e)
  \/ DispLook(d)
  \/ \E c \in Candidate, r \in Requests : DispSend(d, c, r)
  \/ \E c \in Candidate : DispSendFails(d, c)
  \/ DispCommit(d)
  \/ DispFail(d)

-----------------------------------------------------------------------------
(* API requests                                                              *)

\* Everything but the operator's own variables and those listed by the action.
OpOthers == <<dispVars, reqEvent, reqInv, lock, faults, ReviewOthers>>

OpReset(u) ==
  /\ opPc' = [opPc EXCEPT ![u] = "idle"]
  /\ opReq' = [opReq EXCEPT ![u] = None]
  /\ opEvStatus' = [opEvStatus EXCEPT ![u] = None]
  /\ opInvStatus' = [opInvStatus EXCEPT ![u] = None]

\* handle_reply up to the status check, by id or by #EVT- short code.
ReplyRead(u, r) ==
  /\ opPc[u] = "idle"
  /\ r \in Sent
  /\ opPc' = [opPc EXCEPT ![u] = "replying"]
  /\ opReq' = [opReq EXCEPT ![u] = r]
  /\ UNCHANGED <<opEvStatus, opInvStatus, evStatus, invStatus, reqStatus,
                 answered, reqLock, rowLock, marker, OpOthers>>

\* session.get(Event) flushes the response and req.status = ANSWERED, waiting
\* for the row; then the event is loaded and Redis is marked.
ReplyFlush(u) ==
  LET r == opReq[u]
  IN  /\ opPc[u] = "replying"
      /\ RequestRowFree(r, u)
      /\ reqLock' = [reqLock EXCEPT ![r] = u]
      /\ opEvStatus' = [opEvStatus EXCEPT ![u] = evStatus[reqEvent[r]]]
      /\ marker' = IF ReinvestigationEnabled THEN marker \cup {reqEvent[r]} ELSE marker
      /\ opPc' = [opPc EXCEPT ![u] = "flushed"]
      /\ UNCHANGED <<opReq, opInvStatus, evStatus, invStatus, reqStatus, answered,
                     rowLock, OpOthers>>

\* Mutant: a reply to a request that has expired meanwhile is only recorded.
Reopens_IfStillSent(u) ==
  ReinvestigationEnabled /\ opEvStatus[u] # "pending_review" /\ opReq[u] \in Sent

\* The reply sends the event back to the agent.
Reopens(u) == ReinvestigationEnabled /\ opEvStatus[u] # "pending_review"

\* session.get(Investigation) flushes the event's new status, waiting for its row;
\* then the investigation is loaded.  The session emits an UPDATE only for an attribute
\* whose value differs from the one it loaded.
ReplyUpdate(u) ==
  LET e == reqEvent[opReq[u]]
  IN  /\ opPc[u] = "flushed"
      /\ Reopens(u) => EventRowFree(e, u)
      /\ rowLock' = IF Reopens(u) THEN [rowLock EXCEPT ![e] = u] ELSE rowLock
      /\ opInvStatus' = [opInvStatus EXCEPT ![u] = invStatus[reqInv[opReq[u]]]]
      /\ opPc' = [opPc EXCEPT ![u] = "updated"]
      /\ UNCHANGED <<opReq, opEvStatus, evStatus, invStatus, reqStatus, answered,
                     reqLock, marker, OpOthers>>

ReplyCommit(u) ==
  LET r == opReq[u]
      e == reqEvent[r]
      i == reqInv[r]
  IN  /\ opPc[u] = "updated"
      /\ reqStatus' = [reqStatus EXCEPT ![r] = "answered"]
      /\ answered' = answered \cup {r}
      /\ evStatus' = IF Reopens(u) THEN [evStatus EXCEPT ![e] = "pending_review"]
                     ELSE evStatus
      /\ invStatus' = IF opInvStatus[u] = "needs_human"
                      THEN [invStatus EXCEPT ![i] = "completed"]
                      ELSE invStatus
      /\ reqLock' = [reqLock EXCEPT ![r] = None]
      /\ rowLock' = IF Reopens(u) THEN [rowLock EXCEPT ![e] = None] ELSE rowLock
      /\ OpReset(u)
      /\ UNCHANGED <<marker, OpOthers>>

CancelRead(u, r) ==
  /\ opPc[u] = "idle"
  /\ r \in Sent
  /\ opPc' = [opPc EXCEPT ![u] = "cancelling"]
  /\ opReq' = [opReq EXCEPT ![u] = r]
  /\ UNCHANGED <<opEvStatus, opInvStatus, evStatus, invStatus, reqStatus,
                 answered, reqLock, rowLock, marker, OpOthers>>

CancelCommit(u) ==
  /\ opPc[u] = "cancelling"
  /\ RequestRowFree(opReq[u], u)
  /\ reqStatus' = [reqStatus EXCEPT ![opReq[u]] = "cancelled"]
  /\ OpReset(u)
  /\ UNCHANGED <<evStatus, invStatus, answered, reqLock, rowLock, marker, OpOthers>>

\* investigate:skip_budget keys live for 86400 seconds.
MarkerExpires(e) ==
  /\ e \in marker
  /\ marker' = marker \ {e}
  /\ UNCHANGED <<reviewVars, evStatus, invStatus, reqVars, rowLock, lock, faults,
                 ReviewOthers>>

\* An exception in the request, or PostgreSQL breaks the deadlock of a reply that waits
\* for the event with an agent that waits for the request: rollback, the marker stays.
OpFail(u) ==
  /\ opPc[u] # "idle"
  /\ Fault
  /\ Rollback({u})
  /\ OpReset(u)
  /\ UNCHANGED <<dispVars, evStatus, invStatus, reqEvent, reqInv, answered, lock, marker,
                 ReviewOthers>>

OpStep(u) ==
  \/ \E r \in Requests : ReplyRead(u, r) \/ CancelRead(u, r)
  \/ ReplyFlush(u)
  \/ ReplyUpdate(u)
  \/ ReplyCommit(u)
  \/ CancelCommit(u)
  \/ OpFail(u)
=============================================================================
