-------------------------- MODULE GovernanceProofs ---------------------------
(***************************************************************************)
(* For any investigations, suggestions, operators and overlaps of their    *)
(* requests: an archived alert is backed by enough confirmations, the      *)
(* first decision on a row stands unless two requests had it open, and a   *)
(* settled investigation keeps its suggestions.                            *)
(*                                                                         *)
(* None of the three is inductive.  PipeInv follows the one transaction of *)
(* the asset pipeline from the pick to the commit, DecideInv the copies    *)
(* the requests decide on.                                                 *)
(***************************************************************************)
EXTENDS Governance, FiniteSetTheorems, TLAPS

Statuses == {"absent", "pending", "accepted", "rejected"}

\* The kinds of rows a settlement adds.
Settled == {"whitelist", "profile"}

\* What a run of the asset pipeline has in hand, and what a request has read.
SettlerRow == [pc : {"idle", "settling"}, todo : SUBSET Investigations,
               added : SUBSET Proposals, cases : SUBSET Investigations]

RequestRow == [pc : {"new", "read", "done"}, of : Suggests \cup {None},
               decision : {None, "confirm", "accept", "reject"},
               status : Statuses \cup {None}, count : Nat, alerts : SUBSET Alerts]

\* The sets the variables range over.
GovTypes ==
  /\ cases \in SUBSET Investigations
  /\ status \in [Proposals -> Statuses]
  /\ confirmations \in [Investigations -> Nat]
  /\ effects \in SUBSET [of : Proposals, by : Requests, since : Nat]
  /\ samples \in [Alerts -> Nat]
  /\ settler \in [Settlers -> SettlerRow]
  /\ req \in [Requests -> RequestRow]
  /\ \A r \in Requests : req[r].of # None => req[r].decision \in {"confirm", "accept", "reject"}
  /\ clock \in Nat
  /\ granted \in SUBSET [of : Proposals, decision : {"confirm", "accept", "reject"},
                         by : Requests]

-----------------------------------------------------------------------------
(* The transaction of the pipeline *)

\* Only the run that holds the lock has anything in hand.
OneTransaction ==
  \A w \in Settlers :
    /\ settler[w].pc = "settling" => lock = w
    /\ settler[w].pc = "idle" => settler[w] = Idle

\* What it settles has no case yet, and what it has added belongs to what it settled.
NewCases ==
  \A w \in Settlers :
    /\ settler[w].todo \cap cases = {} /\ settler[w].cases \cap cases = {}
    /\ \A p \in settler[w].added :
         p \in Suggests /\ p[1] \in Settled /\ p[2] \in settler[w].cases

\* Rows of these kinds come with a case, the others with the investigation.
RowsHaveCases ==
  \A p \in Proposals :
    IF p[1] \in Settled THEN status[p] # "absent" => p[2] \in cases
    ELSE p \in Suggests => status[p] # "absent"

\* Candidates the query for a pattern finds inside the transaction of w.
Waiting(w, i) == status[<<"whitelist", i>>] = "pending" \/ <<"whitelist", i>> \in settler[w].added

OneWaiting ==
  /\ OnePending
  /\ \A w \in Settlers : \A i, j \in Investigations :
       PatternOf[i] = PatternOf[j] /\ Waiting(w, i) /\ Waiting(w, j) => i = j

\* The suggestions of i are in the table; or in a transaction that has added these.
InTable(st, i) ==
  /\ \A p \in Suggests : p[2] = i /\ p[1] = "profile" => st[p] # "absent"
  /\ <<"whitelist", i>> \in Suggests =>
       \E j \in Investigations : PatternOf[j] = PatternOf[i] /\ st[<<"whitelist", j>>] # "absent"

InHand(st, added, i) ==
  /\ \A p \in Suggests : p[2] = i /\ p[1] = "profile" => p \in added
  /\ <<"whitelist", i>> \in Suggests =>
       \E j \in Investigations :
         /\ PatternOf[j] = PatternOf[i]
         /\ st[<<"whitelist", j>>] # "absent" \/ <<"whitelist", j>> \in added

Gathered ==
  /\ \A i \in cases \ lost : InTable(status, i)
  /\ \A w \in Settlers : \A i \in settler[w].cases \ lost : InHand(status, settler[w].added, i)

PipeInv == OneTransaction /\ NewCases /\ RowsHaveCases /\ OneWaiting /\ Gathered

-----------------------------------------------------------------------------
(* The copies of the requests *)

\* A request works on a row that is in the table, with a decision of its kind; it
\* answers once.
Asked ==
  /\ \A r \in Requests : req[r].pc = "read" /\ req[r].of # None =>
       /\ status[req[r].of] # "absent"
       /\ req[r].decision \in Decisions(req[r].of[1])
       /\ req[r].status # "absent"
  /\ \A g \in granted : req[g.by].pc = "done"

\* Two requests with the same copy are in the history.
OverlapsShow ==
  \A q, r \in Requests : q # r /\ req[q].pc = "read" /\ req[r].pc = "read" =>
    /\ req[q].of = req[r].of /\ req[q].of # None => req[q].of \in contended
    /\ \A a \in req[q].alerts \cap req[r].alerts : <<"alert", a>> \in contended

\* The copy a request has for itself is still what the table says.
CopyIsFresh ==
  \A r \in Requests : req[r].pc = "read" =>
    /\ req[r].of # None /\ req[r].of \notin contended =>
         /\ req[r].status = status[req[r].of]
         /\ req[r].of[1] = "whitelist" => req[r].count = confirmations[req[r].of[2]]
    /\ \A a \in req[r].alerts : <<"alert", a>> \notin contended => samples[a] = 0

\* However the requests overlap, no counter and no copy of one is ahead of the answers.
CountsAreBacked ==
  /\ \A i \in Investigations : confirmations[i] <= Cardinality(Confirmers(i))
  /\ \A r \in Requests : req[r].pc = "read" /\ req[r].of # None /\ req[r].of[1] = "whitelist" =>
       req[r].count <= Cardinality(Confirmers(req[r].of[2]))

\* A promoted rule has its confirmations and its case.
RulesAreEarned ==
  \A e \in effects : e.of[1] = "whitelist" =>
    e.of[2] \in cases /\ Cardinality(Confirmers(e.of[2])) >= Threshold

DecideInv ==
  /\ Asked /\ OverlapsShow /\ CopyIsFresh /\ CountsAreBacked /\ RulesAreEarned
  /\ FirstDecisionStands /\ ArchiveIsEarned

GovInv == GovTypes /\ PipeInv /\ DecideInv

-----------------------------------------------------------------------------
(* Types *)

LEMMA GovConstants ==
  /\ Suggests \subseteq Proposals /\ PatternOf \in [Investigations -> Patterns]
  /\ IsFiniteSet(Requests) /\ Threshold \in Nat \ {0} /\ TTL \in Nat /\ MaxFaults \in Nat
  /\ None \notin Settlers /\ None \notin Proposals
  BY GovernanceAssumption

LEMMA IdleRow == Idle \in SettlerRow
  BY DEF Idle, SettlerRow

LEMMA UnusedRow == Unused \in RequestRow
  BY DEF Unused, RequestRow

LEMMA RequestFields ==
  ASSUME GovTypes, NEW r \in Requests
  PROVE  /\ req[r].of \in Suggests \cup {None} /\ req[r].count \in Nat
         /\ req[r].of # None => req[r].of \in Proposals
         /\ req[r].alerts \subseteq Alerts
<1>1. req[r] \in RequestRow
  BY DEF GovTypes
<1> QED
  BY <1>1, GovConstants DEF RequestRow

LEMMA SettlerFields ==
  ASSUME GovTypes, NEW w \in Settlers
  PROVE  /\ settler[w].pc \in {"idle", "settling"} /\ settler[w].todo \subseteq Investigations
         /\ settler[w].added \subseteq Proposals /\ settler[w].cases \subseteq Investigations
<1>1. settler[w] \in SettlerRow
  BY DEF GovTypes
<1> QED
  BY <1>1 DEF SettlerRow

LEMMA GovTypesInit == Init => GovTypes
<1> SUFFICES ASSUME Init PROVE GovTypes
  OBVIOUS
<1>1. status \in [Proposals -> Statuses]
  BY DEF Init, Statuses
<1>2. settler \in [Settlers -> SettlerRow]
  BY IdleRow DEF Init
<1>3. req \in [Requests -> RequestRow]
  BY UnusedRow DEF Init
<1>4. \A r \in Requests : req[r].of = None
  BY DEF Init, Unused
<1> QED
  BY <1>1, <1>2, <1>3, <1>4 DEF Init, GovTypes

\* What a settlement builds are suggestions of its investigation.
LEMMA BuiltRows ==
  ASSUME NEW w, NEW i \in Investigations
  PROVE  /\ Built(w, i) \cap Suggests \subseteq Proposals
         /\ \A p \in Built(w, i) : p[1] \in Settled /\ p[2] = i
<1>1. Built(w, i) \cap Suggests \subseteq Proposals
  BY GovConstants
<1>2. ASSUME NEW p \in Built(w, i) PROVE p[1] \in Settled /\ p[2] = i
  <2>1. p = <<"whitelist", i>> \/ p = <<"profile", i>>
    BY DEF Built
  <2> QED
    BY <2>1 DEF Settled
<1> QED
  BY <1>1, <1>2

\* What a run of the pipeline is doing after it settled i, with these rows.
After(w, i, built) ==
  [settler EXCEPT ![w].todo = @ \ {i}, ![w].cases = @ \cup {i}, ![w].added = @ \cup built]

LEMMA AfterIs ==
  ASSUME GovTypes, NEW w \in Settlers, NEW i \in settler[w].todo, NEW built \in SUBSET Proposals,
         settler' = After(w, i, built)
  PROVE  /\ settler' \in [Settlers -> SettlerRow]
         /\ \A v \in Settlers \ {w} : settler'[v] = settler[v]
         /\ settler'[w].pc = settler[w].pc /\ settler'[w].todo = settler[w].todo \ {i}
         /\ settler'[w].cases = settler[w].cases \cup {i}
         /\ settler'[w].added = settler[w].added \cup built
<1>1. settler[w] \in SettlerRow
  BY DEF GovTypes
<1>2. /\ \A v \in Settlers \ {w} : settler'[v] = settler[v]
      /\ DOMAIN settler' = Settlers
  BY DEF GovTypes, After
<1>3. settler'[w] = [settler[w] EXCEPT !.todo = @ \ {i}, !.cases = @ \cup {i},
                                      !.added = @ \cup built]
  BY DEF GovTypes, After
<1>4. /\ settler'[w].pc = settler[w].pc /\ settler'[w].todo = settler[w].todo \ {i}
      /\ settler'[w].cases = settler[w].cases \cup {i}
      /\ settler'[w].added = settler[w].added \cup built
  BY <1>1, <1>3 DEF SettlerRow
<1>5. settler'[w] \in SettlerRow
  <2>1. /\ settler[w].todo \ {i} \in SUBSET Investigations
        /\ settler[w].cases \cup {i} \in SUBSET Investigations
        /\ settler[w].added \cup built \in SUBSET Proposals
    BY <1>1 DEF SettlerRow
  <2> QED
    BY <1>1, <1>3, <2>1 DEF SettlerRow
<1>6. settler' = [v \in Settlers |-> settler'[v]]
  BY DEF GovTypes, After
<1>7. settler' \in [Settlers -> SettlerRow]
  BY <1>2, <1>5, <1>6 DEF GovTypes
<1> QED
  BY <1>2, <1>4, <1>7

\* A settlement adds some of what there is to build, and what it does not add is lost.
LEMMA SettlesOne ==
  ASSUME GovTypes, NEW w \in Settlers, Settle(w) \/ SettleFails(w)
  PROVE  /\ settler[w].pc = "settling"
         /\ \E i \in settler[w].todo : \E built \in SUBSET (Built(w, i) \cap Suggests) :
              /\ settler' = After(w, i, built)
              /\ \/ lost' = lost /\ built = Built(w, i) \cap Suggests
                 \/ lost' = lost \cup {i}
<1>1. CASE Settle(w)
  BY <1>1 DEF Settle, After
<1>2. CASE SettleFails(w)
  <2>1. PICK i \in settler[w].todo :
          /\ lost' = lost \cup {i}
          /\ \E built \in {{}, Built(w, i) \cap {<<"whitelist", i>>}, Built(w, i)} :
               settler' = [settler EXCEPT ![w].todo = @ \ {i},
                                          ![w].cases = @ \cup {i},
                                          ![w].added = @ \cup (built \cap Suggests)]
    BY <1>2 DEF SettleFails
  <2>2. PICK built \in {{}, Built(w, i) \cap {<<"whitelist", i>>}, Built(w, i)} :
          settler' = After(w, i, built \cap Suggests)
    BY <2>1 DEF After
  <2>3. built \cap Suggests \in SUBSET (Built(w, i) \cap Suggests)
    OBVIOUS
  <2> QED
    BY <1>2, <2>1, <2>2, <2>3 DEF SettleFails
<1> QED
  BY <1>1, <1>2

\* A request whose row is replaced by another of its kind, and one that answers.
LEMMA RequestPut ==
  ASSUME GovTypes, NEW r \in Requests, NEW row \in RequestRow,
         req' = [req EXCEPT ![r] = row],
         row.of # None => row.decision \in {"confirm", "accept", "reject"}
  PROVE  /\ req' \in [Requests -> RequestRow]
         /\ \A q \in Requests : req'[q].of # None =>
              req'[q].decision \in {"confirm", "accept", "reject"}
<1>1. req \in [Requests -> RequestRow]
  BY DEF GovTypes
<1>2. req'[r] = row /\ \A q \in Requests \ {r} : req'[q] = req[q]
  BY <1>1
<1>3. req' \in [Requests -> RequestRow]
  BY <1>1
<1>4. ASSUME NEW q \in Requests, req'[q].of # None
      PROVE  req'[q].decision \in {"confirm", "accept", "reject"}
  BY <1>2, <1>4 DEF GovTypes
<1> QED
  BY <1>3, <1>4

LEMMA AnsweredPut ==
  ASSUME GovTypes, NEW r \in Requests, Answered(r)
  PROVE  /\ req' \in [Requests -> RequestRow]
         /\ \A q \in Requests : req'[q].of # None =>
              req'[q].decision \in {"confirm", "accept", "reject"}
<1> DEFINE row == [req[r] EXCEPT !.pc = "done"]
<1>1. req[r] \in RequestRow
  BY DEF GovTypes
<1>2. row \in RequestRow /\ row.of = req[r].of /\ row.decision = req[r].decision
  BY <1>1 DEF RequestRow
<1>3. row.of # None => row.decision \in {"confirm", "accept", "reject"}
  BY <1>2 DEF GovTypes
<1>4. req' = [req EXCEPT ![r] = row]
  BY DEF Answered, GovTypes
<1> HIDE DEF row
<1> QED
  BY <1>2, <1>3, <1>4, RequestPut

LEMMA GovTypesStep == GovTypes /\ [Next]_vars => GovTypes'
<1> SUFFICES ASSUME GovTypes, [Next]_vars PROVE GovTypes'
  OBVIOUS
<1>1. ASSUME NEW w \in Settlers, Pick(w) PROVE GovTypes'
  <2>1. PICK picked \in SUBSET Investigations :
          settler' = [settler EXCEPT ![w] = [Idle EXCEPT !.pc = "settling", !.todo = picked]]
    BY <1>1 DEF Pick
  <2> DEFINE row == [Idle EXCEPT !.pc = "settling", !.todo = picked]
  <2>2. row \in SettlerRow
    BY DEF SettlerRow, Idle
  <2> HIDE DEF row
  <2>3. settler' \in [Settlers -> SettlerRow]
    BY <2>1, <2>2 DEF GovTypes, row
  <2> QED
    BY <1>1, <2>3 DEF Pick, GovTypes, history
<1>2. ASSUME NEW w \in Settlers, Settle(w) \/ SettleFails(w) PROVE GovTypes'
  <2>1. PICK i \in settler[w].todo : \E built \in SUBSET (Built(w, i) \cap Suggests) :
          settler' = After(w, i, built)
    BY <1>2, SettlesOne
  <2>2. PICK built \in SUBSET Proposals : settler' = After(w, i, built)
    BY <2>1, GovConstants
  <2>3. UNCHANGED <<cases, status, confirmations, effects, samples, req, clock, granted>>
    BY <1>2 DEF Settle, SettleFails, history
  <2> QED
    BY <2>2, <2>3, AfterIs DEF GovTypes
<1>3. ASSUME NEW w \in Settlers, Commit(w) PROVE GovTypes'
  <2>1. status' \in [Proposals -> Statuses]
    BY <1>3 DEF Commit, GovTypes, Statuses
  <2>2. settler' \in [Settlers -> SettlerRow]
    BY <1>3, IdleRow DEF Commit, GovTypes
  <2>3. cases' \in SUBSET Investigations
    BY <1>3, SettlerFields DEF Commit, GovTypes
  <2> QED
    BY <1>3, <2>1, <2>2, <2>3 DEF Commit, GovTypes, history
<1>4. ASSUME NEW w \in Settlers, Abort(w) PROVE GovTypes'
  <2>1. settler' \in [Settlers -> SettlerRow]
    BY <1>4, IdleRow DEF Abort, GovTypes
  <2> QED
    BY <1>4, <2>1 DEF Abort, GovTypes, history
<1>5. ASSUME NEW r \in Requests, Read(r) PROVE GovTypes'
  <2>1. PICK p \in Suggests, d \in {"confirm", "accept", "reject"} :
          req' = [req EXCEPT ![r] = [Unused EXCEPT
                    !.pc = "read", !.of = p, !.decision = d, !.status = status[p],
                    !.count = confirmations[p[2]]]]
    BY <1>5 DEF Read, Decisions
  <2>2. status[p] \in Statuses /\ confirmations[p[2]] \in Nat
    BY GovConstants DEF GovTypes, Proposals
  <2> DEFINE row == [Unused EXCEPT !.pc = "read", !.of = p, !.decision = d, !.status = status[p],
                                   !.count = confirmations[p[2]]]
  <2>3. row \in RequestRow /\ row.decision = d
    BY <2>2 DEF RequestRow, Unused
  <2> HIDE DEF row
  <2>4. /\ req' \in [Requests -> RequestRow]
        /\ \A q \in Requests : req'[q].of # None =>
             req'[q].decision \in {"confirm", "accept", "reject"}
    BY <2>1, <2>3, RequestPut DEF row
  <2> QED
    BY <1>5, <2>4 DEF Read, GovTypes, pipelineVars
<1>6. ASSUME NEW r \in Requests, Decide(r) PROVE GovTypes'
  <2> DEFINE p == req[r].of
  <2>1. p \in Proposals /\ p[2] \in Investigations /\ req[r].count \in Nat
    <3>1. req[r] \in RequestRow /\ p # None
      BY <1>6 DEF Decide, GovTypes
    <3>2. p \in Suggests /\ req[r].count \in Nat
      BY <3>1 DEF RequestRow
    <3> QED
      BY <3>2, GovConstants DEF Proposals
  <2>2. req[r].decision \in {"confirm", "accept", "reject"}
    BY <1>6 DEF Decide, GovTypes
  <2>3. status' \in [Proposals -> Statuses]
    BY <1>6 DEF Decide, GovTypes, Statuses
  <2>4. confirmations' \in [Investigations -> Nat]
    BY <1>6, <2>1 DEF Decide, GovTypes
  <2>5. effects' \in SUBSET [of : Proposals, by : Requests, since : Nat]
    <3>1. [of |-> p, by |-> r, since |-> clock] \in [of : Proposals, by : Requests, since : Nat]
      BY <2>1 DEF GovTypes
    <3> QED
      BY <1>6, <3>1 DEF Decide, GovTypes
  <2>6. granted' \in SUBSET [of : Proposals, decision : {"confirm", "accept", "reject"},
                             by : Requests]
    <3>1. Outcome(r) \in {"confirm", "accept", "reject"}
      BY <2>2 DEF Outcome
    <3>2. granted' = granted \cup {[of |-> p, decision |-> Outcome(r), by |-> r]}
      BY <1>6 DEF Decide
    <3> QED
      BY <2>1, <3>1, <3>2 DEF GovTypes
  <2>7. Answered(r) /\ UNCHANGED <<pipelineVars, samples, clock>>
    BY <1>6 DEF Decide
  <2>8. /\ req' \in [Requests -> RequestRow]
        /\ \A q \in Requests : req'[q].of # None =>
             req'[q].decision \in {"confirm", "accept", "reject"}
    BY <2>7, AnsweredPut
  <2> QED
    BY <2>3, <2>4, <2>5, <2>6, <2>7, <2>8 DEF GovTypes, pipelineVars
<1>7. ASSUME NEW r \in Requests, Refuse(r) PROVE GovTypes'
  <2>1. Answered(r)
    BY <1>7 DEF Refuse
  <2> QED
    BY <1>7, <2>1, AnsweredPut DEF Refuse, GovTypes, pipelineVars, history
<1>8. ASSUME NEW r \in Requests, SampleRead(r) PROVE GovTypes'
  <2> DEFINE row == [Unused EXCEPT !.pc = "read", !.alerts = Unsampled]
  <2>1. row \in RequestRow /\ row.of = None
    BY DEF RequestRow, Unused, Unsampled
  <2>2. req' = [req EXCEPT ![r] = row]
    BY <1>8 DEF SampleRead
  <2> HIDE DEF row
  <2> QED
    BY <1>8, <2>1, <2>2, RequestPut DEF SampleRead, GovTypes, pipelineVars
<1>9. ASSUME NEW r \in Requests, SampleCommit(r) PROVE GovTypes'
  <2>1. Answered(r)
    BY <1>9 DEF SampleCommit
  <2>2. samples' \in [Alerts -> Nat]
    BY <1>9 DEF SampleCommit, GovTypes
  <2> QED
    BY <1>9, <2>1, <2>2, AnsweredPut DEF SampleCommit, GovTypes, pipelineVars, history
<1>10. CASE Archive
  BY <1>10 DEF Archive, GovTypes, pipelineVars, history
<1>11. CASE Tick
  BY <1>11 DEF Tick, GovTypes, pipelineVars, history
<1>12. CASE UNCHANGED vars
  BY <1>12 DEF vars, GovTypes
<1> QED
  BY <1>1, <1>2, <1>3, <1>4, <1>5, <1>6, <1>7, <1>8, <1>9, <1>10, <1>11, <1>12 DEF Next

-----------------------------------------------------------------------------
(* The transaction of the pipeline keeps the suggestions *)

LEMMA PipeInit == Init => PipeInv
<1> SUFFICES ASSUME Init PROVE PipeInv
  OBVIOUS
<1>1. /\ \A w \in Settlers : settler[w] = Idle
      /\ cases = {} /\ lost = {} /\ lock = None
  BY DEF Init
<1>2. \A p \in Proposals : status[p] = IF p \in Suggests /\ p[1] \in {"disposition", "simulation"}
                                       THEN "pending" ELSE "absent"
  BY DEF Init
<1>3. OneTransaction
  BY <1>1 DEF OneTransaction, Idle
<1>4. NewCases
  BY <1>1 DEF NewCases, Idle
<1>5. RowsHaveCases
  <2>1. ASSUME NEW p \in Proposals PROVE p[1] \in Kinds
    BY DEF Proposals
  <2> QED
    BY <1>2, <2>1 DEF RowsHaveCases, Settled, Kinds
<1>6. \A i \in Investigations : status[<<"whitelist", i>>] = "absent"
  BY <1>2 DEF Proposals, Kinds
<1>7. OneWaiting
  BY <1>1, <1>6 DEF OneWaiting, OnePending, Waiting, Idle
<1>8. Gathered
  BY <1>1 DEF Gathered, Idle
<1> QED
  BY <1>3, <1>4, <1>5, <1>7, <1>8 DEF PipeInv

\* More rows keep what there is, and a commit puts what is in hand into the table.
LEMMA TableGrows ==
  ASSUME NEW st, NEW tt, NEW i, InTable(st, i),
         \A p \in Proposals : st[p] # "absent" => tt[p] # "absent"
  PROVE  InTable(tt, i)
<1>1. \A j \in Investigations : <<"whitelist", j>> \in Proposals
  BY DEF Proposals, Kinds
<1> QED
  BY <1>1, GovConstants DEF InTable

LEMMA HandGrows ==
  ASSUME NEW st, NEW tt, NEW A, NEW B, NEW i, InHand(st, A, i), A \subseteq B,
         \A p \in Proposals : st[p] # "absent" => tt[p] # "absent"
  PROVE  InHand(tt, B, i)
<1>1. \A j \in Investigations : <<"whitelist", j>> \in Proposals
  BY DEF Proposals, Kinds
<1> QED
  BY <1>1 DEF InHand

LEMMA HandStored ==
  ASSUME NEW st, NEW tt, NEW A, NEW i, InHand(st, A, i),
         \A p \in Proposals : st[p] # "absent" \/ p \in A => tt[p] # "absent"
  PROVE  InTable(tt, i)
<1>1. \A j \in Investigations : <<"whitelist", j>> \in Proposals
  BY DEF Proposals, Kinds
<1> QED
  BY <1>1, GovConstants DEF InHand, InTable

\* A decision adds no row, removes none and makes none pending.
LEMMA PipeQuiet ==
  ASSUME GovTypes, PipeInv, UNCHANGED <<cases, settler, lock, lost>>,
         \A p \in Proposals : /\ status'[p] = "absent" <=> status[p] = "absent"
                              /\ status'[p] = "pending" => status[p] = "pending"
  PROVE  PipeInv'
<1>0. \A i \in Investigations : <<"whitelist", i>> \in Proposals
  BY DEF Proposals, Kinds
<1>1. OneTransaction' /\ NewCases'
  BY DEF PipeInv, OneTransaction, NewCases
<1>2. RowsHaveCases'
  BY DEF PipeInv, RowsHaveCases
<1>3. OneWaiting'
  BY <1>0 DEF PipeInv, OneWaiting, OnePending, Waiting
<1>4. Gathered'
  <2>1. ASSUME NEW i \in cases \ lost PROVE InTable(status', i)
    <3>1. InTable(status, i)
      BY DEF PipeInv, Gathered
    <3> QED
      BY <3>1, TableGrows
  <2>2. ASSUME NEW w \in Settlers, NEW i \in settler[w].cases \ lost
        PROVE  InHand(status', settler[w].added, i)
    <3>1. InHand(status, settler[w].added, i)
      BY DEF PipeInv, Gathered
    <3> QED
      BY <3>1, HandGrows
  <2> QED
    BY <2>1, <2>2 DEF Gathered
<1> QED
  BY <1>1, <1>2, <1>3, <1>4 DEF PipeInv

\* The run that holds the lock is the only one with anything in hand.
LEMMA OthersIdle ==
  ASSUME OneTransaction, GovTypes, NEW w \in Settlers, settler[w].pc = "settling",
         NEW v \in Settlers, v # w
  PROVE  settler[v] = Idle
<1>1. settler[v].pc \in {"idle", "settling"}
  BY SettlerFields
<1> QED
  BY <1>1 DEF OneTransaction

LEMMA PipePick ==
  ASSUME GovTypes, PipeInv, NEW w \in Settlers, Pick(w)
  PROVE  PipeInv'
<1>1. PICK picked \in SUBSET (Investigations \ cases) :
        settler' = [settler EXCEPT ![w] = [Idle EXCEPT !.pc = "settling", !.todo = picked]]
  BY DEF Pick
<1>2. /\ UNCHANGED <<cases, lost, status>> /\ lock = None /\ lock' = w
  BY DEF Pick
<1>3. /\ settler'[w] = [pc |-> "settling", todo |-> picked, added |-> {}, cases |-> {}]
      /\ \A v \in Settlers \ {w} : settler'[v] = settler[v]
  BY <1>1 DEF GovTypes, Idle
<1>4. \A v \in Settlers : settler[v] = Idle
  <2>1. \A v \in Settlers : settler[v].pc # "settling"
    BY <1>2, GovConstants DEF PipeInv, OneTransaction
  <2>2. \A v \in Settlers : settler[v].pc \in {"idle", "settling"}
    BY SettlerFields
  <2> QED
    BY <2>1, <2>2 DEF PipeInv, OneTransaction
<1>5. \A v \in Settlers : settler'[v].added = {} /\ settler'[v].cases = {}
  BY <1>3, <1>4 DEF Idle
<1>6. OneTransaction'
  BY <1>2, <1>3, <1>4 DEF OneTransaction, Idle
<1>7. NewCases'
  BY <1>2, <1>3, <1>4, <1>5 DEF NewCases, Idle
<1>8. RowsHaveCases'
  BY <1>2 DEF PipeInv, RowsHaveCases
<1>9. OneWaiting'
  BY <1>2, <1>5 DEF PipeInv, OneWaiting, OnePending, Waiting
<1>10. Gathered'
  <2>1. ASSUME NEW c \in cases \ lost
        PROVE  InTable(status, c)
    BY DEF PipeInv, Gathered
  <2> QED
    BY <1>2, <1>5, <2>1 DEF Gathered
<1> QED
  BY <1>6, <1>7, <1>8, <1>9, <1>10 DEF PipeInv

LEMMA PipeSettle ==
  ASSUME GovTypes, PipeInv, NEW w \in Settlers, Settle(w) \/ SettleFails(w)
  PROVE  PipeInv'
<1>1. PICK i \in settler[w].todo : \E built \in SUBSET (Built(w, i) \cap Suggests) :
        /\ settler' = After(w, i, built)
        /\ \/ lost' = lost /\ built = Built(w, i) \cap Suggests
           \/ lost' = lost \cup {i}
  BY SettlesOne
<1>2. PICK built \in SUBSET (Built(w, i) \cap Suggests) :
        /\ settler' = After(w, i, built)
        /\ \/ lost' = lost /\ built = Built(w, i) \cap Suggests
           \/ lost' = lost \cup {i}
  BY <1>1
<1>3. /\ UNCHANGED <<cases, status, lock>> /\ settler[w].pc = "settling"
      /\ i \in Investigations /\ i \notin cases
  <2>1. UNCHANGED <<cases, status, lock>> /\ settler[w].pc = "settling"
    BY SettlesOne DEF Settle, SettleFails
  <2> QED
    BY <2>1, SettlerFields DEF PipeInv, NewCases
<1>4. /\ built \subseteq Proposals
      /\ \A p \in built : p \in Suggests /\ p[1] \in Settled /\ p[2] = i
  BY <1>2, <1>3, BuiltRows
<1>5. /\ \A v \in Settlers \ {w} : settler'[v] = settler[v]
      /\ settler'[w].pc = settler[w].pc /\ settler'[w].todo = settler[w].todo \ {i}
      /\ settler'[w].cases = settler[w].cases \cup {i}
      /\ settler'[w].added = settler[w].added \cup built
  BY <1>2, <1>4, AfterIs
<1>6. \A v \in Settlers \ {w} : settler[v] = Idle
  BY <1>3, OthersIdle DEF PipeInv
<1>7. OneTransaction'
  BY <1>3, <1>5 DEF PipeInv, OneTransaction
<1>8. NewCases'
  <2>1. ASSUME NEW v \in Settlers \ {w}
        PROVE  /\ settler'[v].todo \cap cases = {} /\ settler'[v].cases \cap cases = {}
               /\ settler'[v].added = {}
    BY <1>5, <1>6 DEF Idle
  <2>2. /\ settler'[w].todo \cap cases = {} /\ settler'[w].cases \cap cases = {}
        /\ \A p \in settler'[w].added :
             p \in Suggests /\ p[1] \in Settled /\ p[2] \in settler'[w].cases
    BY <1>3, <1>4, <1>5 DEF PipeInv, NewCases
  <2> QED
    BY <1>3, <2>1, <2>2 DEF NewCases
<1>9. RowsHaveCases'
  BY <1>3 DEF PipeInv, RowsHaveCases
<1>10. OneWaiting'
  <2>1. ASSUME NEW j \in Investigations, <<"whitelist", j>> \in built
        PROVE  j = i /\ ~PendingFor(w, i)
    <3>1. <<"whitelist", j>> \in Built(w, i)
      BY <1>2, <2>1
    <3> QED
      BY <3>1 DEF Built
  <2>2. OnePending'
    BY <1>3 DEF PipeInv, OneWaiting, OnePending
  <2>3. ASSUME NEW j \in Investigations, NEW k \in Investigations, PatternOf[j] = PatternOf[k],
               status[<<"whitelist", j>>] = "pending" \/ <<"whitelist", j>> \in settler'[w].added,
               status[<<"whitelist", k>>] = "pending" \/ <<"whitelist", k>> \in settler'[w].added
        PROVE  j = k
    <3>1. CASE <<"whitelist", j>> \notin built /\ <<"whitelist", k>> \notin built
      BY <1>5, <2>3, <3>1 DEF PipeInv, OneWaiting, Waiting
    <3>2. CASE <<"whitelist", j>> \in built /\ <<"whitelist", k>> \in built
      BY <2>1, <3>2
    <3>3. CASE <<"whitelist", j>> \in built /\ <<"whitelist", k>> \notin built
      BY <1>5, <2>1, <2>3, <3>3 DEF PendingFor
    <3>4. CASE <<"whitelist", j>> \notin built /\ <<"whitelist", k>> \in built
      BY <1>5, <2>1, <2>3, <3>4 DEF PendingFor
    <3> QED
      BY <3>1, <3>2, <3>3, <3>4
  <2>4. ASSUME NEW v \in Settlers \ {w}
        PROVE  settler'[v].added = {}
    BY <1>5, <1>6 DEF Idle
  <2> QED
    BY <1>3, <2>2, <2>3, <2>4 DEF OneWaiting, OnePending, Waiting
<1>11. Gathered'
  <2>1. Gathered /\ lost \subseteq lost'
    BY <1>2 DEF PipeInv
  <2>2. ASSUME NEW c \in settler'[w].cases \ lost'
        PROVE  InHand(status, settler'[w].added, c)
    <3>1. CASE c \in settler[w].cases
      <4>1. c \in settler[w].cases \ lost
        BY <2>1, <2>2, <3>1
      <4>2. InHand(status, settler[w].added, c)
        BY <2>1, <4>1 DEF Gathered
      <4>3. settler[w].added \subseteq settler'[w].added
        BY <1>5
      <4> QED
        BY <4>2, <4>3, HandGrows
    <3>2. CASE c = i
      <4>1. built = Built(w, i) \cap Suggests
        BY <1>2, <2>2, <3>2
      <4>2. ASSUME NEW p \in Suggests, p[2] = i, p[1] = "profile"
            PROVE  p \in built
        <5>1. p = <<"profile", i>>
          BY <4>2, GovConstants DEF Proposals
        <5> QED
          BY <4>1, <5>1 DEF Built
      <4>3. CASE PendingFor(w, i)
        BY <1>5, <3>2, <4>2, <4>3 DEF PendingFor, InHand
      <4>4. CASE ~PendingFor(w, i)
        <5>1. <<"whitelist", i>> \in Suggests => <<"whitelist", i>> \in built
          BY <4>1, <4>4 DEF Built
        <5> QED
          BY <1>3, <1>5, <3>2, <4>2, <5>1 DEF InHand
      <4> QED
        BY <4>3, <4>4
    <3> QED
      BY <1>5, <2>2, <3>1, <3>2
  <2>3. ASSUME NEW v \in Settlers \ {w}
        PROVE  settler'[v].cases = {}
    BY <1>5, <1>6 DEF Idle
  <2>4. ASSUME NEW c \in cases \ lost'
        PROVE  InTable(status, c)
    <3>1. c \in cases \ lost
      BY <1>2
    <3> QED
      BY <2>1, <3>1 DEF Gathered
  <2> QED
    BY <1>3, <2>2, <2>3, <2>4 DEF Gathered
<1> QED
  BY <1>7, <1>8, <1>9, <1>10, <1>11 DEF PipeInv

LEMMA PipeCommit ==
  ASSUME GovTypes, PipeInv, NEW w \in Settlers, Commit(w)
  PROVE  PipeInv'
<1>1. /\ settler[w].pc = "settling" /\ cases' = cases \cup settler[w].cases
      /\ lost' = lost /\ lock' = None
      /\ settler' = [settler EXCEPT ![w] = Idle]
      /\ \A p \in Proposals : status'[p] = IF p \in settler[w].added THEN "pending" ELSE status[p]
  BY DEF Commit
<1>2. \A v \in Settlers : settler'[v] = Idle
  <2>1. \A v \in Settlers \ {w} : settler'[v] = settler[v] /\ settler[v] = Idle
    BY <1>1, OthersIdle DEF PipeInv, GovTypes
  <2>2. settler'[w] = Idle
    BY <1>1 DEF GovTypes
  <2> QED
    BY <2>1, <2>2
<1>3. \A i \in Investigations : <<"whitelist", i>> \in Proposals
  BY DEF Proposals, Kinds
<1>4. \A p \in settler[w].added : p \in Suggests /\ p[1] \in Settled /\ p[2] \in settler[w].cases
  BY DEF PipeInv, NewCases
<1>5. OneTransaction'
  BY <1>2 DEF OneTransaction, Idle
<1>6. NewCases'
  BY <1>2 DEF NewCases, Idle
<1>7. RowsHaveCases'
  BY <1>1, <1>4 DEF PipeInv, RowsHaveCases
<1>8. OneWaiting'
  <2>1. \A i \in Investigations : status'[<<"whitelist", i>>] = "pending" => Waiting(w, i)
    BY <1>1, <1>3 DEF Waiting
  <2>2. \A i, j \in Investigations :
          PatternOf[i] = PatternOf[j] /\ status'[<<"whitelist", i>>] = "pending"
            /\ status'[<<"whitelist", j>>] = "pending" => i = j
    BY <2>1 DEF PipeInv, OneWaiting
  <2> QED
    BY <1>2, <2>2 DEF OneWaiting, OnePending, Waiting, Idle
<1>9. Gathered'
  <2>1. ASSUME NEW c \in cases \ lost
        PROVE  InTable(status, c)
    BY DEF PipeInv, Gathered
  <2>2. ASSUME NEW c \in settler[w].cases \ lost
        PROVE  InHand(status, settler[w].added, c)
    BY DEF PipeInv, Gathered
  <2>3. \A p \in Proposals : status[p] # "absent" \/ p \in settler[w].added => status'[p] # "absent"
    BY <1>1
  <2>5. ASSUME NEW c \in cases' \ lost' PROVE InTable(status', c)
    <3>1. CASE c \in cases
      BY <1>1, <2>1, <2>3, <2>5, <3>1, TableGrows
    <3>2. CASE c \in settler[w].cases
      BY <1>1, <2>2, <2>3, <2>5, <3>2, HandStored
    <3> QED
      BY <1>1, <2>5, <3>1, <3>2
  <2>6. \A v \in Settlers : settler'[v].cases = {}
    BY <1>2 DEF Idle
  <2> QED
    BY <2>5, <2>6 DEF Gathered
<1> QED
  BY <1>5, <1>6, <1>7, <1>8, <1>9 DEF PipeInv

LEMMA PipeAbort ==
  ASSUME GovTypes, PipeInv, NEW w \in Settlers, Abort(w)
  PROVE  PipeInv'
<1>1. /\ settler[w].pc = "settling" /\ UNCHANGED <<cases, status>>
      /\ lost' = lost \ settler[w].cases /\ settler' = [settler EXCEPT ![w] = Idle]
  BY DEF Abort
<1>2. \A v \in Settlers : settler'[v] = Idle
  <2>1. \A v \in Settlers \ {w} : settler'[v] = settler[v] /\ settler[v] = Idle
    BY <1>1, OthersIdle DEF PipeInv, GovTypes
  <2>2. settler'[w] = Idle
    BY <1>1 DEF GovTypes
  <2> QED
    BY <2>1, <2>2
<1>3. cases \ lost' = cases \ lost
  BY <1>1 DEF PipeInv, NewCases
<1>4. OneTransaction' /\ NewCases'
  BY <1>2 DEF OneTransaction, NewCases, Idle
<1>5. RowsHaveCases'
  BY <1>1 DEF PipeInv, RowsHaveCases
<1>6. OneWaiting'
  BY <1>1, <1>2 DEF PipeInv, OneWaiting, OnePending, Waiting, Idle
<1>7. Gathered'
  <2>1. ASSUME NEW c \in cases \ lost
        PROVE  InTable(status, c)
    BY DEF PipeInv, Gathered
  <2>2. \A v \in Settlers : settler'[v].cases = {}
    BY <1>2 DEF Idle
  <2> QED
    BY <1>1, <1>3, <2>1, <2>2 DEF Gathered
<1> QED
  BY <1>4, <1>5, <1>6, <1>7 DEF PipeInv

\* Every step keeps PipeInv.  A request changes a row only by deciding it.
LEMMA PipeStep == GovTypes /\ PipeInv /\ DecideInv /\ [Next]_vars => PipeInv'
<1> SUFFICES ASSUME GovTypes, PipeInv, DecideInv, [Next]_vars PROVE PipeInv'
  OBVIOUS
<1>1. ASSUME NEW w \in Settlers,
             Pick(w) \/ Settle(w) \/ SettleFails(w) \/ Commit(w) \/ Abort(w)
      PROVE  PipeInv'
  BY <1>1, PipePick, PipeSettle, PipeCommit, PipeAbort
<1>2. ASSUME NEW r \in Requests, Decide(r) PROVE PipeInv'
  <2>1. req[r].pc = "read" /\ req[r].of # None /\ UNCHANGED <<cases, settler, lock, lost>>
    BY <1>2 DEF Decide, pipelineVars
  <2>2. status[req[r].of] # "absent"
    BY <2>1 DEF DecideInv, Asked
  <2>3. \A p \in Proposals : \/ status'[p] = status[p]
                             \/ p = req[r].of /\ status'[p] \in {"accepted", "rejected"}
    BY <1>2 DEF Decide, GovTypes
  <2> QED
    BY <2>1, <2>2, <2>3, PipeQuiet
<1>3. ASSUME NEW r \in Requests, Read(r) \/ Refuse(r) \/ SampleRead(r) \/ SampleCommit(r)
      PROVE  PipeInv'
  BY <1>3, PipeQuiet DEF Read, Refuse, SampleRead, SampleCommit, pipelineVars
<1>4. CASE Archive \/ Tick \/ UNCHANGED vars
  BY <1>4, PipeQuiet DEF Archive, Tick, vars, pipelineVars
<1> QED
  BY <1>1, <1>2, <1>3, <1>4 DEF Next

-----------------------------------------------------------------------------
(* The answers, the effects and what they say of a row, as functions of the history *)

FinalIn(G, p) == {g \in G : g.of = p /\ g.decision # "confirm"}
MadeIn(E, p) == {e \in E : e.of = p}
ConfirmersIn(G, i) == {g.by : g \in {x \in G : x.of = <<"whitelist", i>> /\ x.decision # "reject"}}

\* What FirstDecisionStands says of one row.
Stands(st, co, E, G, p) ==
  /\ Cardinality(FinalIn(G, p)) <= 1
  /\ st[p] \in {"absent", "pending"} <=> FinalIn(G, p) = {}
  /\ \A g \in FinalIn(G, p) :
       st[p] = IF g.decision = "accept" THEN "accepted" ELSE "rejected"
  /\ p[1] \in {"whitelist", "profile"} =>
       {e.by : e \in MadeIn(E, p)} = {g.by : g \in {x \in FinalIn(G, p) : x.decision = "accept"}}
  /\ p[1] = "whitelist" => co[p[2]] = Cardinality(ConfirmersIn(G, p[2]))

LEMMA StandsIs ==
  FirstDecisionStands <=>
    /\ \A p \in Proposals \ contended : Stands(status, confirmations, effects, granted, p)
    /\ \A a \in Alerts : <<"alert", a>> \notin contended => samples[a] <= 1
  BY DEF FirstDecisionStands, Stands, FinalIn, MadeIn, ConfirmersIn, Final, Made, Confirmers

LEMMA StandsNext ==
  FirstDecisionStands' <=>
    /\ \A p \in Proposals \ contended' : Stands(status', confirmations', effects', granted', p)
    /\ \A a \in Alerts : <<"alert", a>> \notin contended' => samples'[a] <= 1
  BY DEF FirstDecisionStands, Stands, FinalIn, MadeIn, ConfirmersIn, Final, Made, Confirmers

Answers == [of : Proposals, decision : {"confirm", "accept", "reject"}, by : Requests]
Effects == [of : Proposals, by : Requests, since : Nat]

LEMMA ConfirmersAreFinite ==
  ASSUME NEW G \in SUBSET Answers, NEW i
  PROVE  /\ ConfirmersIn(G, i) \subseteq Requests /\ IsFiniteSet(ConfirmersIn(G, i))
         /\ Cardinality(ConfirmersIn(G, i)) \in Nat
<1>1. ConfirmersIn(G, i) \subseteq Requests
  BY DEF ConfirmersIn, Answers
<1>2. IsFiniteSet(ConfirmersIn(G, i))
  BY <1>1, GovConstants, FS_Subset
<1> QED
  BY <1>1, <1>2, FS_CardinalityType

\* Answers only add confirmers.
LEMMA ConfirmersGrow ==
  ASSUME NEW G \in SUBSET Answers, NEW H \in SUBSET Answers, G \subseteq H, NEW i
  PROVE  Cardinality(ConfirmersIn(G, i)) <= Cardinality(ConfirmersIn(H, i))
<1>1. ConfirmersIn(G, i) \subseteq ConfirmersIn(H, i)
  BY DEF ConfirmersIn
<1> QED
  BY <1>1, ConfirmersAreFinite, FS_Subset

\* A confirmation by a request that has not answered yet is one more.
Confirms(G, H, i, r, d) ==
  /\ d # "reject" /\ \A g \in G : g.by # r
  /\ H = G \cup {[of |-> <<"whitelist", i>>, decision |-> d, by |-> r]}

LEMMA OneMoreConfirms ==
  ASSUME NEW G \in SUBSET Answers, NEW H, NEW i, NEW r \in Requests, NEW d,
         Confirms(G, H, i, r, d)
  PROVE  Cardinality(ConfirmersIn(H, i)) = Cardinality(ConfirmersIn(G, i)) + 1
<1> USE DEF Confirms
<1> DEFINE g0 == [of |-> <<"whitelist", i>>, decision |-> d, by |-> r]
<1>1. ConfirmersIn(G \cup {g0}, i) = ConfirmersIn(G, i) \cup {r}
  <2>1. g0.of = <<"whitelist", i>> /\ g0.decision # "reject" /\ g0.by = r
    OBVIOUS
  <2> HIDE DEF g0
  <2>2. {x \in G \cup {g0} : x.of = <<"whitelist", i>> /\ x.decision # "reject"}
          = {x \in G : x.of = <<"whitelist", i>> /\ x.decision # "reject"} \cup {g0}
    BY <2>1
  <2> QED
    BY <2>1, <2>2 DEF ConfirmersIn
<1>2. r \notin ConfirmersIn(G, i)
  BY DEF ConfirmersIn
<1>3. IsFiniteSet(ConfirmersIn(G, i))
  BY ConfirmersAreFinite
<1> QED
  BY <1>1, <1>2, <1>3, FS_AddElement

\* An answer about another row says nothing of this one.
LEMMA OtherRow ==
  ASSUME NEW st, NEW tt, NEW co, NEW do, NEW E, NEW F, NEW G, NEW g0, NEW p \in Proposals,
         Stands(st, co, E, G, p), tt[p] = st[p], g0.of # p,
         p[1] = "whitelist" => do[p[2]] = co[p[2]],
         E \subseteq F, \A e \in F \ E : e.of # p
  PROVE  Stands(tt, do, F, G \cup {g0}, p)
<1>1. FinalIn(G \cup {g0}, p) = FinalIn(G, p)
  BY DEF FinalIn
<1>2. MadeIn(F, p) = MadeIn(E, p)
  BY DEF MadeIn
<1>3. p[1] = "whitelist" => ConfirmersIn(G \cup {g0}, p[2]) = ConfirmersIn(G, p[2])
  <2>1. p = <<p[1], p[2]>>
    BY DEF Proposals
  <2> QED
    BY <2>1 DEF ConfirmersIn
<1> QED
  BY <1>1, <1>2, <1>3 DEF Stands

LEMMA DecideInvInit == Init => DecideInv
<1> SUFFICES ASSUME Init PROVE DecideInv
  OBVIOUS
<1>1. /\ \A r \in Requests : req[r].pc = "new"
      /\ granted = {} /\ contended = {} /\ effects = {} /\ archived = {}
      /\ \A a \in Alerts : samples[a] = 0
      /\ \A i \in Investigations : confirmations[i] = 0
      /\ \A p \in Proposals : status[p] \in {"absent", "pending"}
  BY DEF Init, Unused
<1>2. Asked /\ OverlapsShow /\ CopyIsFresh /\ RulesAreEarned /\ ArchiveIsEarned
  BY <1>1 DEF Asked, OverlapsShow, CopyIsFresh, RulesAreEarned, ArchiveIsEarned
<1>3. \A i : ConfirmersIn(granted, i) = {} /\ Cardinality(ConfirmersIn(granted, i)) = 0
  <2>1. \A i : ConfirmersIn(granted, i) = {}
    BY <1>1 DEF ConfirmersIn
  <2> QED
    BY <2>1, FS_EmptySet
<1>4. \A i \in Investigations : Cardinality(Confirmers(i)) = 0
  BY <1>3 DEF Confirmers, ConfirmersIn
<1>5. CountsAreBacked
  BY <1>1, <1>4 DEF CountsAreBacked
<1>6. ASSUME NEW p \in Proposals PROVE Stands(status, confirmations, effects, granted, p)
  <2>1. FinalIn(granted, p) = {} /\ MadeIn(effects, p) = {} /\ Cardinality(FinalIn(granted, p)) = 0
    <3>1. FinalIn(granted, p) = {} /\ MadeIn(effects, p) = {}
      BY <1>1 DEF FinalIn, MadeIn
    <3> QED
      BY <3>1, FS_EmptySet
  <2>2. p[2] \in Investigations
    BY DEF Proposals
  <2> QED
    BY <1>1, <1>3, <2>1, <2>2 DEF Stands
<1>7. FirstDecisionStands
  BY <1>1, <1>6, StandsIs
<1> QED
  BY <1>2, <1>5, <1>7 DEF DecideInv

LEMMA BackedIs ==
  /\ CountsAreBacked <=>
       /\ \A i \in Investigations : confirmations[i] <= Cardinality(ConfirmersIn(granted, i))
       /\ \A r \in Requests :
            req[r].pc = "read" /\ req[r].of # None /\ req[r].of[1] = "whitelist" =>
              req[r].count <= Cardinality(ConfirmersIn(granted, req[r].of[2]))
  /\ RulesAreEarned <=>
       \A e \in effects : e.of[1] = "whitelist" =>
         e.of[2] \in cases /\ Cardinality(ConfirmersIn(granted, e.of[2])) >= Threshold
  /\ ArchiveIsEarned <=>
       \A a \in archived : \E i \in cases :
         /\ PatternOf[i] = a.pattern
         /\ Cardinality(ConfirmersIn(granted, i)) >= Threshold
         /\ \E e \in effects : /\ e.of = <<"whitelist", i>>
                               /\ e.since <= a.at /\ a.at <= e.since + TTL
<1>1. \A i : Confirmers(i) = ConfirmersIn(granted, i)
  BY DEF Confirmers, ConfirmersIn
<1>2. \A i : Made(<<"whitelist", i>>) = {e \in effects : e.of = <<"whitelist", i>>}
  BY DEF Made
<1> QED
  BY <1>1, <1>2 DEF CountsAreBacked, RulesAreEarned, ArchiveIsEarned

LEMMA BackedNext ==
  /\ CountsAreBacked' <=>
       /\ \A i \in Investigations : confirmations'[i] <= Cardinality(ConfirmersIn(granted', i))
       /\ \A r \in Requests :
            req'[r].pc = "read" /\ req'[r].of # None /\ req'[r].of[1] = "whitelist" =>
              req'[r].count <= Cardinality(ConfirmersIn(granted', req'[r].of[2]))
  /\ RulesAreEarned' <=>
       \A e \in effects' : e.of[1] = "whitelist" =>
         e.of[2] \in cases' /\ Cardinality(ConfirmersIn(granted', e.of[2])) >= Threshold
  /\ ArchiveIsEarned' <=>
       \A a \in archived' : \E i \in cases' :
         /\ PatternOf[i] = a.pattern
         /\ Cardinality(ConfirmersIn(granted', i)) >= Threshold
         /\ \E e \in effects' : /\ e.of = <<"whitelist", i>>
                                /\ e.since <= a.at /\ a.at <= e.since + TTL
<1>1. CountsAreBacked' <=>
       /\ \A i \in Investigations : confirmations'[i] <= Cardinality(ConfirmersIn(granted', i))
       /\ \A r \in Requests :
            req'[r].pc = "read" /\ req'[r].of # None /\ req'[r].of[1] = "whitelist" =>
              req'[r].count <= Cardinality(ConfirmersIn(granted', req'[r].of[2]))
  BY DEF CountsAreBacked, Confirmers, ConfirmersIn
<1>2. RulesAreEarned' <=>
       \A e \in effects' : e.of[1] = "whitelist" =>
         e.of[2] \in cases' /\ Cardinality(ConfirmersIn(granted', e.of[2])) >= Threshold
  BY DEF RulesAreEarned, Confirmers, ConfirmersIn
<1>3. ArchiveIsEarned' <=>
       \A a \in archived' : \E i \in cases' :
         /\ PatternOf[i] = a.pattern
         /\ Cardinality(ConfirmersIn(granted', i)) >= Threshold
         /\ \E e \in effects' : /\ e.of = <<"whitelist", i>>
                                /\ e.since <= a.at /\ a.at <= e.since + TTL
  BY DEF ArchiveIsEarned, Made, Confirmers, ConfirmersIn
<1> QED
  BY <1>1, <1>2, <1>3

\* The pipeline adds rows that nobody has read or decided, and cases.
LEMMA DecideQuiet ==
  ASSUME GovTypes, DecideInv, cases \subseteq cases',
         UNCHANGED <<confirmations, effects, samples, req, granted, contended, archived>>,
         \A p \in Proposals : \/ status'[p] = status[p]
                              \/ status[p] = "absent" /\ status'[p] = "pending"
  PROVE  DecideInv'
<1>1. \A r \in Requests : req[r].of # None => req[r].of \in Proposals
  BY RequestFields
<1>2. Asked'
  BY <1>1 DEF DecideInv, Asked
<1>3. OverlapsShow'
  BY DEF DecideInv, OverlapsShow
<1>4. CopyIsFresh'
  BY <1>1 DEF DecideInv, Asked, CopyIsFresh
<1>5. CountsAreBacked' /\ RulesAreEarned' /\ ArchiveIsEarned'
  <2>1. CountsAreBacked /\ RulesAreEarned /\ ArchiveIsEarned
    BY DEF DecideInv
  <2>2. CountsAreBacked'
    BY <2>1, BackedIs, BackedNext
  <2>3. RulesAreEarned'
    BY <2>1, BackedIs, BackedNext
  <2>4. ArchiveIsEarned'
    BY <2>1, BackedIs, BackedNext
  <2> QED
    BY <2>2, <2>3, <2>4
<1>6. FirstDecisionStands'
  <2>1. FirstDecisionStands
    BY DEF DecideInv
  <2>2. ASSUME NEW p \in Proposals \ contended PROVE Stands(status', confirmations, effects, granted, p)
    <3>1. Stands(status, confirmations, effects, granted, p)
      BY <2>1, StandsIs
    <3>2. \/ status'[p] = status[p]
          \/ status[p] = "absent" /\ status'[p] = "pending" /\ FinalIn(granted, p) = {}
      BY <3>1 DEF Stands
    <3> QED
      BY <3>1, <3>2 DEF Stands
  <2> QED
    BY <2>1, <2>2, StandsIs, StandsNext
<1> QED
  BY <1>2, <1>3, <1>4, <1>5, <1>6 DEF DecideInv

\* A request that is answered leaves the others alone.
LEMMA AnswersOnce ==
  ASSUME GovTypes, NEW r \in Requests, Answered(r)
  PROVE  /\ req'[r].pc = "done"
         /\ \A q \in Requests \ {r} : req'[q] = req[q]
  BY DEF GovTypes, Answered

\* A request that has read something is the only one that changes, and has answered
\* nothing yet.
LEMMA RequestReads ==
  ASSUME GovTypes, DecideInv, NEW r \in Requests, req[r].pc = "new",
         \A q \in Requests \ {r} : req'[q] = req[q], req'[r].pc = "read",
         UNCHANGED <<cases, status, confirmations, effects, samples, granted, archived>>,
         contended \subseteq contended',
         req'[r].of # None =>
           /\ status[req'[r].of] # "absent" /\ req'[r].decision \in Decisions(req'[r].of[1])
           /\ req'[r].of \in Proposals
           /\ req'[r].status = status[req'[r].of] /\ req'[r].count = confirmations[req'[r].of[2]]
           /\ \A q \in Requests \ {r} :
                req[q].pc = "read" /\ req[q].of = req'[r].of => req[q].of \in contended',
         \A a \in req'[r].alerts :
           /\ samples[a] = 0
           /\ \A q \in Requests \ {r} :
                req[q].pc = "read" /\ a \in req[q].alerts => <<"alert", a>> \in contended'
  PROVE  DecideInv'
<1>1. Asked'
  <2>1. ASSUME NEW g \in granted PROVE req'[g.by].pc = "done"
    <3>1. req[g.by].pc = "done" /\ g.by \in Requests
      BY DEF DecideInv, Asked, GovTypes
    <3>2. g.by # r
      BY <3>1
    <3> QED
      BY <3>1, <3>2
  <2>2. ASSUME NEW q \in Requests, req'[q].pc = "read", req'[q].of # None
        PROVE  /\ status[req'[q].of] # "absent"
               /\ req'[q].decision \in Decisions(req'[q].of[1])
               /\ req'[q].status # "absent"
    <3>1. CASE q = r
      BY <2>2, <3>1
    <3>2. CASE q # r
      BY <2>2, <3>2 DEF DecideInv, Asked
    <3> QED
      BY <3>1, <3>2
  <2> QED
    BY <2>1, <2>2 DEF Asked
<1>2. OverlapsShow'
  <2>1. ASSUME NEW q \in Requests \ {r}, req[q].pc = "read"
        PROVE  /\ req[q].of = req'[r].of /\ req'[r].of # None => req[q].of \in contended'
               /\ \A a \in req[q].alerts \cap req'[r].alerts : <<"alert", a>> \in contended'
    BY <2>1
  <2>2. ASSUME NEW q \in Requests \ {r}, NEW s \in Requests \ {r}, q # s,
               req[q].pc = "read", req[s].pc = "read"
        PROVE  /\ req[q].of = req[s].of /\ req[q].of # None => req[q].of \in contended'
               /\ \A a \in req[q].alerts \cap req[s].alerts : <<"alert", a>> \in contended'
    BY <2>2 DEF DecideInv, OverlapsShow
  <2>3. ASSUME NEW q \in Requests, NEW s \in Requests, q # s,
               req'[q].pc = "read", req'[s].pc = "read"
        PROVE  /\ req'[q].of = req'[s].of /\ req'[q].of # None => req'[q].of \in contended'
               /\ \A a \in req'[q].alerts \cap req'[s].alerts : <<"alert", a>> \in contended'
    <3>1. CASE q = r
      BY <2>1, <2>3, <3>1
    <3>2. CASE s = r
      BY <2>1, <2>3, <3>2
    <3>3. CASE q # r /\ s # r
      BY <2>2, <2>3, <3>3
    <3> QED
      BY <3>1, <3>2, <3>3
  <2> QED
    BY <2>3 DEF OverlapsShow
<1>3. CopyIsFresh'
  BY DEF DecideInv, CopyIsFresh
<1>4. CountsAreBacked' /\ RulesAreEarned' /\ ArchiveIsEarned'
  <2>1. CountsAreBacked /\ RulesAreEarned /\ ArchiveIsEarned
    BY DEF DecideInv
  <2>2. CountsAreBacked'
    <3>1. req'[r].of # None => req'[r].of[2] \in Investigations
      BY DEF Proposals
    <3> QED
      BY <2>1, <3>1, BackedIs, BackedNext
  <2>3. RulesAreEarned'
    BY <2>1, BackedIs, BackedNext
  <2>4. ArchiveIsEarned'
    BY <2>1, BackedIs, BackedNext
  <2> QED
    BY <2>2, <2>3, <2>4
<1>5. FirstDecisionStands'
  BY StandsIs, StandsNext DEF DecideInv
<1> QED
  BY <1>1, <1>2, <1>3, <1>4, <1>5 DEF DecideInv

LEMMA DecideRead ==
  ASSUME GovTypes, DecideInv, NEW r \in Requests, Read(r)
  PROVE  DecideInv'
<1>1. PICK p \in Suggests :
        /\ status[p] # "absent"
        /\ \E d \in Decisions(p[1]) :
             req' = [req EXCEPT ![r] = [Unused EXCEPT
                       !.pc = "read", !.of = p, !.decision = d, !.status = status[p],
                       !.count = confirmations[p[2]]]]
        /\ Opens(r, {p})
  BY DEF Read
<1>2. PICK d \in Decisions(p[1]) :
        req' = [req EXCEPT ![r] = [Unused EXCEPT
                  !.pc = "read", !.of = p, !.decision = d, !.status = status[p],
                  !.count = confirmations[p[2]]]]
  BY <1>1
<1>3. /\ req'[r].pc = "read" /\ req'[r].of = p /\ req'[r].decision = d
      /\ req'[r].status = status[p] /\ req'[r].count = confirmations[p[2]]
      /\ req'[r].alerts = {}
      /\ \A q \in Requests \ {r} : req'[q] = req[q]
  BY <1>2 DEF GovTypes, Unused
<1>4. /\ req[r].pc = "new"
      /\ UNCHANGED <<cases, status, confirmations, effects, samples, granted, archived>>
  BY DEF Read, pipelineVars
<1>5. contended' = contended \cup ({p} \cap UNION {OpenBy(q) : q \in Requests \ {r}})
  BY <1>1 DEF Opens
<1>6. ASSUME NEW q \in Requests \ {r}, req[q].pc = "read", req[q].of = p
      PROVE  req[q].of \in contended'
  <2>1. p \in OpenBy(q)
    BY <1>6 DEF OpenBy, Copies
  <2> QED
    BY <1>5, <1>6, <2>1
<1>7. p \in Proposals
  BY GovConstants
<1> QED
  BY <1>1, <1>3, <1>4, <1>5, <1>6, <1>7, RequestReads

LEMMA DecideSampleRead ==
  ASSUME GovTypes, DecideInv, NEW r \in Requests, SampleRead(r)
  PROVE  DecideInv'
<1>1. /\ req' = [req EXCEPT ![r] = [Unused EXCEPT !.pc = "read", !.alerts = Unsampled]]
      /\ req[r].pc = "new"
      /\ UNCHANGED <<cases, status, confirmations, effects, samples, granted, archived>>
      /\ Opens(r, Copies({}, Unsampled))
  BY DEF SampleRead, pipelineVars
<1>2. /\ req'[r].pc = "read" /\ req'[r].of = None /\ req'[r].alerts = Unsampled
      /\ \A q \in Requests \ {r} : req'[q] = req[q]
  BY <1>1 DEF GovTypes, Unused
<1>3. contended' = contended \cup
        (({"alert"} \X Unsampled) \cap UNION {OpenBy(q) : q \in Requests \ {r}})
  BY <1>1 DEF Opens, Copies
<1>4. \A a \in Unsampled : samples[a] = 0
  BY DEF Unsampled
<1>5. ASSUME NEW a \in Unsampled, NEW q \in Requests \ {r}, req[q].pc = "read", a \in req[q].alerts
      PROVE  <<"alert", a>> \in contended'
  <2>1. <<"alert", a>> \in OpenBy(q)
    BY <1>5 DEF OpenBy, Copies
  <2>2. <<"alert", a>> \in {"alert"} \X Unsampled
    OBVIOUS
  <2> QED
    BY <1>3, <2>1, <2>2
<1>6. contended \subseteq contended'
  BY <1>3
<1>7. \A a \in req'[r].alerts :
        /\ samples[a] = 0
        /\ \A q \in Requests \ {r} :
             req[q].pc = "read" /\ a \in req[q].alerts => <<"alert", a>> \in contended'
  BY <1>2, <1>4, <1>5
<1> QED
  BY <1>1, <1>2, <1>6, <1>7, RequestReads

\* At most the alerts r has read are sampled, each once more.
SampledBy(r) ==
  \A a \in Alerts : \/ samples'[a] = samples[a]
                    \/ a \in req[r].alerts /\ samples'[a] = samples[a] + 1

\* Answering without a decision, and sampling.
LEMMA DecideAnswered ==
  ASSUME GovTypes, DecideInv, NEW r \in Requests, req[r].pc = "read", req'[r].pc = "done",
         \A q \in Requests \ {r} : req'[q] = req[q],
         UNCHANGED <<cases, status, confirmations, effects, granted, contended, archived>>,
         SampledBy(r)
  PROVE  DecideInv'
<1>1. /\ req'[r].pc = "done"
      /\ \A q \in Requests \ {r} : req'[q] = req[q]
  OBVIOUS
<1>2. \A q \in Requests : req'[q].pc = "read" => q # r /\ req'[q] = req[q]
  BY <1>1
<1>3. Asked'
  <2>1. ASSUME NEW g \in granted PROVE req'[g.by].pc = "done"
    <3>1. req[g.by].pc = "done" /\ g.by \in Requests
      BY DEF DecideInv, Asked, GovTypes
    <3> QED
      BY <1>1, <3>1
  <2>2. ASSUME NEW q \in Requests, req'[q].pc = "read", req'[q].of # None
        PROVE  /\ status[req'[q].of] # "absent"
               /\ req'[q].decision \in Decisions(req'[q].of[1])
               /\ req'[q].status # "absent"
    BY <1>2, <2>2 DEF DecideInv, Asked
  <2> QED
    BY <2>1, <2>2 DEF Asked
<1>4. OverlapsShow'
  BY <1>2 DEF DecideInv, OverlapsShow
<1>5. \A a \in Alerts : samples[a] \in Nat
  BY DEF GovTypes
<1>6. CopyIsFresh'
  <2>1. ASSUME NEW q \in Requests, req'[q].pc = "read", NEW a \in req'[q].alerts,
               <<"alert", a>> \notin contended
        PROVE  samples'[a] = 0
    <3>1. q # r /\ req'[q] = req[q] /\ a \in Alerts
      BY <1>2, <2>1, RequestFields
    <3>2. a \notin req[r].alerts
      BY <2>1, <3>1 DEF DecideInv, OverlapsShow
    <3>3. samples[a] = 0
      BY <2>1, <3>1 DEF DecideInv, CopyIsFresh
    <3> QED
      BY <3>1, <3>2, <3>3 DEF SampledBy
  <2> QED
    BY <1>2, <2>1 DEF DecideInv, CopyIsFresh
<1>7. CountsAreBacked' /\ RulesAreEarned' /\ ArchiveIsEarned'
  <2>1. CountsAreBacked /\ RulesAreEarned /\ ArchiveIsEarned
    BY DEF DecideInv
  <2>2. CountsAreBacked'
    BY <1>2, <2>1, BackedIs, BackedNext
  <2>3. RulesAreEarned'
    BY <2>1, BackedIs, BackedNext
  <2>4. ArchiveIsEarned'
    BY <2>1, BackedIs, BackedNext
  <2> QED
    BY <2>2, <2>3, <2>4
<1>8. FirstDecisionStands'
  <2>1. ASSUME NEW a \in Alerts, <<"alert", a>> \notin contended PROVE samples'[a] <= 1
    <3>1. samples[a] <= 1
      BY <2>1, StandsIs DEF DecideInv
    <3>2. a \in req[r].alerts => samples[a] = 0
      BY <2>1 DEF DecideInv, CopyIsFresh
    <3> QED
      BY <1>5, <3>1, <3>2 DEF SampledBy
  <2> QED
    BY <2>1, StandsIs, StandsNext DEF DecideInv
<1> QED
  BY <1>3, <1>4, <1>6, <1>7, <1>8 DEF DecideInv

LEMMA DecideArchive ==
  ASSUME GovTypes, DecideInv, Archive
  PROVE  DecideInv'
<1>1. UNCHANGED <<cases, status, confirmations, effects, samples, req, granted, contended>>
  BY DEF Archive, pipelineVars, history
<1>2. PICK rule \in effects :
        /\ rule.of[1] = "whitelist" /\ Effective(rule)
        /\ archived' = archived \cup {[pattern |-> PatternOf[rule.of[2]], at |-> clock]}
  BY DEF Archive
<1>3. /\ rule.of[2] \in cases /\ Cardinality(ConfirmersIn(granted, rule.of[2])) >= Threshold
      /\ rule.of = <<"whitelist", rule.of[2]>>
      /\ rule.since <= clock /\ clock <= rule.since + TTL
  BY <1>2, BackedIs DEF DecideInv, Effective, GovTypes, Proposals
<1>4. ArchiveIsEarned'
  <2>1. \A a \in archived : \E i \in cases :
         /\ PatternOf[i] = a.pattern
         /\ Cardinality(ConfirmersIn(granted, i)) >= Threshold
         /\ \E e \in effects : /\ e.of = <<"whitelist", i>>
                               /\ e.since <= a.at /\ a.at <= e.since + TTL
    BY BackedIs DEF DecideInv
  <2> DEFINE a0 == [pattern |-> PatternOf[rule.of[2]], at |-> clock]
  <2>2. \E i \in cases :
         /\ PatternOf[i] = a0.pattern
         /\ Cardinality(ConfirmersIn(granted, i)) >= Threshold
         /\ \E e \in effects : /\ e.of = <<"whitelist", i>>
                               /\ e.since <= a0.at /\ a0.at <= e.since + TTL
    BY <1>3
  <2> HIDE DEF a0
  <2>3. archived' = archived \cup {a0}
    BY <1>2 DEF a0
  <2>4. \A a \in archived' : \E i \in cases :
         /\ PatternOf[i] = a.pattern
         /\ Cardinality(ConfirmersIn(granted, i)) >= Threshold
         /\ \E e \in effects : /\ e.of = <<"whitelist", i>>
                               /\ e.since <= a.at /\ a.at <= e.since + TTL
    BY <2>1, <2>2, <2>3
  <2> QED
    BY <1>1, <2>4, BackedNext
<1>5. Asked' /\ OverlapsShow' /\ CopyIsFresh'
  BY <1>1 DEF DecideInv, Asked, OverlapsShow, CopyIsFresh
<1>6. CountsAreBacked' /\ RulesAreEarned'
  BY <1>1, BackedIs, BackedNext DEF DecideInv
<1>7. FirstDecisionStands'
  BY <1>1, StandsIs, StandsNext DEF DecideInv
<1> QED
  BY <1>4, <1>5, <1>6, <1>7 DEF DecideInv

\* The row a decision was about, when nobody else had it open.
Decides(st, tt, co, do, E, F, G, H, p, r, d) ==
  /\ H = G \cup {[of |-> p, decision |-> d, by |-> r]}
  /\ Stands(st, co, E, G, p) /\ \A g \in G : g.by # r
  /\ st[p] = "pending"
  /\ d = "confirm" => p[1] = "whitelist" /\ tt[p] = st[p]
  /\ d = "accept" => tt[p] = "accepted"
  /\ d = "reject" => tt[p] = "rejected"
  /\ p[1] = "whitelist" =>
       co[p[2]] \in Nat /\ do[p[2]] = IF d = "reject" THEN co[p[2]] ELSE co[p[2]] + 1
  /\ \A e \in E : e.of = p => e \in F
  /\ p[1] \in {"whitelist", "profile"} =>
       /\ \A e \in F : e.of = p => e \in E \/ (d = "accept" /\ e.by = r)
       /\ d = "accept" => \E e \in F : e.of = p /\ e.by = r

LEMMA DecidedRow ==
  ASSUME NEW st, NEW tt, NEW co, NEW do, NEW E, NEW F, NEW G \in SUBSET Answers,
         NEW K, NEW p \in Proposals, NEW r \in Requests,
         NEW d \in {"confirm", "accept", "reject"},
         Decides(st, tt, co, do, E, F, G, K, p, r, d)
  PROVE  Stands(tt, do, F, K, p)
<1> USE DEF Decides
<1> DEFINE g0 == [of |-> p, decision |-> d, by |-> r]
           H == G \cup {g0}
<1>1. g0.of = p /\ g0.decision = d /\ g0.by = r
  OBVIOUS
<1> HIDE DEF g0
<1>2. FinalIn(H, p) = IF d = "confirm" THEN FinalIn(G, p) ELSE FinalIn(G, p) \cup {g0}
  BY <1>1 DEF FinalIn
<1>3. FinalIn(G, p) = {}
  BY DEF Stands
<1>4. Cardinality(FinalIn(H, p)) <= 1
  <2>1. FinalIn(G, p) = {} => FinalIn(H, p) = {} \/ FinalIn(H, p) = {g0}
    BY <1>2
  <2>2. Cardinality({}) = 0 /\ Cardinality({g0}) = 1
    BY FS_EmptySet, FS_Singleton
  <2>3. Cardinality(FinalIn(H, p)) = 0 \/ Cardinality(FinalIn(H, p)) = 1
    <3> HIDE DEF H
    <3> QED
      BY <1>3, <2>1, <2>2
  <2> QED
    BY <2>3
<1>5. tt[p] \in {"absent", "pending"} <=> FinalIn(H, p) = {}
  <2>1. CASE d = "confirm"
    BY <1>2, <2>1 DEF Stands
  <2>2. CASE d # "confirm"
    <3>1. g0 \in FinalIn(H, p)
      BY <1>2, <2>2
    <3>2. tt[p] \notin {"absent", "pending"}
      BY <2>2
    <3> QED
      BY <3>1, <3>2
  <2> QED
    BY <2>1, <2>2
<1>6. \A g \in FinalIn(H, p) :
        tt[p] = IF g.decision = "accept" THEN "accepted" ELSE "rejected"
  <2>1. ASSUME NEW g \in FinalIn(H, p) PROVE g = g0 /\ d # "confirm"
    BY <1>2, <1>3
  <2> QED
    BY <1>1, <2>1
<1>7. p[1] \in {"whitelist", "profile"} =>
        {e.by : e \in MadeIn(F, p)} = {g.by : g \in {x \in FinalIn(H, p) : x.decision = "accept"}}
  <2> SUFFICES ASSUME p[1] \in {"whitelist", "profile"}
               PROVE  {e.by : e \in MadeIn(F, p)}
                        = {g.by : g \in {x \in FinalIn(H, p) : x.decision = "accept"}}
    OBVIOUS
  <2>1. FinalIn(G, p) = {}
    BY <1>3
  <2>2. \A e \in E : e.of # p
    <3>1. {e.by : e \in MadeIn(E, p)} = {g.by : g \in {x \in FinalIn(G, p) : x.decision = "accept"}}
      BY DEF Stands
    <3>2. \A e \in MadeIn(E, p) : FALSE
      BY <2>1, <3>1
    <3> QED
      BY <3>2 DEF MadeIn
  <2>3. CASE d = "accept"
    <3>1. \A e \in MadeIn(F, p) : e.by = r
      BY <2>2 DEF MadeIn
    <3>2. \E e \in MadeIn(F, p) : e.by = r
      BY <2>3 DEF MadeIn
    <3>3. {e.by : e \in MadeIn(F, p)} = {r}
      BY <3>1, <3>2
    <3>4. {x \in FinalIn(H, p) : x.decision = "accept"} = {g0}
      BY <1>1, <1>2, <2>1, <2>3
    <3>5. {g.by : g \in {g0}} = {r}
      BY <1>1
    <3> QED
      BY <3>3, <3>4, <3>5
  <2>4. CASE d # "accept"
    <3>1. \A e \in MadeIn(F, p) : FALSE
      BY <2>2, <2>4 DEF MadeIn
    <3>2. \A x \in FinalIn(H, p) : x.decision # "accept"
      BY <1>1, <1>2, <2>1, <2>4
    <3> QED
      BY <3>1, <3>2
  <2> QED
    BY <2>3, <2>4
<1>8. p[1] = "whitelist" => do[p[2]] = Cardinality(ConfirmersIn(H, p[2]))
  <2> SUFFICES ASSUME p[1] = "whitelist" PROVE do[p[2]] = Cardinality(ConfirmersIn(H, p[2]))
    OBVIOUS
  <2>1. p = <<"whitelist", p[2]>>
    BY DEF Proposals
  <2>2. co[p[2]] = Cardinality(ConfirmersIn(G, p[2]))
    BY DEF Stands
  <2>3. CASE d = "reject"
    <3>1. ConfirmersIn(H, p[2]) = ConfirmersIn(G, p[2])
      BY <1>1, <2>3 DEF ConfirmersIn
    <3> QED
      BY <2>2, <2>3, <3>1
  <2>4. CASE d # "reject"
    <3>1. g0 = [of |-> <<"whitelist", p[2]>>, decision |-> d, by |-> r]
      BY <2>1 DEF g0
    <3>2. Confirms(G, H, p[2], r, d)
      BY <2>4, <3>1 DEF Confirms
    <3> HIDE DEF H
    <3>3. Cardinality(ConfirmersIn(H, p[2])) = Cardinality(ConfirmersIn(G, p[2])) + 1
      BY <3>2, OneMoreConfirms
    <3> QED
      BY <2>2, <2>4, <3>3
  <2> QED
    BY <2>3, <2>4
<1>9. Stands(tt, do, F, H, p)
  <2> HIDE DEF H
  <2> QED
    BY <1>4, <1>5, <1>6, <1>7, <1>8 DEF Stands
<1> QED
  BY <1>9 DEF g0

LEMMA DecideDecide ==
  ASSUME GovTypes, PipeInv, DecideInv, NEW r \in Requests, Decide(r)
  PROVE  DecideInv'
<1>1. PICK p \in Proposals : p = req[r].of /\ p \in Suggests
  BY RequestFields DEF Decide
<1>2. PICK d \in {"confirm", "accept", "reject"} : d = Outcome(r)
  BY <1>1, GovConstants DEF Outcome, GovTypes
<1>3. /\ req[r].pc = "read" /\ p # None /\ Decidable(r) /\ Answered(r)
      /\ UNCHANGED <<cases, samples, archived, contended>>
      /\ granted' = granted \cup {[of |-> p, decision |-> d, by |-> r]}
      /\ confirmations' = IF req[r].decision = "confirm"
                          THEN [confirmations EXCEPT ![p[2]] = req[r].count + 1]
                          ELSE confirmations
      /\ status' = CASE d = "accept" -> [status EXCEPT ![p] = "accepted"]
                     [] d = "reject" -> [status EXCEPT ![p] = "rejected"]
                     [] OTHER -> status
      /\ effects' = IF d = "accept" /\ p[1] \in {"whitelist", "profile"}
                    THEN effects \cup {[of |-> p, by |-> r, since |-> clock]} ELSE effects
  BY <1>1, <1>2 DEF Decide, pipelineVars
<1>4. /\ p = <<p[1], p[2]>> /\ p[1] \in Kinds /\ p[2] \in Investigations
      /\ req[r].count \in Nat /\ \A i \in Investigations : confirmations[i] \in Nat
  BY RequestFields DEF Proposals, GovTypes
<1>5. /\ req'[r].pc = "done"
      /\ \A q \in Requests \ {r} : req'[q] = req[q]
  BY <1>3, AnswersOnce
<1>6. \A q \in Requests : req'[q].pc = "read" => q # r /\ req'[q] = req[q]
  BY <1>5
<1>7. /\ status[p] # "absent" /\ req[r].decision \in Decisions(p[1])
      /\ \A g \in granted : req[g.by].pc = "done" /\ g.by \in Requests /\ g.by # r
  BY <1>1, <1>3 DEF DecideInv, Asked, GovTypes
\* Only a candidate is confirmed, and what becomes of a confirmation.
<1>8. /\ req[r].decision = "confirm" <=> p[1] = "whitelist" /\ d # "reject"
      /\ d = "confirm" => p[1] = "whitelist"
      /\ p[1] = "whitelist" /\ d = "accept" => req[r].count + 1 >= Threshold
  BY <1>2, <1>7 DEF Outcome, Promotes, Decisions
<1>9. /\ \A s \in Proposals : s # p => status'[s] = status[s]
      /\ d = "accept" => status'[p] = "accepted"
      /\ d = "reject" => status'[p] = "rejected"
      /\ d = "confirm" => status'[p] = status[p]
  BY <1>3 DEF GovTypes
<1>10. /\ \A i \in Investigations : i # p[2] => confirmations'[i] = confirmations[i]
       /\ p[1] # "whitelist" \/ d = "reject" => confirmations' = confirmations
       /\ p[1] = "whitelist" /\ d # "reject" => confirmations'[p[2]] = req[r].count + 1
  BY <1>3, <1>4, <1>8 DEF GovTypes
<1>11. granted \in SUBSET Answers /\ granted' \in SUBSET Answers
  BY <1>3 DEF GovTypes, Answers
<1>12. Asked'
  <2>1. ASSUME NEW g \in granted' PROVE req'[g.by].pc = "done"
    <3>1. CASE g \in granted
      BY <1>5, <1>7, <3>1
    <3>2. CASE g.by = r
      BY <1>5, <3>2
    <3> QED
      BY <1>3, <3>1, <3>2
  <2>2. ASSUME NEW q \in Requests, req'[q].pc = "read", req'[q].of # None
        PROVE  /\ status'[req'[q].of] # "absent"
               /\ req'[q].decision \in Decisions(req'[q].of[1])
               /\ req'[q].status # "absent"
    <3>1. req'[q] = req[q] /\ req[q].of \in Proposals
      BY <1>6, <2>2, RequestFields
    <3>2. /\ status[req[q].of] # "absent" /\ req[q].decision \in Decisions(req[q].of[1])
          /\ req[q].status # "absent"
      BY <2>2, <3>1 DEF DecideInv, Asked
    <3> QED
      BY <1>9, <3>1, <3>2
  <2> QED
    BY <2>1, <2>2 DEF Asked
<1>13. OverlapsShow'
  BY <1>3, <1>6 DEF DecideInv, OverlapsShow
<1>14. CopyIsFresh'
  <2>1. ASSUME NEW q \in Requests, req'[q].pc = "read", req'[q].of # None,
               req'[q].of \notin contended
        PROVE  /\ req'[q].status = status'[req'[q].of]
               /\ req'[q].of[1] = "whitelist" => req'[q].count = confirmations'[req'[q].of[2]]
    <3>1. q # r /\ req'[q] = req[q] /\ req[q].of \in Proposals
      BY <1>6, <2>1, RequestFields
    <3>2. req[q].of # p
      BY <1>1, <1>3, <2>1, <3>1 DEF DecideInv, OverlapsShow
    <3>3. /\ req[q].status = status[req[q].of]
          /\ req[q].of[1] = "whitelist" => req[q].count = confirmations[req[q].of[2]]
      BY <2>1, <3>1 DEF DecideInv, CopyIsFresh
    <3>4. req[q].of[1] = "whitelist" => confirmations'[req[q].of[2]] = confirmations[req[q].of[2]]
      <4>1. req[q].of = <<req[q].of[1], req[q].of[2]>> /\ req[q].of[2] \in Investigations
        BY <3>1 DEF Proposals
      <4> QED
        BY <1>4, <1>10, <3>2, <4>1
    <3> QED
      BY <1>9, <3>1, <3>2, <3>3, <3>4
  <2>2. ASSUME NEW q \in Requests, req'[q].pc = "read", NEW a \in req'[q].alerts,
               <<"alert", a>> \notin contended
        PROVE  samples[a] = 0
    BY <1>6, <2>2 DEF DecideInv, CopyIsFresh
  <2> QED
    BY <1>3, <2>1, <2>2 DEF CopyIsFresh
<1>15. \A i : Cardinality(ConfirmersIn(granted, i)) <= Cardinality(ConfirmersIn(granted', i))
  BY <1>3, <1>11, ConfirmersGrow
<1>16. \A i : /\ Cardinality(ConfirmersIn(granted, i)) \in Nat
              /\ Cardinality(ConfirmersIn(granted', i)) \in Nat
  BY <1>11, ConfirmersAreFinite
<1>17. p[1] = "whitelist" /\ d # "reject" =>
         Cardinality(ConfirmersIn(granted', p[2])) = Cardinality(ConfirmersIn(granted, p[2])) + 1
  <2>1. CASE p[1] = "whitelist" /\ d # "reject"
    <3>1. p = <<"whitelist", p[2]>>
      BY <1>4, <2>1
    <3>2. granted' = granted \cup {[of |-> <<"whitelist", p[2]>>, decision |-> d, by |-> r]}
      BY <1>3, <3>1
    <3> QED
      <4>1. Confirms(granted, granted', p[2], r, d)
        BY <1>7, <2>1, <3>2 DEF Confirms
      <4> QED
        BY <1>11, <4>1, OneMoreConfirms
  <2> QED
    BY <2>1
<1>18. CountsAreBacked /\ RulesAreEarned /\ ArchiveIsEarned /\ FirstDecisionStands
  BY DEF DecideInv
<1>19. p[1] = "whitelist" => req[r].count <= Cardinality(ConfirmersIn(granted, p[2]))
  BY <1>1, <1>3, <1>18, BackedIs
<1>20. CountsAreBacked'
  <2>1. ASSUME NEW i \in Investigations
        PROVE  confirmations'[i] <= Cardinality(ConfirmersIn(granted', i))
    <3>1. confirmations[i] <= Cardinality(ConfirmersIn(granted, i))
      BY <1>18, BackedIs
    <3>2. CASE confirmations'[i] = confirmations[i]
      BY <1>4, <1>15, <1>16, <3>1, <3>2
    <3>3. CASE i = p[2] /\ p[1] = "whitelist" /\ d # "reject"
      BY <1>4, <1>10, <1>16, <1>17, <1>19, <3>3
    <3> QED
      BY <1>10, <3>2, <3>3
  <2>2. ASSUME NEW q \in Requests, req'[q].pc = "read", req'[q].of # None,
               req'[q].of[1] = "whitelist"
        PROVE  req'[q].count <= Cardinality(ConfirmersIn(granted', req'[q].of[2]))
    <3>1. req'[q] = req[q] /\ req[q].count \in Nat
      BY <1>6, <2>2, RequestFields
    <3>2. req[q].count <= Cardinality(ConfirmersIn(granted, req[q].of[2]))
      BY <1>18, <2>2, <3>1, BackedIs
    <3> QED
      BY <1>15, <1>16, <3>1, <3>2
  <2> QED
    BY <2>1, <2>2, BackedNext
<1>21. RulesAreEarned'
  <2>1. ASSUME NEW e \in effects', e.of[1] = "whitelist"
        PROVE  e.of[2] \in cases /\ Cardinality(ConfirmersIn(granted', e.of[2])) >= Threshold
    <3>1. CASE e \in effects
      <4>1. e.of[2] \in cases /\ Cardinality(ConfirmersIn(granted, e.of[2])) >= Threshold
        BY <1>18, <2>1, <3>1, BackedIs
      <4> QED
        BY <1>15, <1>16, <4>1, GovConstants
    <3>2. CASE e.of = p /\ d = "accept"
      <4>1. p[2] \in cases
        BY <1>7, <2>1, <3>2 DEF PipeInv, RowsHaveCases, Settled
      <4> QED
        BY <1>4, <1>8, <1>16, <1>17, <1>19, <2>1, <3>2, <4>1, GovConstants
    <3> QED
      BY <1>3, <3>1, <3>2
  <2> QED
    BY <1>3, <2>1, BackedNext
<1>22. ArchiveIsEarned'
  <2>1. ASSUME NEW a \in archived
        PROVE  \E i \in cases :
                 /\ PatternOf[i] = a.pattern
                 /\ Cardinality(ConfirmersIn(granted', i)) >= Threshold
                 /\ \E e \in effects' : /\ e.of = <<"whitelist", i>>
                                        /\ e.since <= a.at /\ a.at <= e.since + TTL
    <3>1. PICK i \in cases :
            /\ PatternOf[i] = a.pattern
            /\ Cardinality(ConfirmersIn(granted, i)) >= Threshold
            /\ \E e \in effects : /\ e.of = <<"whitelist", i>>
                                  /\ e.since <= a.at /\ a.at <= e.since + TTL
      BY <1>18, BackedIs
    <3>2. Cardinality(ConfirmersIn(granted', i)) >= Threshold
      BY <1>15, <1>16, <3>1, GovConstants
    <3>3. effects \subseteq effects'
      BY <1>3
    <3> QED
      BY <3>1, <3>2, <3>3
  <2> QED
    BY <1>3, <2>1, BackedNext
<1>23. FirstDecisionStands'
  <2>1. ASSUME NEW s \in Proposals \ contended
        PROVE  Stands(status', confirmations', effects', granted', s)
    <3>1. Stands(status, confirmations, effects, granted, s)
      BY <1>18, <2>1, StandsIs
    <3> DEFINE g0 == [of |-> p, decision |-> d, by |-> r]
    <3>2. granted' = granted \cup {g0} /\ g0.of = p
      BY <1>3
    <3>3. CASE s # p
      <4>1. s[1] = "whitelist" => confirmations'[s[2]] = confirmations[s[2]]
        <5>1. s = <<s[1], s[2]>> /\ s[2] \in Investigations
          BY DEF Proposals
        <5> QED
          BY <1>4, <1>10, <3>3, <5>1
      <4>2. effects \subseteq effects' /\ \A e \in effects' \ effects : e.of # s
        BY <1>3, <3>3
      <4>3. status'[s] = status[s]
        BY <1>9, <3>3
      <4> HIDE DEF g0
      <4> QED
        BY <3>1, <3>2, <3>3, <4>1, <4>2, <4>3, OtherRow
    <3>4. CASE s = p
      <4>1. /\ req[r].status = status[p]
            /\ p[1] = "whitelist" => req[r].count = confirmations[p[2]]
        BY <1>1, <1>3, <2>1, <3>4 DEF DecideInv, CopyIsFresh
      <4>2. status[p] = "pending"
        BY <1>1, <1>3, <4>1 DEF Decidable
      <4>3. /\ p[1] = "whitelist" /\ d # "reject" => confirmations'[p[2]] = confirmations[p[2]] + 1
            /\ p[1] = "whitelist" /\ d = "reject" => confirmations'[p[2]] = confirmations[p[2]]
        BY <1>10, <4>1
      <4>4. \A e \in effects : e.of = p => e \in effects'
        BY <1>3
      <4>5. \A e \in effects' : e.of = p => e \in effects \/ (d = "accept" /\ e.by = r)
        BY <1>3
      <4>6. p[1] \in {"whitelist", "profile"} /\ d = "accept" => \E e \in effects' : e.of = p /\ e.by = r
        <5>1. CASE p[1] \in {"whitelist", "profile"} /\ d = "accept"
          <6>1. [of |-> p, by |-> r, since |-> clock] \in effects'
            BY <1>3, <5>1
          <6> QED
            BY <6>1
        <5> QED
          BY <5>1
      <4>7. \A g \in granted : g.by # r
        BY <1>7
      <4>8. confirmations[p[2]] \in Nat
        BY <1>4
      <4>9. d = "confirm" => p[1] = "whitelist" /\ status'[p] = status[p]
        BY <1>8, <1>9
      <4>10. d = "accept" => status'[p] = "accepted"
        BY <1>9
      <4>11. d = "reject" => status'[p] = "rejected"
        BY <1>9
      <4>12. p[1] = "whitelist" =>
               confirmations'[p[2]] = IF d = "reject" THEN confirmations[p[2]]
                                      ELSE confirmations[p[2]] + 1
        BY <4>3
      <4>13. Decides(status, status', confirmations, confirmations', effects, effects', granted,
                     granted', p, r, d)
        BY <3>1, <3>2, <3>4, <4>2, <4>4, <4>5, <4>6, <4>7, <4>8, <4>9, <4>10, <4>11, <4>12 DEF Decides
      <4>14. Stands(status', confirmations', effects', granted', p)
        BY <1>11, <4>13, DecidedRow
      <4> QED
        BY <3>4, <4>14
    <3> QED
      BY <3>3, <3>4
  <2>2. ASSUME NEW a \in Alerts, <<"alert", a>> \notin contended PROVE samples[a] <= 1
    BY <1>18, <2>2, StandsIs
  <2> QED
    BY <1>3, <2>1, <2>2, StandsNext
<1> QED
  BY <1>12, <1>13, <1>14, <1>20, <1>21, <1>22, <1>23 DEF DecideInv

LEMMA DecideStep == GovTypes /\ PipeInv /\ DecideInv /\ [Next]_vars => DecideInv'
<1> SUFFICES ASSUME GovTypes, PipeInv, DecideInv, [Next]_vars PROVE DecideInv'
  OBVIOUS
<1>1. ASSUME NEW w \in Settlers, Pick(w) \/ Settle(w) \/ SettleFails(w) \/ Abort(w)
      PROVE  DecideInv'
  <2>1. UNCHANGED <<cases, status, confirmations, effects, samples, req, granted, contended,
                    archived>>
    BY <1>1 DEF Pick, Settle, SettleFails, Abort, history
  <2> QED
    BY <2>1, DecideQuiet
<1>2. ASSUME NEW w \in Settlers, Commit(w) PROVE DecideInv'
  <2>1. /\ UNCHANGED <<confirmations, effects, samples, req, granted, contended, archived>>
        /\ cases' = cases \cup settler[w].cases
        /\ \A p \in Proposals :
             status'[p] = IF p \in settler[w].added THEN "pending" ELSE status[p]
    BY <1>2 DEF Commit, history
  <2>2. ASSUME NEW p \in settler[w].added, p \in Proposals PROVE status[p] = "absent"
    <3>1. p[1] \in Settled /\ p[2] \notin cases
      BY DEF PipeInv, NewCases
    <3> QED
      BY <2>2, <3>1 DEF PipeInv, RowsHaveCases
  <2>3. \A p \in Proposals : \/ status'[p] = status[p]
                             \/ status[p] = "absent" /\ status'[p] = "pending"
    BY <2>1, <2>2
  <2>4. cases \subseteq cases'
    BY <2>1
  <2> QED
    BY <2>1, <2>3, <2>4, DecideQuiet
<1>3. ASSUME NEW r \in Requests, Refuse(r) PROVE DecideInv'
  <2>1. /\ req[r].pc = "read" /\ Answered(r)
        /\ UNCHANGED <<cases, status, confirmations, effects, samples, granted, contended,
                       archived>>
    BY <1>3 DEF Refuse, pipelineVars, history
  <2>2. req'[r].pc = "done" /\ \A q \in Requests \ {r} : req'[q] = req[q]
    BY <2>1, AnswersOnce
  <2>3. SampledBy(r)
    BY <2>1 DEF SampledBy
  <2> QED
    BY <2>1, <2>2, <2>3, DecideAnswered
<1>4. ASSUME NEW r \in Requests, SampleCommit(r) PROVE DecideInv'
  <2>1. /\ req[r].pc = "read" /\ Answered(r)
        /\ UNCHANGED <<cases, status, confirmations, effects, granted, contended, archived>>
        /\ \A a \in Alerts : samples'[a] = samples[a] + IF a \in req[r].alerts THEN 1 ELSE 0
        /\ \A a \in Alerts : samples[a] \in Nat
    BY <1>4 DEF SampleCommit, GovTypes, pipelineVars, history
  <2>2. SampledBy(r)
    BY <2>1 DEF SampledBy
  <2>3. req'[r].pc = "done" /\ \A q \in Requests \ {r} : req'[q] = req[q]
    BY <2>1, AnswersOnce
  <2> QED
    BY <2>1, <2>2, <2>3, DecideAnswered
<1>5. ASSUME NEW r \in Requests, Read(r) \/ SampleRead(r) \/ Decide(r) PROVE DecideInv'
  BY <1>5, DecideRead, DecideSampleRead, DecideDecide
<1>6. CASE Archive
  BY <1>6, DecideArchive
<1>7. CASE Tick \/ UNCHANGED vars
  <2>1. UNCHANGED <<cases, status, confirmations, effects, samples, req, granted, contended,
                    archived>>
    BY <1>7 DEF Tick, vars, pipelineVars, history
  <2> QED
    BY <2>1, DecideQuiet
<1> QED
  BY <1>1, <1>2, <1>3, <1>4, <1>5, <1>6, <1>7 DEF Next

LEMMA GovInit == Init => GovInv
  BY GovTypesInit, PipeInit, DecideInvInit DEF GovInv

LEMMA GovStep == GovInv /\ [Next]_vars => GovInv'
  BY GovTypesStep, PipeStep, DecideStep DEF GovInv

\* An alert is archived unseen only while a promotion lives, and behind it are as many
\* operators as the threshold asks for, whatever requests overlapped on the candidate
\* (confirm_candidate, WhitelistHandler).
THEOREM ArchivesAreEarned == Spec => []ArchiveIsEarned
<1>1. GovInv => ArchiveIsEarned
  BY DEF GovInv, DecideInv
<1> QED
  BY <1>1, GovInit, GovStep, PTL DEF Spec

\* On a row that no two requests had open at a time the first decision stands, with its
\* one effect and every confirmation counted; an alert is sampled once (the promoter, the
\* applier, AuditSampleService.run).
THEOREM DecisionsStand == Spec => []FirstDecisionStands
<1>1. GovInv => FirstDecisionStands
  BY DEF GovInv, DecideInv
<1> QED
  BY <1>1, GovInit, GovStep, PTL DEF Spec

\* A settled investigation has its suggestions, unless a builder raised, and a pattern has
\* one pending candidate at most, for any batches and runs of the pipeline
\* (create_whitelist_candidate_if_applicable).
THEOREM SuggestionsAreKept == Spec => []SuggestionsKept
<1>1. GovInv => SuggestionsKept
  <2> SUFFICES ASSUME GovInv PROVE SuggestionsKept
    OBVIOUS
  <2>1. OnePending /\ Gathered /\ RowsHaveCases
    BY DEF GovInv, PipeInv, OneWaiting
  <2>2. ASSUME NEW i \in cases \ lost, NEW p \in Suggests, p[2] = i, p[1] # "whitelist"
        PROVE  status[p] # "absent"
    <3>1. CASE p[1] = "profile"
      BY <2>1, <2>2, <3>1 DEF Gathered, InTable
    <3>2. CASE p[1] \notin Settled
      BY <2>1, <3>2, GovConstants DEF RowsHaveCases
    <3> QED
      BY <2>2, <3>1, <3>2 DEF Settled
  <2>3. \A i \in cases \ lost : <<"whitelist", i>> \in Suggests =>
          \E j \in Investigations :
            PatternOf[j] = PatternOf[i] /\ status[<<"whitelist", j>>] # "absent"
    BY <2>1 DEF Gathered, InTable
  <2> QED
    BY <2>1, <2>2, <2>3 DEF SuggestionsKept
<1> QED
  BY <1>1, GovInit, GovStep, PTL DEF Spec
=============================================================================
