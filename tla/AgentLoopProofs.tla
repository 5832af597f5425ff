--------------------------- MODULE AgentLoopProofs ----------------------------
(***************************************************************************)
(* For any skills, limits, templates and answers of the LLM: the chat      *)
(* protocol is kept, and the loop with the audit implements the contract   *)
(* of Inquiry.                                                             *)
(***************************************************************************)
EXTENDS AgentLoop, FiniteSetTheorems, WellFoundedInduction, TLAPS

\* The messages so far answer the calls before the current one, in order.
Protocol ==
  /\ phase = "chat" => answers = [i \in 1 .. Len(calls) |-> i]
  /\ phase \in {"calls", "skill"} => answers = [i \in 1 .. at - 1 |-> i]

\* skills_called runs ahead of the tool-call rows by the skill being run only, and a
\* settling result waits with every required skill tried.
Evidence ==
  /\ phase \in {"chat", "calls"} => called \subseteq Tried
  /\ phase = "skill" => called \ {calls[at]} \subseteq Tried
  /\ phase \in {"looped", "concluded"} => result \in Results
  /\ phase = "looped" /\ result.verdict \in SettleVerdicts /\ ClosureEnabled
       => RequiredSkills \subseteq Tried

LoopInv == TypeOK /\ Protocol /\ Evidence

LEMMA Numbers == SkillRetries \in Nat /\ MaxCalls \in Nat
  BY AgentLoopAssumption

LEMMA LoopInit == Init => LoopInv
<1> SUFFICES ASSUME Init PROVE LoopInv
  OBVIOUS
<1>1. rows \in [Skills -> [ok : Nat, failed : Nat]]
  BY DEF Init
<1>2. calls \in Seq(Skills \cup Verdicts \cup {Malformed}) /\ answers \in Seq(Nat)
  BY DEF Init
<1>3. /\ phase = "chat" /\ called = {} /\ aborted = FALSE /\ result = None
      /\ step = 0 /\ at = 0 /\ skillCalls = 0 /\ attempt = 0 /\ closures = 0 /\ drafts = 0
  BY DEF Init
<1>4. TypeOK
  <2>1. step \in Nat /\ at \in Nat /\ skillCalls \in Nat /\ closures \in Nat /\ drafts \in Nat
    BY <1>3
  <2>2. attempt \in 0 .. SkillRetries
    BY <1>3, Numbers
  <2>3. /\ phase \in {"chat", "calls", "skill", "looped", "concluded", "failed"}
        /\ phase \notin {"calls", "skill"}
    BY <1>3
  <2>4. called \subseteq Skills /\ aborted \in BOOLEAN /\ result \in {None} \cup Results
    BY <1>3
  <2> QED
    BY <1>1, <1>2, <2>1, <2>2, <2>3, <2>4 DEF TypeOK
<1>5. Protocol /\ Evidence
  BY DEF Init, Protocol, Evidence
<1> QED
  BY <1>4, <1>5 DEF LoopInv

\* Handing over is a verdict and settles nothing.
LEMMA HandsOver == HandOver \in Verdicts /\ HandOver \notin SettleVerdicts
  BY AgentLoopAssumption DEF Verdicts

\* The tool message for the current call moves the protocol on by one.
LEMMA AnswerMoves ==
  ASSUME TypeOK, Protocol, phase \in {"calls", "skill"}, Answer, calls' = calls
  PROVE  /\ Protocol' /\ phase' \in {"chat", "calls"}
         /\ at' \in Nat /\ answers' \in Seq(Nat)
         /\ phase' = "calls" => at' \in 1 .. Len(calls')
<1>1. at \in 1 .. Len(calls) /\ at' = at + 1 /\ Len(calls) \in Nat
  BY DEF TypeOK, Answer
<1>2. answers = [i \in 1 .. at - 1 |-> i] /\ answers' = Append(answers, at)
  BY DEF Protocol, Answer
<1>3. answers' = [i \in 1 .. at |-> i]
  BY <1>1, <1>2
<1>4. answers' \in Seq(Nat)
  BY <1>1, <1>3
<1> QED
  BY <1>1, <1>3, <1>4 DEF Answer, Protocol

\* What the loop returns is a result, and the conversation is over.
LEMMA ReturnEnds ==
  ASSUME NEW v \in Verdicts, NEW s \in {"completed", "needs_human", "degraded"}, Return(v, s)
  PROVE  result' \in Results /\ result'.verdict = v /\ phase' = "looped" /\ Protocol'
<1>1. result' = [verdict |-> v, status |-> s] /\ phase' = "looped"
  BY DEF Return, AgentLoopResult
<1> QED
  BY <1>1 DEF Results, Protocol

\* A loop that hands over needs no evidence.
LEMMA HandOverEnds ==
  ASSUME NEW s \in {"completed", "needs_human", "degraded"}, Return(HandOver, s)
  PROVE  result' \in Results /\ phase' = "looped" /\ Protocol' /\ Evidence'
<1>1. result' \in Results /\ result'.verdict = HandOver /\ phase' = "looped" /\ Protocol'
  BY ReturnEnds, HandsOver
<1> QED
  BY <1>1, HandsOver DEF Evidence

\* A conclusion that passes the closure has every required skill behind it, unless it
\* hands over.
LEMMA PassedHasSkills ==
  ASSUME NEW v \in SettleVerdicts, ClosurePasses(v), ClosureEnabled
  PROVE  RequiredSkills \subseteq called
  BY AgentLoopAssumption DEF ClosurePasses, Missing, Verdicts

\* A row for the current skill, of either kind, makes it a tried one.
LEMMA RowCounts ==
  ASSUME TypeOK, NEW s \in Skills, UNCHANGED calls,
         \/ rows' = [rows EXCEPT ![s].ok = @ + 1]
         \/ rows' = [rows EXCEPT ![s].failed = @ + 1]
  PROVE  rows' \in [Skills -> [ok : Nat, failed : Nat]] /\ Tried \cup {s} \subseteq Tried'
<1>1. rows \in [Skills -> [ok : Nat, failed : Nat]]
  BY DEF TypeOK
<1>2. \A t \in Skills : rows[t].ok \in Nat /\ rows[t].failed \in Nat
  BY <1>1
<1>3. rows' \in [Skills -> [ok : Nat, failed : Nat]]
  BY <1>1
<1>4. \A t \in Skills :
        rows'[t].ok + rows'[t].failed >= rows[t].ok + rows[t].failed
  BY <1>1, <1>2
<1>5. rows'[s].ok + rows'[s].failed > 0
  BY <1>1, <1>2
<1>6. \A t \in Skills : rows'[t].ok + rows'[t].failed \in Nat
  BY <1>3
<1> QED
  BY <1>2, <1>3, <1>4, <1>5, <1>6 DEF Tried

\* Every step of the loop and of the audit keeps the invariant.
LEMMA LoopStep == LoopInv /\ [Next]_vars => LoopInv'
<1> SUFFICES ASSUME LoopInv, [Next]_vars PROVE LoopInv'
  OBVIOUS
<1> USE DEF LoopInv
<1>1. CASE Chat
  <2>1. PICK k \in 1 .. MaxCalls : calls' \in [1 .. k -> Skills \cup Verdicts \cup {Malformed}]
    BY <1>1 DEF Chat, Requests
  <2>2. calls' \in Seq(Skills \cup Verdicts \cup {Malformed}) /\ Len(calls') = k /\ k \in Nat
        /\ 1 \in 1 .. k
    BY <2>1, Numbers
  <2>3. TypeOK'
    BY <1>1, <2>2 DEF Chat, TypeOK
  <2>4. Protocol' /\ Evidence'
    BY <1>1 DEF Chat, Protocol, Evidence, Tried, TypeOK
  <2> QED
    BY <2>3, <2>4
<1>2. CASE Chatter
  <2>1. TypeOK'
    BY <1>2 DEF Chatter, TypeOK
  <2> QED
    BY <1>2, <2>1 DEF Chatter, Protocol, Evidence, Tried
<1>3. CASE ChatFails
  <2>1. result' \in Results /\ phase' = "looped" /\ Protocol' /\ Evidence'
    BY <1>3, HandOverEnds DEF ChatFails
  <2> QED
    BY <1>3, <2>1 DEF ChatFails, TypeOK
<1>4. CASE OutOfSteps
  <2>1. result' \in Results /\ phase' = "looped" /\ Protocol' /\ Evidence'
    BY <1>4, HandOverEnds DEF OutOfSteps
  <2> QED
    BY <1>4, <2>1 DEF OutOfSteps, TypeOK
<1>5. CASE Invalid
  <2>1. Protocol' /\ phase' \in {"chat", "calls"} /\ at' \in Nat /\ answers' \in Seq(Nat)
        /\ (phase' = "calls" => at' \in 1 .. Len(calls'))
    BY <1>5, AnswerMoves DEF Invalid, Explain
  <2>2. TypeOK'
    BY <1>5, <2>1 DEF Invalid, TypeOK
  <2> QED
    BY <1>5, <2>1, <2>2 DEF Invalid, Evidence, Tried
<1>6. CASE Accept
  <2>1. /\ result' \in Results /\ result'.verdict = calls[at]
        /\ phase' = "looped" /\ Protocol'
    BY <1>6, ReturnEnds DEF Accept
  <2>2. TypeOK'
    BY <1>6, <2>1 DEF Accept, TypeOK
  <2>3. calls[at] \in SettleVerdicts /\ ClosureEnabled => RequiredSkills \subseteq Tried
    BY <1>6, PassedHasSkills DEF Accept, Evidence
  <2>4. Tried' = Tried
    BY <1>6 DEF Accept, Tried
  <2> QED
    BY <2>1, <2>2, <2>3, <2>4 DEF Evidence
<1>7. CASE Reject
  <2>1. closures' \in Nat
    BY <1>7 DEF Reject, TypeOK
  <2>2. CASE closures' > MaxClosureRetries
    <3>1. result' \in Results /\ phase' = "looped" /\ Protocol' /\ Evidence'
      BY <1>7, <2>2, HandOverEnds DEF Reject
    <3> QED
      BY <1>7, <2>1, <2>2, <3>1 DEF Reject, TypeOK
  <2>3. CASE ~(closures' > MaxClosureRetries)
    <3>1. Protocol' /\ phase' \in {"chat", "calls"} /\ at' \in Nat /\ answers' \in Seq(Nat)
          /\ (phase' = "calls" => at' \in 1 .. Len(calls'))
      BY <1>7, <2>3, AnswerMoves DEF Reject
    <3>2. TypeOK'
      BY <1>7, <2>1, <2>3, <3>1 DEF Reject, TypeOK
    <3> QED
      BY <1>7, <2>3, <3>1, <3>2 DEF Reject, Evidence, Tried
  <2> QED
    BY <2>2, <2>3
<1>8. CASE CallSkill
  <2>1. calls[at] \in Skills /\ at \in 1 .. Len(calls)
    BY <1>8 DEF CallSkill, TypeOK
  <2>2. skillCalls' \in Nat /\ called' \subseteq Skills
    BY <1>8, <2>1 DEF CallSkill, TypeOK
  <2>3. CASE Exceeded
    <3>1. result' \in Results /\ phase' = "looped" /\ Protocol' /\ Evidence'
      BY <1>8, <2>3, HandOverEnds DEF CallSkill
    <3> QED
      BY <1>8, <2>2, <3>1 DEF CallSkill, TypeOK
  <2>4. CASE ~Exceeded
    <3>1. TypeOK'
      BY <1>8, <2>1, <2>2, <2>4 DEF CallSkill, TypeOK
    <3> QED
      BY <1>8, <2>4, <3>1 DEF CallSkill, Protocol, Evidence, Tried
  <2> QED
    BY <2>3, <2>4
<1>9. CASE Succeeds
  <2>1. Protocol' /\ phase' \in {"chat", "calls"} /\ at' \in Nat /\ answers' \in Seq(Nat)
        /\ (phase' = "calls" => at' \in 1 .. Len(calls'))
    BY <1>9, AnswerMoves DEF Succeeds
  <2>2. calls[at] \in Skills
    BY <1>9 DEF Succeeds, TypeOK
  <2>3. /\ rows' \in [Skills -> [ok : Nat, failed : Nat]]
        /\ Tried \cup {calls[at]} \subseteq Tried'
    BY <1>9, <2>2, RowCounts DEF Succeeds
  <2>4. drafts' \in Nat /\ attempt' \in 0 .. SkillRetries
    BY <1>9, Numbers DEF Succeeds, Drafted, TypeOK
  <2>5. TypeOK'
    BY <1>9, <2>1, <2>3, <2>4 DEF Succeeds, Responds, TypeOK
  <2>6. Evidence'
    BY <1>9, <2>1, <2>3 DEF Succeeds, Evidence
  <2> QED
    BY <2>1, <2>5, <2>6
<1>10. CASE SkillFails
  <2>1. calls[at] \in Skills
    BY <1>10 DEF SkillFails, TypeOK
  <2>2. /\ rows' \in [Skills -> [ok : Nat, failed : Nat]]
        /\ Tried \cup {calls[at]} \subseteq Tried'
    BY <1>10, <2>1, RowCounts DEF SkillFails
  <2>3. aborted' \in BOOLEAN
    BY <1>10 DEF SkillFails, TypeOK
  <2>4. CASE attempt < SkillRetries
    <3>1. attempt' \in 0 .. SkillRetries
      <4>1. attempt' = attempt + 1
        BY <1>10, <2>4 DEF SkillFails
      <4>2. attempt \in 0 .. SkillRetries
        BY DEF TypeOK
      <4> QED
        BY <2>4, <4>1, <4>2, Numbers
    <3>2. TypeOK'
      <4>1. UNCHANGED <<phase, at, answers, step, calls, called, skillCalls, closures, drafts,
                        result>>
        BY <1>10, <2>4 DEF SkillFails
      <4> QED
        BY <2>2, <2>3, <3>1, <4>1 DEF TypeOK
    <3>3. Protocol'
      BY <1>10, <2>4 DEF SkillFails, Protocol
    <3>4. Evidence'
      BY <1>10, <2>2, <2>4 DEF SkillFails, Evidence
    <3> QED
      BY <3>2, <3>3, <3>4
  <2>5. CASE ~(attempt < SkillRetries)
    <3>1. Protocol' /\ phase' \in {"chat", "calls"} /\ at' \in Nat /\ answers' \in Seq(Nat)
          /\ (phase' = "calls" => at' \in 1 .. Len(calls'))
      BY <1>10, <2>5, AnswerMoves DEF SkillFails
    <3>2. TypeOK'
      <4>1. UNCHANGED <<step, calls, called, skillCalls, closures, drafts, result>>
        BY <1>10 DEF SkillFails
      <4>2. attempt' \in 0 .. SkillRetries
        BY <1>10, <2>5, Numbers DEF SkillFails
      <4>3. phase' \in {"chat", "calls", "skill", "looped", "concluded", "failed"}
            /\ phase' # "skill"
        BY <3>1
      <4> QED
        BY <2>2, <2>3, <3>1, <4>1, <4>2, <4>3 DEF TypeOK
    <3>3. Evidence'
      BY <1>10, <2>2, <2>5, <3>1 DEF SkillFails, Evidence
    <3> QED
      BY <3>1, <3>2, <3>3
  <2> QED
    BY <2>4, <2>5
<1>11. CASE Conclude
  <2>1. PICK grounded \in BOOLEAN :
          result' = [verdict |-> Audited(grounded),
                     status |-> IF \/ BlockOnFail /\ ~AuditPasses(grounded)
                                   \/ Audited(grounded) \in HumanVerdicts
                                THEN "needs_human" ELSE result.status]
    BY <1>11 DEF Conclude
  <2>2. result \in Results /\ phase' = "concluded"
    BY <1>11 DEF Conclude, Evidence
  <2>3. Audited(grounded) \in Verdicts
    BY <2>2, HandsOver DEF Audited, Results
  <2>4. result' \in Results
    BY <2>1, <2>2, <2>3 DEF Results
  <2>5. TypeOK'
    BY <1>11, <2>4 DEF Conclude, TypeOK
  <2> QED
    BY <2>2, <2>4, <2>5 DEF Protocol, Evidence
<1>12. CASE RollBack
  <2>1. TypeOK'
    BY <1>12 DEF RollBack, TypeOK
  <2> QED
    BY <1>12, <2>1 DEF RollBack, Protocol, Evidence
<1>13. CASE UNCHANGED vars
  <2>1. TypeOK'
    BY <1>13 DEF vars, TypeOK
  <2> QED
    BY <1>13, <2>1 DEF vars, Protocol, Evidence, Tried
<1> QED
  BY <1>1, <1>2, <1>3, <1>4, <1>5, <1>6, <1>7, <1>8, <1>9, <1>10, <1>11, <1>12, <1>13 DEF Next

\* Every variable of an investigation keeps its type (AgentLoop.run).
THEOREM LoopTypes == Spec => []TypeOK
<1>1. LoopInv => TypeOK
  BY DEF LoopInv
<1> QED
  BY <1>1, LoopInit, LoopStep, PTL DEF Spec

\* Whatever the LLM asks for, each of its tool calls is answered once and in order before
\* it is asked again (AgentLoop.run).
THEOREM EveryCallAnswered == Spec => []CallsAnswered
<1>1. LoopInv => CallsAnswered
  BY DEF LoopInv, Protocol, CallsAnswered
<1> QED
  BY <1>1, LoopInit, LoopStep, PTL DEF Spec

-----------------------------------------------------------------------------
(* The loop implements the orchestrator's contract. *)

Running == {"chat", "calls", "skill"}

\* An open investigation that goes on, with rows for at most one more skill.
LEMMA GathersOrNothing ==
  ASSUME Outcome = "open", Outcome' = "open",
         Tried' = Tried \/ \E s \in Skills : Tried' = Tried \cup {s}
  PROVE  [Contract!Next]_<<Tried, Outcome>>
<1>1. CASE Tried' = Tried
  BY <1>1
<1>2. CASE \E s \in Skills : Tried' = Tried \cup {s}
  BY <1>2 DEF Contract!Next, Contract!Gather
<1> QED
  BY <1>1, <1>2

\* A row for the current skill adds that skill to the tried ones, and no other.
LEMMA OneMoreTried ==
  ASSUME TypeOK, NEW s \in Skills,
         \/ rows' = [rows EXCEPT ![s].ok = @ + 1]
         \/ rows' = [rows EXCEPT ![s].failed = @ + 1]
  PROVE  Tried' = Tried \cup {s}
<1>1. rows \in [Skills -> [ok : Nat, failed : Nat]]
  BY DEF TypeOK
<1>2. rows[s].ok \in Nat /\ rows[s].failed \in Nat
  BY <1>1
<1>3. \A t \in Skills \ {s} : rows'[t] = rows[t]
  BY <1>1
<1>4. rows'[s].ok + rows'[s].failed > 0
  BY <1>1, <1>2
<1> QED
  BY <1>3, <1>4 DEF Tried

\* While the loop is not through its outcome is open.
LEMMA Undecided == phase \in Running \cup {"looped"} => Outcome = "open"
  BY DEF Running, Outcome

LEMMA UndecidedNext == phase' \in Running \cup {"looped"} => Outcome' = "open"
  BY DEF Running, Outcome

\* A step of the loop that ends or goes on without a new row is none of the contract's.
LEMMA Unseen ==
  ASSUME phase \in Running, phase' \in Running \cup {"looped"}, UNCHANGED rows
  PROVE  [Contract!Next]_<<Tried, Outcome>>
<1>1. Outcome = "open" /\ Outcome' = "open"
  BY Undecided, UndecidedNext
<1>2. Tried' = Tried
  BY DEF Tried
<1> QED
  BY <1>1, <1>2

LEMMA ContractInit == Init => Contract!Init
  BY DEF Init, Contract!Init, Tried, Outcome

LEMMA ContractStep == LoopInv /\ [Next]_vars => [Contract!Next]_<<Tried, Outcome>>
<1> SUFFICES ASSUME LoopInv, [Next]_vars PROVE [Contract!Next]_<<Tried, Outcome>>
  OBVIOUS
<1>1. CASE Chat \/ Chatter \/ ChatFails \/ OutOfSteps \/ Invalid \/ Accept \/ Reject \/ CallSkill
  <2>1. phase \in Running /\ phase' \in Running \cup {"looped"} /\ UNCHANGED rows
    BY <1>1 DEF Chat, Chatter, ChatFails, OutOfSteps, Invalid, Explain, Answer, Accept, Reject,
                CallSkill, Return, Running
  <2> QED
    BY <2>1, Unseen
<1>2. CASE Succeeds \/ SkillFails
  <2>1. phase \in Running /\ phase' \in Running
    BY <1>2 DEF Succeeds, SkillFails, Answer, Running
  <2>2. calls[at] \in Skills /\ TypeOK
    BY <1>2 DEF Succeeds, SkillFails, LoopInv, TypeOK
  <2>3. \/ rows' = [rows EXCEPT ![calls[at]].ok = @ + 1]
        \/ rows' = [rows EXCEPT ![calls[at]].failed = @ + 1]
    BY <1>2 DEF Succeeds, SkillFails
  <2>4. Tried' = Tried \cup {calls[at]}
    BY <2>2, <2>3, OneMoreTried
  <2> QED
    BY <2>1, <2>2, <2>4, Undecided, UndecidedNext, GathersOrNothing
<1>3. CASE Conclude
  <2>1. PICK grounded \in BOOLEAN :
          result' = [verdict |-> Audited(grounded),
                     status |-> IF \/ BlockOnFail /\ ~AuditPasses(grounded)
                                   \/ Audited(grounded) \in HumanVerdicts
                                THEN "needs_human" ELSE result.status]
    BY <1>3 DEF Conclude
  <2>2. result \in Results /\ Outcome = "open" /\ Outcome' = Audited(grounded) /\ Tried' = Tried
    BY <1>3, <2>1 DEF Conclude, LoopInv, Evidence, Outcome, Tried
  <2>3. CASE Audited(grounded) \in HumanVerdicts
    BY <2>2, <2>3 DEF Contract!Next, Contract!HandOver
  <2>4. CASE Audited(grounded) \in SettleVerdicts
    <3>1. result.verdict = Audited(grounded)
      BY <2>4, HandsOver DEF Audited
    <3>2. (IF ClosureEnabled THEN RequiredSkills ELSE {}) \subseteq Tried
      BY <1>3, <2>4, <3>1 DEF Conclude, LoopInv, Evidence
    <3> QED
      BY <2>2, <2>4, <3>2 DEF Contract!Next, Contract!Settle
  <2>5. Audited(grounded) \in SettleVerdicts \cup HumanVerdicts
    BY <2>2, HandsOver DEF Audited, Results, Verdicts
  <2> QED
    BY <2>3, <2>4, <2>5
<1>4. CASE RollBack
  <2>1. Outcome = "open" /\ Outcome' = "nothing" /\ Tried' = Tried
    BY <1>4 DEF RollBack, Unwinds, Outcome, Tried
  <2> QED
    BY <2>1 DEF Contract!Next, Contract!RollBack
<1>5. CASE UNCHANGED vars
  <2>1. Tried' = Tried /\ Outcome' = Outcome
    BY <1>5 DEF vars, Tried, Outcome
  <2> QED
    BY <2>1
<1> QED
  BY <1>1, <1>2, <1>3, <1>4, <1>5 DEF Next

\* The conversation, the closure check and the audit together implement what the
\* orchestrator relies on: one outcome per investigation, and a settling verdict only when
\* every required skill has a tool-call row (AgentLoop.run, ClosureEvaluator.evaluate,
\* _investigate_event).
THEOREM LoopKeepsContract == Spec => KeepsContract
<1> USE DEF KeepsContract, Contract!Spec
<1>1. LoopInv /\ [Next]_vars => [Contract!Next]_<<Tried, Outcome>>
  BY ContractStep
<1> QED
  BY <1>1, ContractInit, LoopInit, LoopStep, PTL DEF Spec

-----------------------------------------------------------------------------
(* Sums over finite sets.  The library's induction theorems take an operator, so what *)
(* a sum is follows from the least counterexample: of the numbers of elements of the  *)
(* sets for which a statement fails there would be a least one.                       *)

\* The natural numbers are well founded.
LEMMA LeastNumber ==
  ASSUME NEW T \in SUBSET Nat, T # {}
  PROVE  \E n \in T : \A m \in T : n <= m
<1>1. PICK n \in T : \A m \in T : ~(<<m, n>> \in OpToRel(<, Nat))
  BY NatLessThanWellFounded, WFMin
<1>2. \A m \in T : ~(m < n)
  BY <1>1 DEF OpToRel
<1> QED
  BY <1>2

\* The element a fold over s takes first.
First(s) == CHOOSE x \in s : TRUE

\* f adds up g over each set of D.
AddsUp(g, D, f) ==
  f = [s \in D |-> IF s = {} THEN 0 ELSE g[First(s)] + f[s \ {First(s)}]]

\* A non-empty finite set has one element more than what is left of it.
LEMMA TakeFirst ==
  ASSUME NEW s, IsFiniteSet(s), s # {}
  PROVE  /\ First(s) \in s
         /\ IsFiniteSet(s \ {First(s)})
         /\ Cardinality(s) \in Nat \ {0}
         /\ Cardinality(s \ {First(s)}) = Cardinality(s) - 1
<1>1. First(s) \in s
  BY DEF First
<1>2. /\ IsFiniteSet(s \ {First(s)})
      /\ Cardinality(s \ {First(s)}) = Cardinality(s) - 1
  BY <1>1, FS_RemoveElement
<1>3. Cardinality(s) \in Nat /\ Cardinality(s) # 0
  BY FS_CardinalityType, FS_EmptySet
<1> QED
  BY <1>1, <1>2, <1>3

\* There is such an f for the subsets of a finite set.
LEMMA SumExists ==
  ASSUME NEW S, IsFiniteSet(S), NEW g
  PROVE  \E f : AddsUp(g, SUBSET S, f)
<1> DEFINE Small(n) == {s \in SUBSET S : Cardinality(s) <= n}
           T == {n \in Nat : ~ \E f : AddsUp(g, Small(n), f)}
<1>1. \A s \in SUBSET S : IsFiniteSet(s) /\ Cardinality(s) \in Nat
  BY FS_Subset, FS_CardinalityType
<1>2. ASSUME T # {} PROVE FALSE
  <2>1. PICK n \in T : \A m \in T : n <= m
    <3>1. T \in SUBSET Nat
      OBVIOUS
    <3> HIDE DEF T
    <3> QED
      BY <1>2, <3>1, LeastNumber
  <2>2. CASE n = 0
    <3>1. Small(0) = {{}}
      <4>1. \A s \in Small(0) : s = {}
        BY <1>1, FS_EmptySet
      <4>2. {} \in Small(0)
        BY FS_EmptySet
      <4> QED
        BY <4>1, <4>2
    <3>2. AddsUp(g, {{}}, [s \in {{}} |-> 0])
      BY DEF AddsUp
    <3> QED
      BY <2>2, <3>1, <3>2
  <2>3. CASE n # 0
    <3>1. n - 1 \in Nat /\ n - 1 \notin T
      <4>1. n \in Nat
        OBVIOUS
      <4> HIDE DEF T
      <4> QED
        BY <2>1, <2>3, <4>1
    <3>2. PICK f : AddsUp(g, Small(n - 1), f)
      BY <3>1
    <3> DEFINE h == [s \in Small(n) |-> IF s = {} THEN 0 ELSE g[First(s)] + f[s \ {First(s)}]]
    <3>3. ASSUME NEW s \in Small(n), s # {}
          PROVE  s \ {First(s)} \in Small(n - 1) /\ s \ {First(s)} \in Small(n)
      <4>1. IsFiniteSet(s) /\ Cardinality(s) \in Nat
        BY <1>1
      <4>2. Cardinality(s \ {First(s)}) = Cardinality(s) - 1
        BY <3>3, <4>1, TakeFirst
      <4> QED
        BY <3>1, <4>1, <4>2
    <3>4. \A t \in Small(n - 1) : t \in Small(n) => h[t] = f[t]
      BY <3>2 DEF AddsUp
    <3>5. \A s \in Small(n) : s # {} => h[s \ {First(s)}] = f[s \ {First(s)}]
      BY <3>3, <3>4
    <3>6. AddsUp(g, Small(n), h)
      <4> HIDE DEF Small
      <4>1. \A s \in Small(n) : h[s] = IF s = {} THEN 0 ELSE g[First(s)] + h[s \ {First(s)}]
        BY <3>5
      <4> QED
        BY <4>1 DEF AddsUp
    <3> QED
      BY <3>6
  <2> QED
    BY <2>2, <2>3
<1>3. Cardinality(S) \in Nat /\ Small(Cardinality(S)) = SUBSET S
  BY FS_CardinalityType, FS_Subset
<1> QED
  BY <1>2, <1>3

\* h is g with one more at x, as far as S goes.
Raised(g, h, x, S) == \A s \in S : h[s] = IF s = x THEN g[s] + 1 ELSE g[s]

\* One more at one element is one more in the sum over a set that has it.
LEMMA OneMore ==
  ASSUME NEW S, IsFiniteSet(S), NEW g \in [S -> Nat], NEW h \in [S -> Nat], NEW x,
         Raised(g, h, x, S),
         NEW f, AddsUp(g, SUBSET S, f), NEW k, AddsUp(h, SUBSET S, k)
  PROVE  f[S] \in Nat /\ k[S] = IF x \in S THEN f[S] + 1 ELSE f[S]
<1> DEFINE Right(s) == f[s] \in Nat /\ k[s] = IF x \in s THEN f[s] + 1 ELSE f[s]
           T == {Cardinality(s) : s \in {t \in SUBSET S : ~Right(t)}}
<1>1. \A s \in SUBSET S : IsFiniteSet(s) /\ Cardinality(s) \in Nat
  BY FS_Subset, FS_CardinalityType
<1>2. ASSUME T # {} PROVE FALSE
  <2>1. PICK n \in T : \A m \in T : n <= m
    <3>1. T \in SUBSET Nat
      BY <1>1
    <3> HIDE DEF T
    <3> QED
      BY <1>2, <3>1, LeastNumber
  <2>2. PICK s \in SUBSET S : ~Right(s) /\ n = Cardinality(s)
    OBVIOUS
  <2>3. s # {}
    BY <2>2 DEF AddsUp
  <2> DEFINE y == First(s)
             r == s \ {y}
  <2>4. /\ y \in s /\ y \in S /\ r \in SUBSET S
        /\ Cardinality(s) \in Nat /\ Cardinality(r) = Cardinality(s) - 1
    BY <1>1, <2>3, TakeFirst
  <2>5. Right(r)
    <3> HIDE DEF r, Right
    <3> SUFFICES ASSUME ~Right(r) PROVE FALSE
      OBVIOUS
    <3>1. Cardinality(r) \in T
      BY <2>4
    <3>2. n <= Cardinality(r)
      BY <2>1, <3>1
    <3> QED
      BY <2>2, <2>4, <3>2
  <2>6. f[s] = g[y] + f[r] /\ k[s] = h[y] + k[r]
    BY <2>3 DEF AddsUp
  <2>7. g[y] \in Nat /\ h[y] = IF y = x THEN g[y] + 1 ELSE g[y]
    BY <2>4 DEF Raised
  <2>8. x \in s <=> x \in r \/ x = y
    BY <2>4
  <2>9. x \notin r \/ x # y
    OBVIOUS
  <2> HIDE DEF y, r
  <2>10. Right(s)
    BY <2>5, <2>6, <2>7, <2>8, <2>9
  <2> QED
    BY <2>2, <2>10
<1>3. Right(S)
  BY <1>2
<1> QED
  BY <1>3

\* Zeros add up to zero.
LEMMA NoneAddUp ==
  ASSUME NEW S, IsFiniteSet(S), NEW g, \A s \in S : g[s] = 0, NEW f, AddsUp(g, SUBSET S, f)
  PROVE  f[S] = 0
<1> DEFINE T == {Cardinality(s) : s \in {t \in SUBSET S : f[t] # 0}}
<1>1. \A s \in SUBSET S : IsFiniteSet(s) /\ Cardinality(s) \in Nat
  BY FS_Subset, FS_CardinalityType
<1>2. ASSUME T # {} PROVE FALSE
  <2>1. PICK n \in T : \A m \in T : n <= m
    <3>1. T \in SUBSET Nat
      BY <1>1
    <3> HIDE DEF T
    <3> QED
      BY <1>2, <3>1, LeastNumber
  <2>2. PICK s \in SUBSET S : f[s] # 0 /\ n = Cardinality(s)
    OBVIOUS
  <2>3. s # {}
    BY <2>2 DEF AddsUp
  <2> DEFINE y == First(s)
             r == s \ {y}
  <2>4. /\ y \in S /\ r \in SUBSET S
        /\ Cardinality(s) \in Nat /\ Cardinality(r) = Cardinality(s) - 1
    BY <1>1, <2>3, TakeFirst
  <2>5. f[r] = 0
    BY <2>1, <2>2, <2>4
  <2>6. f[s] = g[y] + f[r]
    BY <2>3 DEF AddsUp
  <2> QED
    BY <2>2, <2>4, <2>5, <2>6
<1> QED
  BY <1>2

\* The tool-call rows of S by table r: the successful ones, and all of them.
AllOk(r, S) == MapThenSumSet(LAMBDA s : r[s].ok, S)
AllRuns(r, S) == MapThenSumSet(LAMBDA s : r[s].ok + r[s].failed, S)

LEMMA OkIsSum ==
  ASSUME NEW S, IsFiniteSet(S), NEW r
  PROVE  \E f : AddsUp([s \in S |-> r[s].ok], SUBSET S, f) /\ AllOk(r, S) = f[S]
<1> DEFINE g == [s \in S |-> r[s].ok]
           P(f) == f = [s \in SUBSET S |->
                          IF s = {} THEN 0 ELSE r[First(s)].ok + f[s \ {First(s)}]]
<1>1. \A s \in SUBSET S : s # {} => g[First(s)] = r[First(s)].ok
  BY DEF First
<1>2. \A f : AddsUp(g, SUBSET S, f) <=> P(f)
  BY <1>1 DEF AddsUp
<1>3. \E f : P(f)
  BY <1>2, SumExists
<1>4. P(CHOOSE f : P(f))
  BY <1>3
<1>5. AllOk(r, S) = (CHOOSE f : P(f))[S]
  BY DEF AllOk, MapThenSumSet, MapThenFoldSet, First
<1> QED
  BY <1>2, <1>4, <1>5

LEMMA RunsAreSum ==
  ASSUME NEW S, IsFiniteSet(S), NEW r
  PROVE  \E f : /\ AddsUp([s \in S |-> r[s].ok + r[s].failed], SUBSET S, f)
                /\ AllRuns(r, S) = f[S]
<1> DEFINE g == [s \in S |-> r[s].ok + r[s].failed]
           P(f) == f = [s \in SUBSET S |->
                          IF s = {} THEN 0
                          ELSE (r[First(s)].ok + r[First(s)].failed) + f[s \ {First(s)}]]
<1>1. \A s \in SUBSET S : s # {} => g[First(s)] = r[First(s)].ok + r[First(s)].failed
  BY DEF First
<1>2. \A f : AddsUp(g, SUBSET S, f) <=> P(f)
  BY <1>1 DEF AddsUp
<1>3. \E f : P(f)
  BY <1>2, SumExists
<1>4. P(CHOOSE f : P(f))
  BY <1>3
<1>5. AllRuns(r, S) = (CHOOSE f : P(f))[S]
  BY DEF AllRuns, MapThenSumSet, MapThenFoldSet, First
<1> QED
  BY <1>2, <1>4, <1>5

Tables == [Skills -> [ok : Nat, failed : Nat]]

OneOkRow(r, q, x) == q = [r EXCEPT ![x].ok = @ + 1]

\* A successful row more is one more in the sums that count its skill.
LEMMA OneMoreOk ==
  ASSUME NEW r \in Tables, NEW q \in Tables, NEW x \in Skills, OneOkRow(r, q, x),
         NEW S \in SUBSET Skills
  PROVE  /\ AllOk(r, S) \in Nat
         /\ AllOk(q, S) = IF x \in S THEN AllOk(r, S) + 1 ELSE AllOk(r, S)
<1> DEFINE g == [s \in S |-> r[s].ok]
           h == [s \in S |-> q[s].ok]
<1>1. IsFiniteSet(S)
  BY AgentLoopAssumption, FS_Subset
<1>2. PICK f : AddsUp(g, SUBSET S, f) /\ AllOk(r, S) = f[S]
  BY <1>1, OkIsSum
<1>3. PICK k : AddsUp(h, SUBSET S, k) /\ AllOk(q, S) = k[S]
  <2>1. \E k : AddsUp([s \in S |-> q[s].ok], SUBSET S, k) /\ AllOk(q, S) = k[S]
    BY ONLY <1>1, OkIsSum
  <2> QED
    BY <2>1
<1>4. g \in [S -> Nat] /\ h \in [S -> Nat]
  BY DEF Tables
<1>5. Raised(g, h, x, S)
  BY DEF Tables, Raised, OneOkRow
<1> HIDE DEF g, h
<1>6. f[S] \in Nat /\ k[S] = IF x \in S THEN f[S] + 1 ELSE f[S]
  BY <1>1, <1>2, <1>3, <1>4, <1>5, OneMore
<1> QED
  BY <1>2, <1>3, <1>6

\* A row more of either kind is one more of all.
LEMMA OneMoreRun ==
  ASSUME NEW r \in Tables, NEW q \in Tables, NEW x \in Skills,
         \/ q = [r EXCEPT ![x].ok = @ + 1]
         \/ q = [r EXCEPT ![x].failed = @ + 1]
  PROVE  AllRuns(r, Skills) \in Nat /\ AllRuns(q, Skills) = AllRuns(r, Skills) + 1
<1> DEFINE g == [s \in Skills |-> r[s].ok + r[s].failed]
           h == [s \in Skills |-> q[s].ok + q[s].failed]
<1>1. IsFiniteSet(Skills)
  BY AgentLoopAssumption
<1>2. PICK f : AddsUp(g, SUBSET Skills, f) /\ AllRuns(r, Skills) = f[Skills]
  BY <1>1, RunsAreSum
<1>3. PICK k : AddsUp(h, SUBSET Skills, k) /\ AllRuns(q, Skills) = k[Skills]
  BY <1>1, RunsAreSum
<1>4. g \in [Skills -> Nat] /\ h \in [Skills -> Nat]
  BY DEF Tables
<1>5. Raised(g, h, x, Skills)
  <2>1. \A s \in Skills : r[s].ok \in Nat /\ r[s].failed \in Nat
    BY DEF Tables
  <2>2. \A s \in Skills \ {x} : q[s] = r[s]
    BY DEF Tables
  <2>3. q[x].ok + q[x].failed = r[x].ok + r[x].failed + 1
    BY <2>1 DEF Tables
  <2> QED
    BY <2>1, <2>2, <2>3 DEF Raised
<1> HIDE DEF g, h
<1>6. f[Skills] \in Nat /\ k[Skills] = f[Skills] + 1
  BY <1>1, <1>2, <1>3, <1>4, <1>5, OneMore
<1> QED
  BY <1>2, <1>3, <1>6

\* No rows add up to nothing.
LEMMA NothingYet ==
  ASSUME NEW S \in SUBSET Skills, NEW r, r = [s \in Skills |-> [ok |-> 0, failed |-> 0]]
  PROVE  AllOk(r, S) = 0 /\ AllRuns(r, S) = 0
<1>1. IsFiniteSet(S)
  BY AgentLoopAssumption, FS_Subset
<1>2. PICK f : AddsUp([s \in S |-> r[s].ok], SUBSET S, f) /\ AllOk(r, S) = f[S]
  BY <1>1, OkIsSum
<1>3. PICK k : AddsUp([s \in S |-> r[s].ok + r[s].failed], SUBSET S, k) /\ AllRuns(r, S) = k[S]
  BY <1>1, RunsAreSum
<1>4. \A s \in S : r[s].ok = 0 /\ r[s].ok + r[s].failed = 0
  OBVIOUS
<1>5. f[S] = 0
  BY <1>1, <1>2, <1>4, NoneAddUp
<1>6. k[S] = 0
  BY <1>1, <1>3, <1>4, NoneAddUp
<1> QED
  BY <1>2, <1>3, <1>5, <1>6

\* No set has every element.
LEMMA NotEverything == ASSUME NEW S PROVE \E x : x \notin S
<1>1. {y \in S : y \notin y} \notin S
  OBVIOUS
<1> QED
  BY <1>1

\* Of a sum there is one, and it is a number.
LEMMA OneSum ==
  ASSUME NEW S, IsFiniteSet(S), NEW g \in [S -> Nat],
         NEW f, AddsUp(g, SUBSET S, f), NEW k, AddsUp(g, SUBSET S, k)
  PROVE  f[S] \in Nat /\ f[S] = k[S]
<1>1. PICK x : x \notin S
  <2>1. \E x : x \notin S
    BY NotEverything
  <2> QED
    BY <2>1
<1>2. Raised(g, g, x, S)
  BY <1>1 DEF Raised
<1> QED
  BY <1>1, <1>2, OneMore

\* A failed row changes no sum of successful ones.
LEMMA NoMoreOk ==
  ASSUME NEW r \in Tables, NEW q \in Tables, NEW x \in Skills,
         q = [r EXCEPT ![x].failed = @ + 1], NEW S \in SUBSET Skills
  PROVE  AllOk(q, S) = AllOk(r, S)
<1>1. IsFiniteSet(S)
  BY AgentLoopAssumption, FS_Subset
<1>2. [s \in S |-> q[s].ok] = [s \in S |-> r[s].ok]
  BY DEF Tables
<1>3. PICK f : AddsUp([s \in S |-> r[s].ok], SUBSET S, f) /\ AllOk(r, S) = f[S]
  BY <1>1, OkIsSum
<1>4. PICK k : AddsUp([s \in S |-> q[s].ok], SUBSET S, k) /\ AllOk(q, S) = k[S]
  <2>1. \E k : AddsUp([s \in S |-> q[s].ok], SUBSET S, k) /\ AllOk(q, S) = k[S]
    BY ONLY <1>1, OkIsSum
  <2> QED
    BY <2>1
<1> DEFINE g == [s \in S |-> r[s].ok]
<1>5. g \in [S -> Nat]
  BY DEF Tables
<1>6. AddsUp(g, SUBSET S, f) /\ AddsUp(g, SUBSET S, k)
  BY <1>2, <1>3, <1>4
<1> HIDE DEF g
<1>7. f[S] = k[S]
  BY <1>1, <1>5, <1>6, OneSum
<1> QED
  BY <1>3, <1>4, <1>7

LEMMA SumsAreNat ==
  ASSUME NEW r \in Tables
  PROVE  AllRuns(r, Skills) \in Nat /\ AllOk(r, Skills) \in Nat
<1>1. IsFiniteSet(Skills)
  BY AgentLoopAssumption
<1>2. PICK f : AddsUp([s \in Skills |-> r[s].ok], SUBSET Skills, f) /\ AllOk(r, Skills) = f[Skills]
  BY <1>1, OkIsSum
<1>3. PICK k : AddsUp([s \in Skills |-> r[s].ok + r[s].failed], SUBSET Skills, k)
               /\ AllRuns(r, Skills) = k[Skills]
  BY <1>1, RunsAreSum
<1>4. [s \in Skills |-> r[s].ok] \in [Skills -> Nat]
      /\ [s \in Skills |-> r[s].ok + r[s].failed] \in [Skills -> Nat]
  BY DEF Tables
<1>5. f[Skills] \in Nat
  BY <1>1, <1>2, <1>4, OneSum
<1>6. k[Skills] \in Nat
  BY <1>1, <1>3, <1>4, OneSum
<1> QED
  BY <1>2, <1>3, <1>5, <1>6

\* The sums of the model are these.
LEMMA SumsOfTheModel ==
  /\ MapThenSumSet(Runs, Skills) = AllRuns(rows, Skills)
  /\ MapThenSumSet(LAMBDA s : rows[s].ok, Skills) = AllOk(rows, Skills)
  /\ MapThenSumSet(LAMBDA s : rows[s].ok, Simulates) = AllOk(rows, Simulates)
  BY DEF AllOk, AllRuns, Runs, MapThenSumSet, MapThenFoldSet

-----------------------------------------------------------------------------
(* The limits of the loop. *)

\* The skill runs that k calls may take with their retries.
Allowed(k) == k * (SkillRetries + 1)

\* A call being answered has spent its attempts and no success yet; the others have spent
\* at most what they may.
WorkInv ==
  /\ step <= MaxSteps
  /\ closures <= MaxClosureRetries + 1
  /\ phase \in Running => closures <= MaxClosureRetries /\ skillCalls <= MaxSkillCalls
  /\ phase \in {"chat", "calls"} =>
       /\ attempt = 0
       /\ AllRuns(rows, Skills) <= Allowed(skillCalls)
  /\ phase = "skill" =>
       /\ skillCalls > 0
       /\ AllRuns(rows, Skills) <= Allowed(skillCalls - 1) + attempt
       /\ AllOk(rows, Skills) <= skillCalls - 1
  /\ AllRuns(rows, Skills) <= Allowed(MaxSkillCalls)
  /\ AllOk(rows, Skills) <= skillCalls
  /\ drafts = AllOk(rows, Simulates)

LEMMA Limits ==
  /\ MaxSteps \in Nat /\ MaxSkillCalls \in Nat /\ SkillRetries \in Nat
  /\ MaxClosureRetries \in Nat
  BY AgentLoopAssumption

LEMMA AllowedGrows ==
  /\ \A k \in Nat : Allowed(k) \in Nat /\ Allowed(k) + SkillRetries + 1 = Allowed(k + 1)
  /\ \A k, m \in Nat : k <= m => Allowed(k) <= Allowed(m)
<1> DEFINE c == SkillRetries + 1
<1>1. c \in Nat
  BY Limits
<1>2. \A k \in Nat : k * c \in Nat /\ k * c + c = (k + 1) * c
  <2> HIDE DEF c
  <2> QED
    BY <1>1
<1>3. ASSUME NEW k \in Nat, NEW m \in Nat, k <= m PROVE k * c <= m * c
  <2>1. PICK d \in Nat : m = k + d
    BY <1>3
  <2> HIDE DEF c
  <2>2. m * c = k * c + d * c
    BY <1>1, <2>1
  <2>3. k * c \in Nat /\ d * c \in Nat
    BY <1>1
  <2> QED
    BY <2>2, <2>3
<1>4. \A k \in Nat : k * c + SkillRetries + 1 = k * c + c
  <2>1. \A a \in Nat : a + SkillRetries + 1 = a + c
    BY Limits
  <2> QED
    BY <1>2, <2>1
<1>5. \A k : Allowed(k) = k * c
  BY DEF Allowed
<1> HIDE DEF c
<1> QED
  BY <1>2, <1>3, <1>4, <1>5

\* One run more of a call that has attempts left is within what its calls may take.
LEMMA SpendsACall ==
  ASSUME NEW k \in Nat, k > 0, k <= MaxSkillCalls, NEW a \in 0 .. SkillRetries,
         NEW n \in Nat, n <= Allowed(k - 1) + a
  PROVE  /\ n + 1 <= Allowed(k) /\ Allowed(k) <= Allowed(MaxSkillCalls)
         /\ n + 1 <= Allowed(MaxSkillCalls)
<1>1. k - 1 \in Nat /\ Allowed(k - 1) \in Nat /\ Allowed(k) \in Nat
      /\ Allowed(MaxSkillCalls) \in Nat
  <2>1. k - 1 \in Nat
    OBVIOUS
  <2>2. \A m \in Nat : Allowed(m) \in Nat
    BY AllowedGrows
  <2> QED
    BY <2>1, <2>2, Limits
<1>2. Allowed(k - 1) + SkillRetries + 1 = Allowed(k)
  <2>1. (k - 1) + 1 = k
    OBVIOUS
  <2> QED
    BY <1>1, <2>1, AllowedGrows
<1>3. Allowed(k) <= Allowed(MaxSkillCalls)
  BY Limits, AllowedGrows
<1> QED
  BY <1>1, <1>2, <1>3, Limits

LEMMA WorkInit == Init => WorkInv
<1> SUFFICES ASSUME Init PROVE WorkInv
  OBVIOUS
<1>1. /\ AllRuns(rows, Skills) = 0 /\ AllOk(rows, Skills) = 0
      /\ AllOk(rows, Simulates) = 0
  <2>1. Simulates \in SUBSET Skills
    BY AgentLoopAssumption
  <2> QED
    BY <2>1, NothingYet DEF Init
<1>2. Allowed(0) \in Nat /\ Allowed(MaxSkillCalls) \in Nat
  BY Limits, AllowedGrows
<1> QED
  BY <1>1, <1>2, Limits DEF Init, WorkInv

\* A step that adds no row, leaves the running call alone and keeps the counters within
\* their limits.
LEMMA NoRowStep ==
  ASSUME WorkInv, UNCHANGED <<rows, drafts, attempt, skillCalls>>,
         phase \in {"chat", "calls"} \/ phase' \notin Running, phase' # "skill",
         phase' \in Running => phase \in Running,
         step' <= MaxSteps, closures' <= MaxClosureRetries + 1,
         phase' \in Running => closures' <= MaxClosureRetries
  PROVE  WorkInv'
  BY DEF WorkInv, Running

LEMMA WorkStep == LoopInv /\ WorkInv /\ [Next]_vars => WorkInv'
<1> SUFFICES ASSUME LoopInv, WorkInv, [Next]_vars PROVE WorkInv'
  OBVIOUS
<1>1. /\ step \in Nat /\ skillCalls \in Nat /\ closures \in Nat /\ attempt \in 0 .. SkillRetries
      /\ drafts \in Nat /\ rows \in Tables
  BY DEF LoopInv, TypeOK, Tables
<1>2. CASE Chat \/ Chatter \/ ChatFails \/ OutOfSteps \/ Invalid \/ Accept
  <2>1. UNCHANGED <<rows, drafts, attempt, skillCalls, closures>>
    BY <1>2 DEF Chat, Chatter, ChatFails, OutOfSteps, Invalid, Accept
  <2>2. phase \in {"chat", "calls"} /\ phase' # "skill"
    BY <1>2 DEF Chat, Chatter, ChatFails, OutOfSteps, Invalid, Explain, Answer, Accept, Return
  <2>3. step' <= MaxSteps
    BY <1>1, <1>2, Limits
       DEF Chat, Chatter, ChatFails, OutOfSteps, Invalid, Accept, StepsLeft, WorkInv
  <2>4. closures' <= MaxClosureRetries /\ closures' <= MaxClosureRetries + 1
    BY <1>1, <2>1, <2>2, Limits DEF WorkInv, Running
  <2> QED
    BY <2>1, <2>2, <2>3, <2>4, NoRowStep DEF Running
<1>3. CASE Reject
  <2>1. UNCHANGED <<rows, drafts, attempt, skillCalls, step>> /\ closures' = closures + 1
    BY <1>3 DEF Reject
  <2>2. phase \in {"chat", "calls"} /\ phase' # "skill"
    BY <1>3 DEF Reject, Answer, Return
  <2>3. closures' <= MaxClosureRetries + 1
    BY <1>1, <2>1, <2>2, Limits DEF WorkInv, Running
  <2>4. phase' \in Running => closures' <= MaxClosureRetries
    BY <1>1, <1>3, <2>1, Limits DEF Reject, Return, Running
  <2>5. step' <= MaxSteps
    BY <2>1 DEF WorkInv
  <2> QED
    BY <2>1, <2>2, <2>3, <2>4, <2>5, NoRowStep DEF Running
<1>4. CASE CallSkill
  <2>1. /\ skillCalls' = skillCalls + 1 /\ UNCHANGED <<step, attempt, rows, closures, drafts>>
        /\ phase = "calls" /\ phase' \in {"looped", "skill"}
        /\ phase' = "skill" => skillCalls' <= MaxSkillCalls
    BY <1>1, <1>4, Limits DEF CallSkill, Return, Exceeded
  <2>2. attempt = 0 /\ closures <= MaxClosureRetries
        /\ AllRuns(rows, Skills) <= Allowed(skillCalls) /\ AllOk(rows, Skills) <= skillCalls
    BY <2>1 DEF WorkInv, Running
  <2>3. AllRuns(rows, Skills) \in Nat /\ AllOk(rows, Skills) \in Nat
    BY <1>1, SumsAreNat
  <2>4. Allowed(skillCalls) \in Nat
    BY <1>1, AllowedGrows
  <2>5. skillCalls' - 1 = skillCalls /\ skillCalls' > 0
    BY <1>1, <2>1
  <2>6. AllOk(rows, Skills) <= skillCalls'
    BY <1>1, <2>1, <2>2, <2>3
  <2>7. AllRuns(rows, Skills) <= Allowed(skillCalls' - 1) + attempt'
    BY <2>1, <2>2, <2>3, <2>4, <2>5
  <2>8. /\ step <= MaxSteps /\ closures <= MaxClosureRetries + 1
        /\ AllRuns(rows, Skills) <= Allowed(MaxSkillCalls)
        /\ drafts = AllOk(rows, Simulates)
    BY DEF WorkInv
  <2> QED
    BY <2>1, <2>2, <2>5, <2>6, <2>7, <2>8 DEF WorkInv, Running
<1>5. CASE Succeeds
  <2> DEFINE s == calls[at]
  <2>1. /\ s \in Skills /\ rows' = [rows EXCEPT ![s].ok = @ + 1] /\ drafts' = Drafted(s)
        /\ attempt' = 0 /\ phase = "skill" /\ phase' \in {"chat", "calls"}
        /\ UNCHANGED <<step, skillCalls, closures>>
    BY <1>5 DEF Succeeds, Answer, LoopInv, TypeOK
  <2> HIDE DEF s
  <2>2. rows' \in Tables
    BY <1>1, <2>1 DEF Tables
  <2>3. Simulates \in SUBSET Skills /\ Skills \in SUBSET Skills
    BY AgentLoopAssumption
  <2>4. /\ AllOk(rows, Skills) \in Nat /\ AllOk(rows', Skills) = AllOk(rows, Skills) + 1
        /\ AllOk(rows', Simulates)
             = IF s \in Simulates THEN AllOk(rows, Simulates) + 1 ELSE AllOk(rows, Simulates)
    <3>1. OneOkRow(rows, rows', s)
      BY <2>1 DEF OneOkRow
    <3>2. \A S \in SUBSET Skills :
            /\ AllOk(rows, S) \in Nat
            /\ AllOk(rows', S) = IF s \in S THEN AllOk(rows, S) + 1 ELSE AllOk(rows, S)
      BY <1>1, <2>1, <2>2, <3>1, OneMoreOk
    <3> QED
      BY <2>1, <2>3, <3>2
  <2>5. AllRuns(rows, Skills) \in Nat /\ AllRuns(rows', Skills) = AllRuns(rows, Skills) + 1
    BY <1>1, <2>1, <2>2, OneMoreRun
  <2>6. drafts' = AllOk(rows', Simulates)
    BY <2>1, <2>4 DEF WorkInv, Drafted
  <2>7. /\ skillCalls > 0 /\ skillCalls <= MaxSkillCalls /\ closures <= MaxClosureRetries
        /\ AllRuns(rows, Skills) <= Allowed(skillCalls - 1) + attempt
        /\ AllOk(rows, Skills) <= skillCalls - 1
        /\ step <= MaxSteps /\ closures <= MaxClosureRetries + 1
    BY <2>1 DEF WorkInv, Running
  <2>8. AllRuns(rows', Skills) <= Allowed(skillCalls) /\ Allowed(skillCalls) <= Allowed(MaxSkillCalls)
        /\ AllRuns(rows', Skills) <= Allowed(MaxSkillCalls)
    BY <1>1, <2>5, <2>7, SpendsACall
  <2>9. AllOk(rows', Skills) <= skillCalls
    BY <1>1, <2>4, <2>7
  <2> QED
    BY <2>1, <2>6, <2>7, <2>8, <2>9 DEF WorkInv, Running
<1>6. CASE SkillFails
  <2> DEFINE s == calls[at]
  <2>1. /\ s \in Skills /\ rows' = [rows EXCEPT ![s].failed = @ + 1] /\ phase = "skill"
        /\ UNCHANGED <<step, skillCalls, closures, drafts>>
    BY <1>6 DEF SkillFails, LoopInv, TypeOK
  <2>2. \/ attempt < SkillRetries /\ attempt' = attempt + 1 /\ phase' = "skill"
        \/ attempt' = 0 /\ phase' \in {"chat", "calls"}
    BY <1>6 DEF SkillFails, Answer
  <2> HIDE DEF s
  <2>3. rows' \in Tables
    BY <1>1, <2>1 DEF Tables
  <2>4. AllOk(rows', Skills) = AllOk(rows, Skills) /\ AllOk(rows', Simulates) = AllOk(rows, Simulates)
    <3>1. Simulates \in SUBSET Skills /\ Skills \in SUBSET Skills
      BY AgentLoopAssumption
    <3> QED
      BY <1>1, <2>1, <2>3, <3>1, NoMoreOk
  <2>5. AllRuns(rows, Skills) \in Nat /\ AllRuns(rows', Skills) = AllRuns(rows, Skills) + 1
    BY <1>1, <2>1, <2>3, OneMoreRun
  <2>6. /\ skillCalls > 0 /\ skillCalls <= MaxSkillCalls /\ closures <= MaxClosureRetries
        /\ AllRuns(rows, Skills) <= Allowed(skillCalls - 1) + attempt
        /\ AllOk(rows, Skills) <= skillCalls - 1 /\ AllOk(rows, Skills) <= skillCalls
        /\ step <= MaxSteps /\ closures <= MaxClosureRetries + 1
        /\ drafts = AllOk(rows, Simulates)
    BY <2>1 DEF WorkInv, Running
  <2>7. AllRuns(rows', Skills) <= Allowed(skillCalls) /\ Allowed(skillCalls) <= Allowed(MaxSkillCalls)
        /\ AllRuns(rows', Skills) <= Allowed(MaxSkillCalls)
    BY <1>1, <2>5, <2>6, SpendsACall
  <2>8. CASE attempt < SkillRetries /\ attempt' = attempt + 1 /\ phase' = "skill"
    <3>1. AllRuns(rows', Skills) <= Allowed(skillCalls - 1) + attempt'
      <4>1. skillCalls - 1 \in Nat /\ Allowed(skillCalls - 1) \in Nat
        BY <1>1, <2>6, AllowedGrows
      <4> QED
        BY <1>1, <2>5, <2>6, <2>8, <4>1
    <3> QED
      BY <2>1, <2>4, <2>6, <2>7, <2>8, <3>1 DEF WorkInv, Running
  <2>9. CASE attempt' = 0 /\ phase' \in {"chat", "calls"}
    BY <2>1, <2>4, <2>6, <2>7, <2>9 DEF WorkInv, Running
  <2> QED
    BY <2>2, <2>8, <2>9
<1>7. CASE Conclude \/ RollBack
  <2>1. UNCHANGED <<rows, drafts, attempt, skillCalls, closures, step>> /\ phase' \notin Running
    BY <1>7 DEF Conclude, RollBack, Running
  <2> QED
    BY <2>1 DEF WorkInv, Running
<1>8. CASE UNCHANGED vars
  BY <1>8 DEF vars, WorkInv, Running
<1> QED
  BY <1>2, <1>3, <1>4, <1>5, <1>6, <1>7, <1>8 DEF Next

\* An investigation stays within all of its limits, whatever the LLM asks for and whatever
\* fails: chats, closure rounds, skill runs with their retries; and it leaves one draft
\* simulation for each simulating call that succeeded (AgentLoop.run,
\* _execute_skill_with_retry).
THEOREM WorkIsBounded == Spec => []WorkBounded
<1>1. WorkInv => WorkBounded
  BY SumsOfTheModel DEF WorkInv, WorkBounded, Allowed
<1> QED
  BY <1>1, LoopInit, LoopStep, WorkInit, WorkStep, PTL DEF Spec
=============================================================================
