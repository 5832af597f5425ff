------------------------------ MODULE AgentLoop -------------------------------
(***************************************************************************)
(* One investigation: AgentLoop.run talks to the LLM, runs the skills it   *)
(* asks for and checks the conclusion it submits; then the orchestrator    *)
(* audits the result and commits it.  Investigation.tla sees all of this   *)
(* as one step with a free verdict; Inquiry.tla says what it may rely on.  *)
(***************************************************************************)
EXTENDS Integers, FiniteSets, Sequences, FiniteSetsExt

CONSTANTS
  Skills,           \* names the LLM may call, registered or not
  Registered, Cached,      \* those with an implementation; those with a Redis cache
  Simulates,        \* skills that leave a draft simulation
  SettleVerdicts, HumanVerdicts,
  Attack,           \* attack_confirmed
  MaxSteps, MaxSkillCalls, SkillRetries, MaxClosureRetries,
  ClosureEnabled, RequireRefutation,
  MinScore, MinRefutation, MinRefuting,   \* percent, percent, number of hints
  RequiredSkills, Supporting, Refuting,   \* the SOP's hypothesis template
  Recommended, MaxOffSop, BlockOnFail,    \* the supervisor
  MaxCalls,         \* bound: tool calls in one answer of the LLM
  None

HandOver == "needs_human_review"
Malformed == "malformed"
Verdicts == SettleVerdicts \cup HumanVerdicts

ASSUME AgentLoopAssumption ==
  /\ IsFiniteSet(Skills)
  /\ Registered \subseteq Skills /\ Cached \subseteq Registered
  /\ Simulates \subseteq Registered
  /\ HandOver \in HumanVerdicts /\ Attack \in SettleVerdicts
  /\ SettleVerdicts \cap HumanVerdicts = {}
  /\ Skills \cap (Verdicts \cup {Malformed}) = {} /\ Malformed \notin Verdicts
  /\ {MaxSteps, MaxSkillCalls, SkillRetries, MaxClosureRetries, MaxCalls} \subseteq Nat
  /\ {MinScore, MinRefutation, MinRefuting, MaxOffSop} \subseteq Nat
  /\ {ClosureEnabled, RequireRefutation, BlockOnFail} \subseteq BOOLEAN
  /\ RequiredSkills \subseteq Skills /\ Recommended \subseteq Skills
  /\ Supporting \in Seq(Skills) /\ Refuting \in Seq(Skills)
  /\ None \notin Verdicts /\ {"open", "nothing"} \cap Verdicts = {}

VARIABLES
  phase,       \* chat, calls, skill, looped, concluded, failed
  step,        \* current_step: chats so far
  calls,       \* the tool calls of the last answer
  at,          \* the one the for loop is at
  answers,     \* the calls with a tool message, in the order of these messages
  called,      \* skills_called
  skillCalls,  \* skill_calls
  attempt,     \* of _execute_skill_with_retry
  rows,        \* investigation_tool_calls by skill: successful and not
  closures,    \* closure_retry_count
  aborted,     \* whether a skill's SQL error has aborted the transaction
  drafts,      \* disposition_simulations of this investigation
  result       \* AgentLoopResult, and then what is committed

vars == <<phase, step, calls, at, answers, called, skillCalls, attempt, rows, closures,
          aborted, drafts, result>>

Init ==
  /\ phase = "chat" /\ step = 0
  /\ calls = <<>> /\ at = 0 /\ answers = <<>>
  /\ called = {} /\ skillCalls = 0 /\ attempt = 0
  /\ rows = [s \in Skills |-> [ok |-> 0, failed |-> 0]]
  /\ closures = 0
  /\ aborted = FALSE /\ drafts = 0
  /\ result = None

-----------------------------------------------------------------------------
(* ClosureEvaluator.evaluate *)

Hits(hints) == Cardinality({i \in DOMAIN hints : hints[i] \in called})

\* A share k of n as a fraction; of nothing it is one.
Num(k, n) == IF n = 0 THEN 1 ELSE k
Den(n) == IF n = 0 THEN 1 ELSE n

Missing == RequiredSkills \ called

\* 0.4 required + 0.3 supporting + 0.3 refuting, against the threshold.
ScoreSuffices ==
  LET r == Num(Cardinality(RequiredSkills \ Missing), Cardinality(RequiredSkills))
      s == Num(Hits(Supporting), Len(Supporting))
      f == Num(Hits(Refuting), Len(Refuting))
      dr == Den(Cardinality(RequiredSkills))
      ds == Den(Len(Supporting))
      df == Den(Len(Refuting))
  IN  40 * r * ds * df + 30 * s * dr * df + 30 * f * dr * ds >= MinScore * dr * ds * df

RefutationSuffices ==
  \/ Len(Refuting) = 0
  \/ /\ ~RequireRefutation \/ Hits(Refuting) >= MinRefuting
     /\ 100 * Hits(Refuting) >= MinRefutation * Len(Refuting)

\* Mutant: a good score makes up for a missing skill.
ClosurePasses_ScoreOnly(v) ==
  \/ ~ClosureEnabled \/ v \in HumanVerdicts
  \/ ScoreSuffices /\ (v = Attack => RefutationSuffices)

ClosurePasses(v) ==
  \/ ~ClosureEnabled \/ v \in HumanVerdicts
  \/ ScoreSuffices /\ Missing = {} /\ (v = Attack => RefutationSuffices)

-----------------------------------------------------------------------------
(* AgentLoop.run *)

\* What an answer can ask for.  A conclusion without the fields the model requires is
\* malformed; arguments that are not JSON arrive as {}.
Requests == UNION {[1 .. k -> Skills \cup Verdicts \cup {Malformed}] : k \in 1 .. MaxCalls}

Results == [verdict : Verdicts, status : {"completed", "needs_human", "degraded"}]

AgentLoopResult(v, status) == [verdict |-> v, status |-> status]

Return(v, status) ==
  /\ phase' = "looped"
  /\ result' = AgentLoopResult(v, status)

\* Mutant: the last step is not counted.
StepsLeft_OneMore == step <= MaxSteps

StepsLeft == step < MaxSteps

\* The LLM asks for tool calls.
Chat ==
  /\ phase = "chat" /\ StepsLeft
  /\ step' = step + 1
  /\ calls' \in Requests
  /\ phase' = "calls" /\ at' = 1 /\ answers' = <<>>
  /\ UNCHANGED <<called, skillCalls, attempt, rows, closures, aborted, drafts, result>>

\* It answers with a text, which is answered by a reminder, or with nothing.
Chatter ==
  /\ phase = "chat" /\ StepsLeft
  /\ step' = step + 1
  /\ UNCHANGED <<phase, calls, at, answers, called, skillCalls, attempt, rows, closures,
                 aborted, drafts, result>>

\* LLMClient.chat raises: no key, timeout, HTTP status, an answer without choices.
ChatFails ==
  /\ phase = "chat" /\ StepsLeft
  /\ step' = step + 1
  /\ Return(HandOver, "degraded")
  /\ UNCHANGED <<calls, at, answers, called, skillCalls, attempt, rows, closures, aborted,
                 drafts>>

OutOfSteps ==
  /\ phase = "chat" /\ ~StepsLeft
  /\ Return(HandOver, "needs_human")
  /\ UNCHANGED <<step, calls, at, answers, called, skillCalls, attempt, rows, closures,
                 aborted, drafts>>

\* The tool message for the current call, and on to the next one.
Answer ==
  /\ answers' = Append(answers, at)
  /\ at' = at + 1
  /\ phase' = IF at = Len(calls) THEN "chat" ELSE "calls"

\* Mutant: the except branch goes on without a tool message.
Explain_Silent ==
  /\ UNCHANGED answers
  /\ at' = at + 1
  /\ phase' = IF at = Len(calls) THEN "chat" ELSE "calls"

\* submit_conclusion does not validate: the error is the answer.
Explain == Answer

Invalid ==
  /\ phase = "calls" /\ calls[at] = Malformed
  /\ Explain
  /\ UNCHANGED <<step, calls, called, skillCalls, attempt, rows, closures, aborted, drafts,
                 result>>

Accept ==
  /\ phase = "calls" /\ calls[at] \in Verdicts
  /\ ClosurePasses(calls[at])
  /\ Return(calls[at], "completed")
  /\ UNCHANGED <<step, calls, at, answers, called, skillCalls, attempt, rows, closures,
                 aborted, drafts>>

\* The evidence does not suffice: another round, or a human when the retries are used up.
Reject ==
  /\ phase = "calls" /\ calls[at] \in Verdicts
  /\ ~ClosurePasses(calls[at])
  /\ closures' = closures + 1
  /\ IF closures' > MaxClosureRetries
     THEN Return(HandOver, "needs_human") /\ UNCHANGED <<at, answers>>
     ELSE Answer /\ UNCHANGED result
  /\ UNCHANGED <<step, calls, called, skillCalls, attempt, rows, aborted, drafts>>

Exceeded == skillCalls' > MaxSkillCalls

CallSkill ==
  /\ phase = "calls" /\ calls[at] \in Skills
  /\ skillCalls' = skillCalls + 1
  /\ called' = called \cup {calls[at]}
  /\ IF Exceeded
     THEN Return(HandOver, "needs_human")
     ELSE phase' = "skill" /\ UNCHANGED result
  /\ UNCHANGED <<step, calls, at, answers, attempt, rows, closures, aborted, drafts>>

\* SkillRegistry.execute finds the skill, and the skill gets what it asks for: an answer
\* from the cache needs no transaction.
Responds(s) == s \in Registered /\ (aborted => s \in Cached)

\* simulate_disposition adds a DRAFT simulation; no other skill writes rows.
Drafted(s) == IF s \in Simulates THEN drafts + 1 ELSE drafts

Succeeds ==
  LET s == calls[at]
  IN  /\ phase = "skill"
      /\ Responds(s)
      /\ rows' = [rows EXCEPT ![s].ok = @ + 1]
      /\ drafts' = Drafted(s)
      /\ attempt' = 0
      /\ Answer
      /\ UNCHANGED <<step, calls, called, skillCalls, closures, aborted, result>>

\* The skill reports an error or raises; a SQL error aborts the transaction, and
\* nobody rolls it back.
SkillFails ==
  LET s == calls[at]
  IN  /\ phase = "skill"
      /\ rows' = [rows EXCEPT ![s].failed = @ + 1]
      /\ aborted' \in IF s \in Registered THEN {aborted, TRUE} ELSE {aborted}
      /\ IF attempt < SkillRetries
         THEN attempt' = attempt + 1 /\ UNCHANGED <<phase, at, answers>>
         ELSE attempt' = 0 /\ Answer
      /\ UNCHANGED <<step, calls, called, skillCalls, closures, drafts, result>>

-----------------------------------------------------------------------------
(* _investigate_event after the loop *)

Runs(s) == rows[s].ok + rows[s].failed

MissesRecommended == \E s \in Recommended : rows[s].ok = 0

Drifts == MapThenSumSet(Runs, Skills \ Recommended) > MaxOffSop

\* InvestigationSupervisor.audit; whether the reasoning cites what the tools returned
\* is a free choice.
AuditPasses(grounded) ==
  grounded /\ ~(Recommended # {} /\ MissesRecommended) /\ ~Drifts

Audited(grounded) ==
  IF BlockOnFail /\ ~AuditPasses(grounded) THEN HandOver ELSE result.verdict

\* The audit, the event's status from the verdict and the investigation's from both;
\* refresh and commit need a transaction that is not aborted.
Conclude ==
  /\ phase = "looped" /\ ~aborted
  /\ \E grounded \in BOOLEAN :
       result' = [verdict |-> Audited(grounded),
                  status |-> IF \/ BlockOnFail /\ ~AuditPasses(grounded)
                                \/ Audited(grounded) \in HumanVerdicts
                             THEN "needs_human" ELSE result.status]
  /\ phase' = "concluded"
  /\ UNCHANGED <<step, calls, at, answers, called, skillCalls, attempt, rows, closures,
                 aborted, drafts>>

\* Mutant: what fails after the loop is swallowed.
Unwinds_NotAfterLoop == phase \in {"chat", "calls", "skill"}

Unwinds == phase \notin {"concluded", "failed"}

\* An exception outside the loop's own try blocks, or the death of the process: nothing
\* of the investigation is left.
RollBack ==
  /\ Unwinds
  /\ phase' = "failed"
  /\ result' = None
  /\ UNCHANGED <<step, calls, at, answers, called, skillCalls, attempt, rows, closures,
                 aborted, drafts>>

Next ==
  \/ Chat \/ Chatter \/ ChatFails \/ OutOfSteps
  \/ Invalid \/ Accept \/ Reject \/ CallSkill
  \/ Succeeds \/ SkillFails
  \/ Conclude \/ RollBack

Spec == Init /\ [][Next]_vars

\* The LLM and every skill answer or time out; the code goes on.
FairSpec == Spec /\ WF_vars(Next)

-----------------------------------------------------------------------------
(* Properties *)

TypeOK ==
  /\ phase \in {"chat", "calls", "skill", "looped", "concluded", "failed"}
  /\ step \in Nat
  /\ calls \in Seq(Skills \cup Verdicts \cup {Malformed})
  /\ at \in Nat /\ answers \in Seq(Nat)
  /\ phase \in {"calls", "skill"} => at \in 1 .. Len(calls)
  /\ phase = "skill" => calls[at] \in called
  /\ called \subseteq Skills
  /\ skillCalls \in Nat /\ attempt \in 0 .. SkillRetries
  /\ rows \in [Skills -> [ok : Nat, failed : Nat]]
  /\ closures \in Nat /\ drafts \in Nat
  /\ aborted \in BOOLEAN
  /\ result \in {None} \cup Results

\* Before the LLM is asked again every tool call of its last answer has exactly one
\* tool message, in order, whatever was malformed, rejected or failed (run): the chat
\* protocol refuses a conversation with an open call.
CallsAnswered == phase = "chat" => answers = [i \in 1 .. Len(calls) |-> i]

\* The limits hold together: chats, skill calls with their retries and closure rounds;
\* and a retry never repeats the effect of a call that succeeded (run,
\* _execute_skill_with_retry).
WorkBounded ==
  /\ step <= MaxSteps
  /\ closures <= MaxClosureRetries + 1
  /\ MapThenSumSet(Runs, Skills) <= MaxSkillCalls * (SkillRetries + 1)
  /\ MapThenSumSet(LAMBDA s : rows[s].ok, Skills) <= skillCalls
  /\ drafts = MapThenSumSet(LAMBDA s : rows[s].ok, Simulates)

Tried == {s \in Skills : rows[s].ok + rows[s].failed > 0}

\* What the orchestrator sees of an investigation.
Outcome ==
  IF phase = "concluded" THEN result.verdict
  ELSE IF phase = "failed" THEN "nothing" ELSE "open"

Contract ==
  INSTANCE Inquiry WITH
    Required <- IF ClosureEnabled THEN RequiredSkills ELSE {},
    tried <- Tried, outcome <- Outcome, Open <- "open", Nothing <- "nothing"

\* The loop keeps the orchestrator's contract: one outcome, settling only after every
\* required skill has been run at least once (loop.py, closure_evaluator.py).
KeepsContract == Contract!Spec

\* Every investigation ends, committed or rolled back, however the LLM behaves.
InvestigationEnds == <>(phase \in {"concluded", "failed"})
=============================================================================
