------------------------------ MODULE Regression ------------------------------
(***************************************************************************)
(* The regression evaluation runs the agent loop over stored cases, in the *)
(* process that investigates real events.  To keep the loop off the        *)
(* database it replaces two names of that process: load_disposition_config *)
(* in agent/loop.py (unittest.mock.patch) and, with the mock LLM,          *)
(* SkillRegistry.execute.  Everybody in the process meets what is there.   *)
(*                                                                         *)
(* With the mock LLM nothing in a case suspends: no other task runs before *)
(* the names are back.  With the real one the case waits for the network.  *)
(***************************************************************************)
EXTENDS Naturals

CONSTANTS
  Runs,               \* the scheduled job and API requests
  Investigators,      \* real investigations
  Cases,              \* active regression cases
  MayOverrun,         \* a run may outlast the 900 seconds of its key
  Nobody

ASSUME RegressionAssumption == MayOverrun \in BOOLEAN /\ Nobody \notin Runs

VARIABLES
  loader,     \* whose stand-in for load_disposition_config is in place, or Nobody
  registry,   \* the same of SkillRegistry.execute
  lock,       \* Redis: whose eval:lock:regression it is, or Nobody
  regression, \* what each run is doing
  evidence    \* the answers a real investigation has got: "none", "real" or "mocked"

regressionVars == <<loader, registry, lock, regression, evidence>>

\* A run has the cases it has not judged; saved is what its patch puts back.
Idle == [pc |-> "idle", real |-> FALSE, todo |-> {}, saved |-> Nobody]

RegressionInit ==
  /\ loader = Nobody /\ registry = Nobody
  /\ lock = Nobody
  /\ regression = [r \in Runs |-> Idle]
  /\ evidence = [n \in Investigators |-> "none"]

-----------------------------------------------------------------------------
(* RegressionRunner.run *)

\* Mutant: SET without NX.
KeyIsFree_Always == TRUE

KeyIsFree == lock = Nobody

\* The key, the configuration and the active cases of a tag; without any the run is over.
Begin(r) ==
  /\ regression[r].pc = "idle" /\ KeyIsFree
  /\ lock' = r
  /\ \E cs \in SUBSET Cases \ {{}}, real \in BOOLEAN :
       regression' = [regression EXCEPT ![r] = [pc |-> "cases", real |-> real, todo |-> cs,
                                                saved |-> Nobody]]
  /\ UNCHANGED <<loader, registry, evidence>>

\* The end of a run, by return or exception: the key is deleted whoever set it.
EndRun(r) ==
  /\ regression' = [regression EXCEPT ![r] = Idle]
  /\ lock' = Nobody

\* finally: whatever the loop raises, the original is back.
PutBack(original, r, raised) == original

\* A case with the mock LLM: both names there and back.
JudgeMocked(r) ==
  /\ regression[r].pc = "cases" /\ ~regression[r].real
  /\ \E c \in regression[r].todo, raised \in BOOLEAN :
       /\ regression' = [regression EXCEPT ![r].todo = @ \ {c}]
       /\ registry' = PutBack(registry, r, raised)
  /\ UNCHANGED <<loader, lock, evidence>>

\* A case with the real LLM replaces the first name only, and waits.
Ask(r) ==
  /\ regression[r].pc = "cases" /\ regression[r].real /\ regression[r].todo # {}
  /\ regression' = [regression EXCEPT ![r].pc = "asking", ![r].saved = loader]
  /\ loader' = r
  /\ UNCHANGED <<registry, lock, evidence>>

\* The patch is undone, and the case judged.  Where a skill's query has flushed messages
\* of an investigation that is in no table, reading case.id raises and ends the run.
Answered(r) ==
  /\ regression[r].pc = "asking"
  /\ loader' = regression[r].saved
  /\ \/ /\ \E c \in regression[r].todo :
             regression' = [regression EXCEPT ![r].pc = "cases", ![r].todo = @ \ {c}]
        /\ UNCHANGED lock
     \/ EndRun(r)
  /\ UNCHANGED <<registry, evidence>>

\* The report is committed, or something raises: the session, a fixture that is no JSON.
Finish(r) ==
  /\ regression[r].pc = "cases"
  /\ EndRun(r)
  /\ UNCHANGED <<loader, registry, evidence>>

RegressionStep(r) == Begin(r) \/ JudgeMocked(r) \/ Ask(r) \/ Answered(r) \/ Finish(r)

-----------------------------------------------------------------------------
(* Real investigations, the process, Redis *)

\* A skill is called by whatever SkillRegistry.execute is by now.
CallSkill(n) ==
  /\ evidence' = [evidence EXCEPT ![n] =
       IF @ = "mocked" \/ registry # Nobody THEN "mocked" ELSE "real"]
  /\ UNCHANGED <<loader, registry, lock, regression>>

EndLoop(n) ==
  /\ evidence[n] # "none"
  /\ evidence' = [evidence EXCEPT ![n] = "none"]
  /\ UNCHANGED <<loader, registry, lock, regression>>

\* The process dies with the names in it; the key stays.
ProcessDies ==
  /\ loader' = Nobody /\ registry' = Nobody
  /\ regression' = [r \in Runs |-> Idle]
  /\ evidence' = [n \in Investigators |-> "none"]
  /\ UNCHANGED lock

KeyExpires ==
  /\ lock # Nobody
  /\ MayOverrun \/ regression[lock].pc = "idle"
  /\ lock' = Nobody
  /\ UNCHANGED <<loader, registry, regression, evidence>>

RegressionNext ==
  \/ \E r \in Runs : RegressionStep(r)
  \/ \E n \in Investigators : CallSkill(n) \/ EndLoop(n)
  \/ ProcessDies \/ KeyExpires

RegressionSpec == RegressionInit /\ [][RegressionNext]_regressionVars

-----------------------------------------------------------------------------
\* What a regression replaces comes back before anyone else needs it: no real
\* investigation is answered by mock skills, whatever the loop of a case raises, and
\* when nobody waits for the real LLM load_disposition_config is the process's own,
\* although two runs that put it back in the order they came would leave the first
\* one's stand-in for good (_run_case, regression_lock).
StandInsAreGone ==
  /\ \A n \in Investigators : evidence[n] # "mocked"
  /\ loader # Nobody => regression[loader].pc = "asking"
=============================================================================
