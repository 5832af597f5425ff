----------------------------- MODULE RedisLock ------------------------------
(***************************************************************************)
(* One Redis job lock: SET key token NX EX ttl, the run, then GET, compare *)
(* and DEL as separate round trips.  The locks of ingestion, triage,       *)
(* aggregation, investigation, human review and defense assets compare a   *)
(* token (Tokened); those of the evaluation store "1" and delete the key   *)
(* whoever set it.                                                         *)
(*                                                                         *)
(* Time is discrete.  No code bounds a run, MaxRun is the bound the        *)
(* operator relies on.  EventPipeline has these operations as single steps *)
(* and calls the services with MaxRun < Ttl Reliable.                      *)
(***************************************************************************)
EXTENDS Naturals

CONSTANTS
  Workers,      \* runs that contend for the lock
  None,         \* nobody: the key does not exist
  Ttl,          \* the EX argument
  MaxRun,       \* how long a run takes at most, the release included
  Tokened,      \* the release compares the token
  SlowRelease   \* time may pass between the GET and the DEL

ASSUME LockAssumption ==
  /\ None \notin Workers
  /\ Ttl \in Nat \ {0}
  /\ MaxRun \in Nat
  /\ Tokened \in BOOLEAN
  /\ SlowRelease \in BOOLEAN

VARIABLES
  holder,   \* Redis: whose SET created the key, or None
  ttl,      \* Redis: the time the key has left
  pc,       \* "idle", "running", or "deleting": the compare has succeeded
  ran       \* how long ago each run set the key

lockVars == <<holder, ttl, pc, ran>>

LockTypeOK ==
  /\ holder \in Workers \cup {None}
  /\ ttl \in 0..Ttl
  /\ pc \in [Workers -> {"idle", "running", "deleting"}]
  /\ ran \in [Workers -> 0..MaxRun]

LockInit ==
  /\ holder = None
  /\ ttl = 0
  /\ pc = [w \in Workers |-> "idle"]
  /\ ran = [w \in Workers |-> 0]

Inside == {w \in Workers : pc[w] # "idle"}

\* Mutant: SET without NX.
KeyIsAbsent_Always == TRUE

\* NX: the key is set only if it does not exist.
KeyIsAbsent == holder = None

\* EX: the time the key is given.
KeyLife == Ttl

\* SET key token NX EX ttl succeeds.
Acquire(w) ==
  /\ pc[w] = "idle"
  /\ KeyIsAbsent
  /\ holder' = w
  /\ ttl' = KeyLife
  /\ pc' = [pc EXCEPT ![w] = "running"]
  /\ ran' = [ran EXCEPT ![w] = 0]

\* current == token, the value of the key being the caller's own token.
TokenMatches(w) == Tokened => holder = w

\* The finally clause: GET and compare.
Compare(w) ==
  /\ pc[w] = "running"
  /\ pc' = [pc EXCEPT ![w] = IF TokenMatches(w) THEN "deleting" ELSE "idle"]
  /\ UNCHANGED <<holder, ttl, ran>>

\* DEL removes the key, whoever has set it.
Delete(w) ==
  /\ pc[w] = "deleting"
  /\ holder' = None
  /\ ttl' = 0
  /\ pc' = [pc EXCEPT ![w] = "idle"]
  /\ UNCHANGED ran

\* The process of a run dies; its key stays.
Die(w) ==
  /\ pc[w] # "idle"
  /\ pc' = [pc EXCEPT ![w] = "idle"]
  /\ UNCHANGED <<holder, ttl, ran>>

\* A unit of time passes; the key may expire under a run.
Tick ==
  /\ ttl > 0 \/ Inside # {}
  /\ \A w \in Inside : ran[w] < MaxRun
  /\ \A w \in Inside : pc[w] = "deleting" => SlowRelease
  /\ ttl' = IF ttl > 0 THEN ttl - 1 ELSE 0
  /\ holder' = IF ttl = 1 THEN None ELSE holder
  /\ ran' = [w \in Workers |-> IF w \in Inside THEN ran[w] + 1 ELSE ran[w]]
  /\ UNCHANGED pc

LockNext ==
  \/ \E w \in Workers : Acquire(w) \/ Compare(w) \/ Delete(w) \/ Die(w)
  \/ Tick

LockSpec == LockInit /\ [][LockNext]_lockVars

-----------------------------------------------------------------------------
\* At most one run is inside, however the others crash, as long as the lock
\* outlasts a run.
MutualExclusion == MaxRun < Ttl => \A v, w \in Inside : v = w

\* A run never deletes the key another run has set, although the compare and
\* the DEL are two round trips.
NoForeignDelete ==
  [][\A w \in Workers : Delete(w) => holder = w]_lockVars

\* What makes the lock work when it outlasts a run: whoever is inside owns the
\* key, and the time the key has left and the age of the run add up to the TTL.
LockInv ==
  /\ LockTypeOK
  /\ holder = None <=> ttl = 0
  /\ MaxRun < Ttl => \A w \in Inside : holder = w /\ ttl + ran[w] = Ttl

M == INSTANCE Mutex WITH inside <- Inside

\* The lock implements the abstract one.
ImplementsMutex == M!Spec
=============================================================================
