--------------------------- MODULE IngestionProofs ----------------------------
(***************************************************************************)
(* For any sources, documents and workers: the cursor passes no alert that *)
(* is not stored.  The session's stale copies of the rows make this hard:  *)
(* the invariant says it of every copy, and of the page between the pull   *)
(* and its commit.                                                         *)
(***************************************************************************)
EXTENDS Ingestion, FiniteSetTheorems, WellFoundedInduction, TLAPS

\* Documents can be counted.
LEMMA DocSets ==
  ASSUME NEW S \in SUBSET Docs
  PROVE  IsFiniteSet(S) /\ Cardinality(S) \in Nat
  BY IngestionAssumption, FS_Subset, FS_CardinalityType

\* The natural numbers are well founded.
LEMMA LeastNat ==
  ASSUME NEW T \in SUBSET Nat, T # {}
  PROVE  \E n \in T : \A m \in T : n <= m
<1> DEFINE R == OpToRel(<, Nat)
<1>1. PICK n \in T : \A m \in T : ~(<<m, n>> \in R)
  BY NatLessThanWellFounded, WFMin
<1>2. \A m \in T : ~(m < n)
  BY <1>1 DEF OpToRel
<1> QED
  BY <1>2

\* A non-empty set of documents has a last one: the one with the fewest behind it.
LEMMA LastDoc ==
  ASSUME NEW S \in SUBSET Docs, S # {}
  PROVE  Max(S) \in S /\ \A d \in S : d <= Max(S)
<1> DEFINE After(d) == {e \in Docs : e > d}
           T == {Cardinality(After(d)) : d \in S}
<1>1. \A d \in Docs : d \in Nat /\ After(d) \subseteq Docs
  BY IngestionAssumption
<1>2. \A d \in S : IsFiniteSet(After(d)) /\ Cardinality(After(d)) \in Nat
  BY <1>1, DocSets
<1>3. T \in SUBSET Nat /\ T # {}
  BY <1>2
<1>4. PICK n \in T : \A m \in T : n <= m
  BY <1>3, LeastNat
<1>5. PICK last \in S : n = Cardinality(After(last))
  BY <1>4
<1>6. ASSUME NEW d \in S, ~(d <= last)
      PROVE  FALSE
  <2>1. After(d) \subseteq After(last) /\ After(d) # After(last)
    BY <1>1, <1>6
  <2>2. /\ IsFiniteSet(After(last)) /\ After(d) \in SUBSET After(last)
        /\ Cardinality(After(d)) \in Nat /\ Cardinality(After(last)) \in Nat
    BY <1>2, <2>1
  <2> HIDE DEF After
  <2>3. Cardinality(After(d)) < Cardinality(After(last))
    BY <2>1, <2>2, FS_Subset
  <2> QED
    BY <1>4, <1>5, <2>2, <2>3
<1>7. \A d \in S : last >= d
  BY <1>1, <1>6
<1> QED
  BY <1>1, <1>7 DEF Max

-----------------------------------------------------------------------------
(* The cursor passes nothing. *)

\* What the cursor has passed is stored, cannot be mapped, or was out of reach.
Covered(s, pos) == \A d \in OfSource(s) : d <= pos => d \in stored \cup unmappable \cup unseen

\* A page holds, or could not hold, all that its commit will pass.
PageWhole(a) ==
  /\ a.page \in Pages
  /\ \A d \in OfSource(a.at) :
       ~(d <= a.row[a.at].pos) /\ d <= NextPos(a.row[a.at], a.page.hits)
         => d \in a.page.hits \cup a.page.gone

\* What a worker does rests on cursors that have passed nothing.
Fit(a) ==
  /\ a \in Activity
  /\ \A s \in Sources : Covered(s, a.row[s].pos)
  /\ a.pc \in {"pull", "store", "reset"} => a.at \in Sources
  /\ a.pc = "store" => PageWhole(a)

SkipInv ==
  /\ TypeOK
  /\ \A s \in Sources : Covered(s, src[s].pos)
  /\ \A w \in Workers : Fit(run[w])

\* Nothing that is covered is ever uncovered.
Keeps == stored \subseteq stored' /\ unseen \subseteq unseen' /\ unmappable' = unmappable

LEMMA StillCovered ==
  ASSUME Keeps, NEW s \in Sources, NEW pos, Covered(s, pos)
  PROVE  Covered(s, pos)'
  BY DEF Keeps, Covered, OfSource

LEMMA StillFit ==
  ASSUME Keeps, NEW a, Fit(a)
  PROVE  Fit(a)'
<1>1. \A s \in Sources : Covered(s, a.row[s].pos)'
  BY StillCovered DEF Fit
<1> QED
  BY <1>1 DEF Fit, PageWhole

\* The empty cursor has passed nothing.
LEMMA NewIsCovered ==
  /\ NewSource \in Cursor
  /\ \A s \in Sources : Covered(s, 0) /\ Covered(s, NewSource.pos)
  BY IngestionAssumption DEF NewSource, Cursor, Covered, OfSource

LEMMA IdleIsFit == Fit(Idle) /\ Idle.pc = "idle"
  BY NewIsCovered DEF Idle, Fit, Activity

\* One worker moves on, to something fit.
LEMMA OneMoves ==
  ASSUME SkipInv, Keeps, NEW w \in Workers, NEW a, Fit(a)', Does(w, a)
  PROVE  run' \in [Workers -> Activity] /\ \A v \in Workers : Fit(run[v])'
<1>1. run \in [Workers -> Activity] /\ run' = [run EXCEPT ![w] = a] /\ a \in Activity
  BY DEF SkipInv, TypeOK, Does, Fit
<1>2. ASSUME NEW v \in Workers PROVE Fit(run[v])'
  <2>1. CASE v = w
    BY <1>1, <2>1
  <2>2. CASE v # w
    <3>1. run'[v] = run[v] /\ Fit(run[v])
      BY <1>1, <2>2 DEF SkipInv
    <3> QED
      BY <3>1, StillFit
  <2> QED
    BY <2>1, <2>2
<1> QED
  BY <1>1, <1>2

LEMMA SkipInit == Init => SkipInv
<1> SUFFICES ASSUME Init PROVE SkipInv
  OBVIOUS
<1>1. /\ index = {} /\ stored = {} /\ unseen = {} /\ clock = 0 /\ faults = 0 /\ resets = 0
      /\ unmappable \subseteq Docs /\ refused \subseteq Docs
  BY IngestionAssumption DEF Init
<1>2. /\ src = [s \in Sources |-> NewSource] /\ run = [w \in Workers |-> Idle]
      /\ audited = [s \in Sources |-> 0] /\ lock = [s \in Sources |-> None]
  BY DEF Init
<1>3. src \in [Sources -> Cursor] /\ run \in [Workers -> Activity]
  BY <1>2, NewIsCovered, IdleIsFit DEF Fit
<1>4. audited \in [Sources -> Nat] /\ lock \in [Sources -> Runs \cup {None}]
  BY <1>2
<1>5. TypeOK
  BY <1>1, <1>3, <1>4 DEF TypeOK
<1>6. \A s \in Sources : Covered(s, src[s].pos)
  BY <1>2, NewIsCovered
<1>7. \A w \in Workers : Fit(run[w])
  BY <1>2, IdleIsFit
<1> QED
  BY <1>5, <1>6, <1>7 DEF SkipInv

\* The environment, the tables and the counters are as they were.
Quiet == UNCHANGED <<index, unmappable, refused, tables>>

LEMMA RunMoves ==
  ASSUME SkipInv, Quiet, NEW w \in Workers, NEW a, Fit(a), Does(w, a),
         lock' \in [Sources -> Runs \cup {None}], clock' \in Nat, faults' \in Nat, resets' \in Nat
  PROVE  SkipInv'
<1>1. Keeps
  BY DEF Quiet, Keeps, tables
<1>2. Fit(a)'
  BY <1>1, StillFit
<1>3. run' \in [Workers -> Activity] /\ \A v \in Workers : Fit(run[v])'
  BY <1>1, <1>2, OneMoves
<1>4. TypeOK'
  BY <1>3 DEF Quiet, tables, SkipInv, TypeOK
<1>5. \A s \in Sources : Covered(s, src[s].pos)'
  BY DEF Quiet, tables, SkipInv, Covered
<1> QED
  BY <1>3, <1>4, <1>5 DEF SkipInv

LEMMA Members == ASSUME SkipInv, NEW r \in Runs
  PROVE  /\ r \in Workers /\ run[r] \in Activity /\ Fit(run[r])
         /\ lock \in [Sources -> Runs \cup {None}]
         /\ clock \in Nat /\ faults \in Nat /\ resets \in Nat
  BY DEF SkipInv, TypeOK, Workers

LEMMA LeftIsFit ==
  ASSUME SkipInv, NEW w \in Workers, NEW s \in Sources
  PROVE  Fit(Left(w, s))
<1>1. CASE run[w].todo = {s}
  BY <1>1, IdleIsFit DEF Left
<1>2. CASE run[w].todo # {s}
  <2>1. run[w] \in Activity /\ \A t \in Sources : Covered(t, run[w].row[t].pos)
    BY DEF SkipInv, Fit
  <2>2. Left(w, s) = [pc |-> "listed", at |-> None, todo |-> run[w].todo \ {s},
                      row |-> [run[w].row EXCEPT ![s] = NewSource], batches |-> 0,
                      page |-> None]
    BY <1>2, <2>1 DEF Left, Activity, Idle
  <2>3. [run[w].row EXCEPT ![s] = NewSource] \in [Sources -> Cursor]
    BY <2>1, NewIsCovered DEF Activity
  <2>4. \A t \in Sources : Covered(t, [run[w].row EXCEPT ![s] = NewSource][t].pos)
    BY <2>1, NewIsCovered DEF Activity
  <2>5. Left(w, s) \in Activity /\ Left(w, s).row = [run[w].row EXCEPT ![s] = NewSource]
        /\ Left(w, s).pc = "listed"
    BY <2>1, <2>2, <2>3 DEF Activity
  <2> QED
    BY <2>4, <2>5 DEF Fit
<1> QED
  BY <1>1, <1>2

LEMMA Releases ==
  ASSUME SkipInv, NEW r \in Runs, NEW s \in Sources, Release(r, s)
  PROVE  lock' \in [Sources -> Runs \cup {None}]
  BY DEF Release, SkipInv, TypeOK

LEMMA FaultCounts == ASSUME SkipInv, Fault PROVE faults' \in Nat
  BY DEF Fault, SkipInv, TypeOK

\* What a page of the indexer and the cursor after it are.
LEMMA PageTypes ==
  ASSUME SkipInv, NEW s \in Sources, NEW c \in Cursor
  PROVE  Hits(s, c) \in SUBSET Docs /\ Hits(s, c) \subseteq Matching(s, c)
  BY DEF Hits, Matching, InWindow, OfSource

LEMMA NextPosTypes ==
  ASSUME NEW c \in Cursor, NEW hits \in SUBSET Docs
  PROVE  NextPos(c, hits) \in Docs \cup {0}
  BY LastDoc DEF NextPos, Cursor

\* A page is the first of what matches: what it leaves out is behind it.
LEMMA PagesAreWhole ==
  ASSUME SkipInv, NEW s \in Sources, NEW c \in Cursor, NEW d \in OfSource(s),
         ~(d <= c.pos), d <= NextPos(c, Hits(s, c)),
         d \notin {e \in OfSource(s) : e > c.pos} \ InWindow(s, c)
  PROVE  d \in Hits(s, c)
<1>1. /\ Hits(s, c) \in SUBSET Docs /\ Matching(s, c) \subseteq Docs
      /\ d \in Docs /\ (\A x \in Docs : x \in Nat) /\ c.pos \in Nat
  <2>1. Hits(s, c) \in SUBSET Docs
    BY PageTypes
  <2>2. Matching(s, c) \subseteq Docs /\ d \in Docs
    BY DEF Matching, InWindow, OfSource
  <2>3. (\A x \in Docs : x \in Nat) /\ c.pos \in Docs \cup {0}
    BY IngestionAssumption DEF Cursor
  <2> QED
    BY <2>1, <2>2, <2>3
<1>2. d > c.pos /\ d \in Matching(s, c)
  BY <1>1 DEF Matching
<1>3. Hits(s, c) # {} /\ NextPos(c, Hits(s, c)) = Max(Hits(s, c))
  BY <1>1, <1>2 DEF NextPos
<1> DEFINE m == Max(Hits(s, c))
           Upto(e) == {x \in Matching(s, c) : x <= e}
<1>4. m \in Hits(s, c) /\ m \in Nat /\ d <= m
  BY <1>1, <1>3, LastDoc
<1>5. Cardinality(Upto(m)) <= BatchSize
  BY <1>4 DEF Hits
<1>6. Upto(d) \in SUBSET Upto(m) /\ Upto(m) \in SUBSET Docs
  <2> HIDE DEF m
  <2>1. \A x \in Matching(s, c) : x \in Nat
    BY <1>1
  <2>2. \A x \in Matching(s, c) : x <= d => x <= m
    BY <1>1, <1>4, <2>1
  <2> QED
    BY <1>1, <2>2
<1>7. /\ IsFiniteSet(Upto(m)) /\ Cardinality(Upto(m)) \in Nat
      /\ Upto(d) \in SUBSET Docs /\ Cardinality(Upto(d)) \in Nat
  BY <1>6, DocSets
<1>8. Cardinality(Upto(d)) <= Cardinality(Upto(m))
  <2> HIDE DEF Upto, m
  <2> QED
    BY <1>6, <1>7, FS_Subset
<1>9. Cardinality(Upto(d)) <= BatchSize
  BY <1>5, <1>7, <1>8, IngestionAssumption
<1> QED
  BY <1>2, <1>9 DEF Hits

-----------------------------------------------------------------------------
(* The steps *)

\* Steps that touch no cursor: a worker moves on to something fit.
LEMMA StartKeeps == ASSUME SkipInv, NEW r \in Runs, Start(r) PROVE SkipInv'
<1>1. PICK served \in SUBSET Sources :
        Does(r, [Idle EXCEPT !.pc = "listed", !.todo = served, !.row = src])
  BY DEF Start
<1>2. PICK a : a = [Idle EXCEPT !.pc = "listed", !.todo = served, !.row = src]
  OBVIOUS
<1>3. Does(r, a)
  BY <1>1, <1>2
<1>4. src \in [Sources -> Cursor] /\ \A s \in Sources : Covered(s, src[s].pos)
  BY DEF SkipInv, TypeOK
<1>5. a \in Activity /\ a.row = src /\ a.pc = "listed"
  <2>1. Idle \in Activity
    BY IdleIsFit DEF Fit
  <2> QED
    BY <1>2, <1>4, <2>1 DEF Activity
<1>6. Fit(a)
  BY <1>4, <1>5 DEF Fit
<1>7. /\ Quiet /\ clock' \in Nat /\ faults' \in Nat /\ resets' \in Nat
      /\ lock' \in [Sources -> Runs \cup {None}]
  BY Members DEF Start, Quiet, environment, tables
<1> QED
  BY <1>3, <1>6, <1>7, RunMoves, Members

LEMMA LeaveKeeps ==
  ASSUME SkipInv, Quiet, NEW r \in Runs, NEW s \in Sources, Does(r, Left(r, s)),
         lock' \in [Sources -> Runs \cup {None}], clock' \in Nat, faults' \in Nat, resets' \in Nat
  PROVE  SkipInv'
<1>1. PICK a : a = Left(r, s)
  OBVIOUS
<1>2. Fit(a) /\ Does(r, a)
  BY <1>1, LeftIsFit, Members
<1> QED
  BY <1>2, RunMoves, Members

LEMMA RestKeeps ==
  ASSUME SkipInv, Quiet, NEW r \in Runs, Does(r, Idle),
         lock' \in [Sources -> Runs \cup {None}], clock' \in Nat, faults' \in Nat, resets' \in Nat
  PROVE  SkipInv'
<1>1. PICK a : a = Idle
  OBVIOUS
<1>2. Fit(a) /\ Does(r, a)
  BY <1>1, IdleIsFit
<1> QED
  BY <1>2, RunMoves, Members

LEMMA EnterKeeps == ASSUME SkipInv, NEW r \in Runs, Enter(r) PROVE SkipInv'
<1>1. Quiet /\ clock' \in Nat /\ faults' \in Nat /\ resets' \in Nat
  BY Members DEF Enter, Quiet, environment, tables
<1>2. PICK s \in run[r].todo :
        \/ /\ Does(r, [run[r] EXCEPT !.pc = "pull", !.at = s])
           /\ lock' = IF r \in Unlocked THEN lock ELSE [lock EXCEPT ![s] = r]
        \/ Does(r, Left(r, s)) /\ UNCHANGED lock
  BY DEF Enter
<1>3. s \in Sources
  BY Members DEF Activity
<1>4. lock' \in [Sources -> Runs \cup {None}]
  BY <1>2, <1>3, Members
<1>5. CASE Does(r, Left(r, s))
  BY <1>1, <1>3, <1>4, <1>5, LeaveKeeps
<1>6. CASE Does(r, [run[r] EXCEPT !.pc = "pull", !.at = s])
  <2>1. PICK a : a = [run[r] EXCEPT !.pc = "pull", !.at = s]
    OBVIOUS
  <2>2. a \in Activity /\ a.row = run[r].row /\ a.pc = "pull" /\ a.at = s
    BY <2>1, <1>3, Members DEF Activity
  <2>3. Fit(a)
    BY <2>2, <1>3, Members DEF Fit
  <2> QED
    BY <1>1, <1>4, <1>6, <2>1, <2>3, RunMoves, Members
<1> QED
  BY <1>2, <1>5, <1>6

LEMMA PullKeeps == ASSUME SkipInv, NEW r \in Runs, Pull(r) PROVE SkipInv'
<1>1. /\ Quiet /\ clock' \in Nat /\ faults' \in Nat /\ resets' \in Nat
      /\ lock' \in [Sources -> Runs \cup {None}]
  BY Members DEF Pull, Quiet, environment, tables
<1>2. PICK s : s = run[r].at
  OBVIOUS
<1>3. PICK c : c = run[r].row[s]
  OBVIOUS
<1>4. s \in Sources /\ c \in Cursor
  BY <1>2, <1>3, Members DEF Pull, Fit, Activity
<1>5. PICK page : page = [hits |-> Hits(s, c),
                          gone |-> {d \in OfSource(s) : d > c.pos} \ InWindow(s, c)]
  OBVIOUS
<1>6. page \in Pages
  BY <1>4, <1>5, PageTypes DEF Pages, OfSource
<1>7. PICK a : a = [run[r] EXCEPT !.pc = "store", !.page = page]
  OBVIOUS
<1>8. /\ a \in Activity /\ a.row = run[r].row /\ a.pc = "store" /\ a.at = s /\ a.page = page
      /\ a.row[a.at] = c
  BY <1>2, <1>3, <1>6, <1>7, Members DEF Activity
<1>9. PageWhole(a)
  BY <1>4, <1>5, <1>6, <1>8, PagesAreWhole DEF PageWhole
<1>10. Fit(a)
  BY <1>4, <1>8, <1>9, Members DEF Fit
<1>11. Does(r, a)
  BY <1>2, <1>3, <1>5, <1>7 DEF Pull
<1> QED
  BY <1>1, <1>10, <1>11, RunMoves, Members

LEMMA PullFailsKeeps == ASSUME SkipInv, NEW r \in Runs, PullFails(r) PROVE SkipInv'
<1>1. /\ Quiet /\ clock' \in Nat /\ faults' \in Nat /\ resets' \in Nat
  BY Members, FaultCounts DEF PullFails, Quiet, environment, tables
<1>2. run[r].at \in Sources
  BY Members DEF PullFails, Fit
<1>3. lock' \in [Sources -> Runs \cup {None}]
  BY <1>2, Releases DEF PullFails
<1>4. Does(r, Left(r, run[r].at))
  BY DEF PullFails
<1>5. PICK s \in Sources : s = run[r].at
  BY <1>2
<1> QED
  BY <1>1, <1>3, <1>4, <1>5, LeaveKeeps

LEMMA StoreFailsKeeps == ASSUME SkipInv, NEW r \in Runs, StoreFails(r) PROVE SkipInv'
<1>1. /\ Quiet /\ clock' \in Nat /\ faults' \in Nat /\ resets' \in Nat
  BY Members, FaultCounts DEF StoreFails, Quiet, environment, tables
<1>2. PICK s \in Sources : s = run[r].at
  BY Members DEF StoreFails, Fit
<1>3. lock' \in [Sources -> Runs \cup {None}]
  BY <1>2, Releases DEF StoreFails
<1> QED
  BY <1>1, <1>3, RestKeeps DEF StoreFails

LEMMA DiesKeeps == ASSUME SkipInv, NEW r \in Runs, Dies(r) PROVE SkipInv'
<1>1. /\ Quiet /\ clock' \in Nat /\ faults' \in Nat /\ resets' \in Nat
      /\ lock' \in [Sources -> Runs \cup {None}]
  BY Members, FaultCounts DEF Dies, Quiet, environment, tables
<1> QED
  BY <1>1, RestKeeps DEF Dies

\* The transaction of a page: what it passes it stores, or was out of its reach.
LEMMA StoreKeeps == ASSUME SkipInv, NEW r \in Runs, Store(r) PROVE SkipInv'
<1>1. PICK s \in Sources : s = run[r].at
  BY Members DEF Store, Fit
<1>2. PICK c \in Cursor : c = run[r].row[s]
  BY <1>1, Members DEF Activity
<1>3. PICK page \in Pages : page = run[r].page
  BY Members DEF Store, Fit, PageWhole
<1>4. page.hits \in SUBSET Docs /\ page.gone \in SUBSET Docs
  BY <1>3 DEF Pages
<1>5. PICK next : next = Advanced(r, s)
  OBVIOUS
<1>6. next \in Cursor /\ next.pos = NextPos(c, page.hits)
  <2>1. NextPos(c, page.hits) \in Docs \cup {0}
    BY <1>4, NextPosTypes
  <2>2. Cardinality(Inserted(page.hits)) \in Nat
    BY <1>4, DocSets DEF Inserted, Mapped
  <2>3. c.total + Cardinality(Inserted(page.hits)) \in Nat
    BY <2>2 DEF Cursor
  <2>4. src[s] \in Cursor
    BY DEF SkipInv, TypeOK
  <2>5. next = [src[s] EXCEPT !.pos = NextPos(c, page.hits),
                              !.total = c.total + Cardinality(Inserted(page.hits))]
    BY <1>1, <1>2, <1>3, <1>5 DEF Advanced
  <2> QED
    BY <2>1, <2>3, <2>4, <2>5 DEF Cursor
<1>7. Keeps
  BY DEF Store, Keeps, environment
<1>8. Covered(s, next.pos)'
  <2> SUFFICES ASSUME NEW d \in OfSource(s), d <= next.pos
               PROVE  d \in stored' \cup unmappable' \cup unseen'
    BY DEF Covered, OfSource
  <2>1. CASE d <= c.pos
    <3>1. Covered(s, c.pos)
      BY <1>1, <1>2, Members DEF Fit
    <3> QED
      BY <1>7, <2>1, <3>1 DEF Covered, Keeps
  <2>2. CASE ~(d <= c.pos)
    <3>1. d \in page.hits \cup page.gone
      BY <1>1, <1>2, <1>3, <1>6, <2>2, Members DEF Store, Fit, PageWhole
    <3>2. CASE d \in page.hits
      <4>1. d \in unmappable \/ d \in Mapped(page.hits)
        BY <3>2 DEF Mapped
      <4>2. d \in Mapped(page.hits) => d \in stored'
        BY <1>1, <1>3 DEF Store, Accepted, Inserted
      <4> QED
        BY <1>7, <4>1, <4>2 DEF Keeps
    <3>3. CASE d \in page.gone
      BY <1>1, <1>3, <1>5, <3>3 DEF Store
    <3> QED
      BY <3>1, <3>2, <3>3
  <2> QED
    BY <2>1, <2>2
<1>9. /\ src' \in [Sources -> Cursor]
      /\ \A t \in Sources : Covered(t, src[t].pos)'
  <2>1. src \in [Sources -> Cursor] /\ src' = [src EXCEPT ![s] = next]
    BY <1>1, <1>5 DEF SkipInv, TypeOK, Store
  <2>2. ASSUME NEW t \in Sources PROVE Covered(t, src[t].pos)'
    <3>1. CASE t = s
      BY <1>8, <2>1, <3>1
    <3>2. CASE t # s
      <4>1. PICK pos : pos = src[t].pos
        OBVIOUS
      <4>2. Covered(t, pos)'
        BY <1>7, <4>1, StillCovered DEF SkipInv
      <4>3. src'[t].pos = pos
        BY <2>1, <3>2, <4>1
      <4> QED
        BY <4>2, <4>3
    <3> QED
      BY <3>1, <3>2
  <2> QED
    BY <1>6, <2>1, <2>2
<1>10. PICK a : a = AfterPage(r, s)
  OBVIOUS
<1>11. Fit(a)'
  <2>1. CASE a = Left(r, s)
    <3>1. Fit(a)
      BY <2>1, LeftIsFit, Members
    <3> QED
      BY <1>7, <3>1, StillFit
  <2>2. CASE a # Left(r, s)
    <3>1. a = [run[r] EXCEPT !.pc = "pull", !.batches = @ + 1, !.page = None,
                             !.row[s] = next]
      BY <1>5, <1>10, <2>2 DEF AfterPage
    <3>2. /\ a \in Activity /\ a.pc = "pull" /\ a.at = s
          /\ a.row = [run[r].row EXCEPT ![s] = next]
      <4>1. run[r] \in Activity /\ run[r].batches \in Nat /\ run[r].row \in [Sources -> Cursor]
        BY Members DEF Activity
      <4>2. a = [pc |-> "pull", at |-> s, todo |-> run[r].todo,
                 row |-> [run[r].row EXCEPT ![s] = next], batches |-> run[r].batches + 1,
                 page |-> None]
        BY <1>1, <3>1, <4>1 DEF Activity
      <4>3. [run[r].row EXCEPT ![s] = next] \in [Sources -> Cursor]
        BY <1>6, <4>1
      <4> QED
        BY <4>1, <4>2, <4>3 DEF Activity
    <3>3. ASSUME NEW t \in Sources PROVE Covered(t, a.row[t].pos)'
      <4>1. CASE t = s
        <5>1. a.row[t] = next
          BY <3>2, <4>1, Members DEF Activity
        <5> QED
          BY <1>8, <4>1, <5>1
      <4>2. CASE t # s
        <5>1. a.row[t] = run[r].row[t] /\ Covered(t, a.row[t].pos)
          BY <3>2, <4>2, Members DEF Activity, Fit
        <5> QED
          BY <1>7, <5>1, StillCovered
      <4> QED
        BY <4>1, <4>2
    <3> QED
      BY <3>2, <3>3 DEF Fit
  <2> QED
    BY <2>1, <2>2
<1>12. Does(r, a)
  BY <1>1, <1>10 DEF Store
<1>13. run' \in [Workers -> Activity] /\ \A v \in Workers : Fit(run[v])'
  BY <1>7, <1>11, <1>12, OneMoves, Members
<1>14. TypeOK'
  <2>1. /\ index' \subseteq Docs /\ unmappable' \subseteq Docs /\ refused' \subseteq Docs
        /\ clock' \in Nat /\ faults' \in Nat /\ resets' \in Nat
    BY DEF Store, environment, SkipInv, TypeOK
  <2>2. stored' \subseteq Docs /\ unseen' \subseteq Docs
    BY <1>1, <1>3, <1>4 DEF Store, Inserted, Mapped, SkipInv, TypeOK
  <2>3. audited' \in [Sources -> Nat]
    <3>1. Cardinality(Inserted(page.hits)) \in Nat
      BY <1>4, DocSets DEF Inserted, Mapped
    <3>2. audited' = [audited EXCEPT ![s] = @ + Cardinality(Inserted(page.hits))]
      BY <1>1, <1>3 DEF Store
    <3> QED
      BY <3>1, <3>2 DEF SkipInv, TypeOK
  <2>4. lock' \in [Sources -> Runs \cup {None}]
    <3>1. UNCHANGED lock \/ Release(r, s)
      BY <1>1 DEF Store
    <3> QED
      BY <3>1, Releases, Members
  <2> QED
    BY <1>9, <1>13, <2>1, <2>2, <2>3, <2>4 DEF TypeOK
<1> QED
  BY <1>9, <1>13, <1>14 DEF SkipInv

\* The other steps of runs never touch a table; a reset empties a cursor, or leaves it.
LEMMA ResetReadKeeps == ASSUME SkipInv, NEW u \in Operators, ResetRead(u) PROVE SkipInv'
<1>1. PICK s \in Sources : Does(u, [Idle EXCEPT !.pc = "reset", !.at = s, !.row[s] = src[s]])
  BY DEF ResetRead
<1>2. PICK a : a = [Idle EXCEPT !.pc = "reset", !.at = s, !.row[s] = src[s]]
  OBVIOUS
<1>3. PICK row : row = [Idle.row EXCEPT ![s] = src[s]]
  OBVIOUS
<1>4. src \in [Sources -> Cursor] /\ Idle.row = [t \in Sources |-> NewSource]
  BY DEF SkipInv, TypeOK, Idle
<1>5. row \in [Sources -> Cursor] /\ \A t \in Sources : row[t] \in {src[t], NewSource}
  BY <1>3, <1>4, NewIsCovered
<1>6. a \in Activity /\ a.row = row /\ a.pc = "reset" /\ a.at = s
  <2>1. a = [pc |-> "reset", at |-> s, todo |-> {}, row |-> row, batches |-> 0, page |-> None]
    BY <1>2, <1>3 DEF Idle
  <2> QED
    BY <1>5, <2>1 DEF Activity
<1>7. Fit(a)
  BY <1>5, <1>6, NewIsCovered DEF Fit, SkipInv
<1>8. /\ Quiet /\ clock' \in Nat /\ faults' \in Nat /\ resets' \in Nat /\ u \in Workers
      /\ lock' \in [Sources -> Runs \cup {None}]
  BY DEF ResetRead, Quiet, environment, tables, SkipInv, TypeOK, Workers
<1>9. Does(u, a)
  BY <1>1, <1>2
<1> QED
  BY <1>7, <1>8, <1>9, RunMoves

LEMMA ResetCommitKeeps == ASSUME SkipInv, NEW u \in Operators, ResetCommit(u) PROVE SkipInv'
<1>1. u \in Workers /\ Fit(run[u]) /\ run[u] \in Activity
  BY DEF Workers, SkipInv, Fit
<1>2. PICK s \in Sources : s = run[u].at
  BY <1>1 DEF ResetCommit, Fit
<1>3. src \in [Sources -> Cursor] /\ run[u].row[s].total \in Nat
  BY <1>1 DEF SkipInv, TypeOK, Activity, Cursor
<1>4. PICK next \in Cursor :
        src' = [src EXCEPT ![s] = next] /\ next.pos \in {0, src[s].pos}
  <2>1. CASE src' = [src EXCEPT ![s] = [pos |-> 0, total |-> run[u].row[s].total,
                                        lookback |-> LongLookback]]
    <3>1. [pos |-> 0, total |-> run[u].row[s].total, lookback |-> LongLookback] \in Cursor
      BY <1>3 DEF Cursor
    <3> QED
      BY <2>1, <3>1
  <2>2. CASE src' = [src EXCEPT ![s].lookback = LongLookback]
    <3>1. [src[s] EXCEPT !.lookback = LongLookback] \in Cursor
          /\ [src[s] EXCEPT !.lookback = LongLookback].pos = src[s].pos
      BY <1>3 DEF Cursor
    <3> QED
      BY <2>2, <3>1
  <2> QED
    BY <1>2, <2>1, <2>2 DEF ResetCommit
<1>5. Keeps
  BY DEF ResetCommit, Keeps, environment
<1>6. src' \in [Sources -> Cursor]
  BY <1>3, <1>4
<1>7. ASSUME NEW t \in Sources PROVE Covered(t, src[t].pos)'
  <2>1. PICK pos : pos = src'[t].pos
    OBVIOUS
  <2>2. pos \in {0, src[t].pos}
    BY <1>3, <1>4, <2>1
  <2>3. Covered(t, pos)
    BY <2>2, NewIsCovered DEF SkipInv
  <2>4. Covered(t, pos)'
    BY <1>5, <2>3, StillCovered
  <2> QED
    BY <2>1, <2>4
<1>8. PICK a : a = Idle
  OBVIOUS
<1>9. Fit(a) /\ Does(u, a)
  BY <1>8, IdleIsFit DEF ResetCommit
<1>10. Fit(a)'
  BY <1>5, <1>9, StillFit
<1>11. run' \in [Workers -> Activity] /\ \A v \in Workers : Fit(run[v])'
  BY <1>1, <1>5, <1>9, <1>10, OneMoves
<1>12. TypeOK'
  BY <1>6, <1>11 DEF ResetCommit, environment, SkipInv, TypeOK
<1> QED
  BY <1>7, <1>11, <1>12 DEF SkipInv

\* The rest leaves cursors and runs alone.
LEMMA OthersKeep ==
  ASSUME SkipInv, UNCHANGED <<unmappable, refused, tables, run>>, index' \subseteq Docs,
         lock' \in [Sources -> Runs \cup {None}], clock' \in Nat, faults' \in Nat, resets' \in Nat
  PROVE  SkipInv'
<1>1. Keeps
  BY DEF Keeps, tables
<1>2. \A w \in Workers : Fit(run[w])'
  <2> SUFFICES ASSUME NEW w \in Workers PROVE Fit(run[w])'
    OBVIOUS
  <2>1. PICK a : a = run[w]
    OBVIOUS
  <2>2. Fit(a)'
    BY <1>1, <2>1, StillFit DEF SkipInv
  <2> QED
    BY <2>1, <2>2
<1>3. \A s \in Sources : Covered(s, src[s].pos)'
  BY DEF SkipInv, tables, Covered, OfSource
<1>4. TypeOK'
  BY DEF SkipInv, TypeOK, tables
<1> QED
  BY <1>2, <1>3, <1>4 DEF SkipInv

LEMMA SkipStep == SkipInv /\ [Next]_vars => SkipInv'
<1> SUFFICES ASSUME SkipInv, [Next]_vars PROVE SkipInv'
  OBVIOUS
<1>1. CASE \E r \in Runs : RunStep(r)
  BY <1>1, StartKeeps, EnterKeeps, PullKeeps, PullFailsKeeps, StoreKeeps, StoreFailsKeeps,
     DiesKeeps
  DEF RunStep
<1>2. CASE \E u \in Operators : ResetRead(u) \/ ResetCommit(u)
  BY <1>2, ResetReadKeeps, ResetCommitKeeps
<1>3. CASE \E d \in Docs : Arrive(d)
  BY <1>3, OthersKeep DEF Arrive, SkipInv, TypeOK
<1>4. CASE Tick
  BY <1>4, OthersKeep DEF Tick, SkipInv, TypeOK
<1>5. CASE \E s \in Sources : LockExpires(s)
  BY <1>5, OthersKeep DEF LockExpires, environment, SkipInv, TypeOK
<1>6. CASE UNCHANGED vars
  BY <1>6, OthersKeep DEF vars, tables, SkipInv, TypeOK
<1> QED
  BY <1>1, <1>2, <1>3, <1>4, <1>5, <1>6 DEF Next

\* Every variable of the ingestion keeps its type (ingest_service.py).
THEOREM IngestionTypes == Spec => []TypeOK
<1>1. SkipInv => TypeOK
  BY DEF SkipInv
<1> QED
  BY <1>1, SkipInit, SkipStep, PTL DEF Spec

\* The cursor never passes an alert that could be mapped and that a query could have
\* returned, for any number of sources, runs, resets, page sizes, faults and overlaps,
\* also without the lock (_run_batch, extend_lookback).
THEOREM CursorSkipsNothing == Spec => []NothingSkipped
<1>1. SkipInv => NothingSkipped
  BY IngestionAssumption DEF SkipInv, TypeOK, NothingSkipped, Covered, OfSource
<1> QED
  BY <1>1, SkipInit, SkipStep, PTL DEF Spec

-----------------------------------------------------------------------------
(* The counters *)

\* A worker's copies of the rows count no more than the audit log does, and its page
\* holds alerts of its source only.
Honest(a) ==
  /\ \A s \in Sources : a.row[s].total <= audited[s]
  /\ a.pc = "store" => a.page.hits \subseteq OfSource(a.at)

CountersInv ==
  /\ CountersFit
  /\ \A w \in Workers : Honest(run[w])

LEMMA IdleIsHonest ==
  ASSUME SkipInv
  PROVE  /\ Honest(Idle)
         /\ \A s \in Sources : NewSource.total <= audited[s]
  BY DEF SkipInv, TypeOK, Honest, Idle, NewSource

LEMMA CountersInit == Init => CountersInv
<1> SUFFICES ASSUME Init PROVE CountersInv
  OBVIOUS
<1>1. SkipInv
  BY SkipInit
<1>2. \A s \in Sources : stored \cap OfSource(s) = {} /\ audited[s] = 0 /\ src[s].total = 0
  BY DEF Init, NewSource
<1>3. CountersFit
  BY <1>2, FS_EmptySet DEF CountersFit
<1>4. \A w \in Workers : run[w] = Idle
  BY DEF Init
<1> QED
  BY <1>1, <1>3, <1>4, IdleIsHonest DEF CountersInv

\* Steps that store nothing: what they write to a row is a total the row, or some copy
\* of it, had before.
LEMMA OthersCount ==
  ASSUME SkipInv, CountersInv, UNCHANGED <<stored, audited>>,
         \A s \in Sources : src'[s].total <= audited[s],
         \/ UNCHANGED run
         \/ \E w \in Workers : \E a : Does(w, a) /\ Honest(a)
  PROVE  CountersInv'
<1>1. CountersFit'
  BY DEF CountersInv, CountersFit, OfSource
<1>2. ASSUME NEW v \in Workers PROVE Honest(run[v])'
  <2>1. Honest(run'[v])
    BY DEF CountersInv, Does, SkipInv, TypeOK
  <2> QED
    BY <2>1 DEF Honest, OfSource
<1> QED
  BY <1>1, <1>2 DEF CountersInv

\* A run that leaves a source forgets its copy of the row.
LEMMA LeftIsHonest ==
  ASSUME SkipInv, CountersInv, NEW w \in Workers, NEW s \in Sources
  PROVE  Honest(Left(w, s))
<1>1. CASE run[w].todo = {s}
  BY <1>1, IdleIsHonest DEF Left
<1>2. CASE run[w].todo # {s}
  <2>1. run[w] \in Activity /\ Honest(run[w])
    BY DEF SkipInv, Fit, CountersInv
  <2>2. /\ Left(w, s).row = [run[w].row EXCEPT ![s] = NewSource]
        /\ Left(w, s).pc = "listed"
    BY <1>2, <2>1 DEF Left, Activity, Idle
  <2>3. \A t \in Sources : Left(w, s).row[t] = IF t = s THEN NewSource ELSE run[w].row[t]
    BY <2>1, <2>2 DEF Activity
  <2> QED
    BY <2>1, <2>2, <2>3, IdleIsHonest DEF Honest
<1> QED
  BY <1>1, <1>2

\* What the steps of a run that store nothing make of the run.
LEMMA RunsCount ==
  ASSUME SkipInv, CountersInv, NEW r \in Runs,
         Start(r) \/ Enter(r) \/ Pull(r) \/ PullFails(r) \/ StoreFails(r) \/ Dies(r)
  PROVE  CountersInv'
<1>1. /\ r \in Workers /\ run[r] \in Activity /\ Honest(run[r]) /\ Fit(run[r])
      /\ \A s \in Sources : src[s].total <= audited[s]
  BY Members DEF CountersInv, CountersFit
<1>2. UNCHANGED <<stored, audited, src>>
  BY DEF Start, Enter, Pull, PullFails, StoreFails, Dies, tables
<1>3. \E a : Does(r, a) /\ Honest(a)
  <2>1. CASE Start(r)
    <3>1. PICK served :
            Does(r, [Idle EXCEPT !.pc = "listed", !.todo = served, !.row = src])
      BY <2>1 DEF Start
    <3>2. PICK a : a = [Idle EXCEPT !.pc = "listed", !.todo = served, !.row = src]
      OBVIOUS
    <3>3. a.row = src /\ a.pc = "listed"
      BY <3>2 DEF Idle
    <3> QED
      BY <1>1, <3>1, <3>2, <3>3 DEF Honest
  <2>2. CASE Enter(r)
    <3>1. PICK s \in run[r].todo :
            \/ Does(r, [run[r] EXCEPT !.pc = "pull", !.at = s])
            \/ Does(r, Left(r, s))
      BY <2>2 DEF Enter
    <3>2. s \in Sources
      BY <1>1 DEF Activity
    <3>3. PICK a : a = [run[r] EXCEPT !.pc = "pull", !.at = s]
      OBVIOUS
    <3>4. a.row = run[r].row /\ a.pc = "pull"
      BY <1>1, <3>3 DEF Activity
    <3>5. Honest(a)
      BY <1>1, <3>4 DEF Honest
    <3> QED
      BY <1>1, <3>1, <3>2, <3>3, <3>5, LeftIsHonest
  <2>3. CASE Pull(r)
    <3>1. PICK s \in Sources : s = run[r].at
      BY <1>1, <2>3 DEF Pull, Fit
    <3>2. PICK c \in Cursor : c = run[r].row[s]
      BY <1>1 DEF Activity
    <3>3. PICK page : page = [hits |-> Hits(s, c),
                              gone |-> {d \in OfSource(s) : d > c.pos} \ InWindow(s, c)]
      OBVIOUS
    <3>4. PICK a : a = [run[r] EXCEPT !.pc = "store", !.page = page]
      OBVIOUS
    <3>5. a.row = run[r].row /\ a.pc = "store" /\ a.at = s /\ a.page.hits = Hits(s, c)
      BY <1>1, <3>1, <3>3, <3>4 DEF Activity
    <3>6. Hits(s, c) \subseteq OfSource(s)
      BY DEF Hits, Matching, InWindow
    <3>7. Does(r, a)
      BY <2>3, <3>1, <3>2, <3>3, <3>4 DEF Pull
    <3> QED
      BY <1>1, <3>5, <3>6, <3>7 DEF Honest
  <2>4. CASE PullFails(r)
    <3>1. PICK s \in Sources : s = run[r].at
      BY <1>1, <2>4 DEF PullFails, Fit
    <3> QED
      BY <1>1, <2>4, <3>1, LeftIsHonest DEF PullFails
  <2>5. CASE StoreFails(r) \/ Dies(r)
    BY <2>5, IdleIsHonest DEF StoreFails, Dies
  <2> QED
    BY <2>1, <2>2, <2>3, <2>4, <2>5
<1>4. \A s \in Sources : src'[s].total <= audited[s]
  BY <1>1, <1>2
<1> QED
  BY <1>1, <1>2, <1>3, <1>4, OthersCount

\* The transaction of a page adds to the audit log what it inserts, and to its copy of
\* the row no more than that.
LEMMA StoreCounts == ASSUME SkipInv, CountersInv, NEW r \in Runs, Store(r) PROVE CountersInv'
<1>1. PICK s \in Sources : s = run[r].at
  BY Members DEF Store, Fit
<1>2. PICK hits \in SUBSET Docs : hits = run[r].page.hits
  BY Members DEF Store, Fit, PageWhole, Pages
<1>3. PICK new : new = Inserted(hits)
  OBVIOUS
<1>4. /\ new \subseteq OfSource(s) /\ new \in SUBSET Docs
      /\ new \cap stored = {} /\ stored' = stored \cup new
  BY <1>1, <1>2, <1>3 DEF Store, Accepted, Inserted, Mapped, CountersInv, Honest, Workers
<1>5. PICK n \in Nat : n = Cardinality(new)
  BY <1>4, DocSets
<1>6. /\ audited \in [Sources -> Nat]
      /\ audited' = [audited EXCEPT ![s] = @ + n]
  BY <1>1, <1>2, <1>3, <1>5 DEF Store, SkipInv, TypeOK
<1>7. PICK next : next = Advanced(r, s)
  OBVIOUS
<1>8. /\ src' = [src EXCEPT ![s] = next] /\ src \in [Sources -> Cursor]
      /\ next.total = run[r].row[s].total + n
  <2>1. src' = [src EXCEPT ![s] = next] /\ src \in [Sources -> Cursor]
    BY <1>1, <1>7 DEF Store, SkipInv, TypeOK
  <2>2. src[s] \in Cursor
    BY <2>1
  <2>3. next = [src[s] EXCEPT !.pos = NextPos(run[r].row[s], hits),
                              !.total = run[r].row[s].total + n]
    BY <1>1, <1>2, <1>3, <1>5, <1>7 DEF Advanced
  <2> QED
    BY <2>1, <2>2, <2>3 DEF Cursor
<1>9. run[r].row[s].total <= audited[s] /\ run[r].row[s].total \in Nat
  BY Members DEF CountersInv, Honest, Activity, Cursor
<1>10. next.total <= audited'[s]
  BY <1>6, <1>8, <1>9
<1>11. \A t \in Sources : audited'[t] \in Nat /\ audited[t] \in Nat /\ audited[t] <= audited'[t]
  BY <1>6
<1>12. CountersFit'
  <2> SUFFICES ASSUME NEW t \in Sources
               PROVE  /\ audited'[t] = Cardinality(stored' \cap OfSource(t))
                      /\ src'[t].total <= audited'[t]
    BY DEF CountersFit, OfSource
  <2>1. audited[t] = Cardinality(stored \cap OfSource(t)) /\ src[t].total <= audited[t]
    BY DEF CountersInv, CountersFit
  <2>2. CASE t = s
    <3> DEFINE old == stored \cap OfSource(s)
    <3>1. stored' \cap OfSource(s) = old \cup new /\ old \cap new = {}
      BY <1>4
    <3>2. old \in SUBSET Docs
      BY DEF OfSource
    <3>3. IsFiniteSet(old) /\ IsFiniteSet(new) /\ Cardinality(old) \in Nat
      BY <1>4, <3>2, DocSets
    <3> HIDE DEF old
    <3>4. Cardinality(old \cup new) = Cardinality(old) + Cardinality(new) - Cardinality({})
      BY <3>1, <3>3, FS_Union
    <3>5. Cardinality(old \cup new) = Cardinality(old) + n
      BY <1>5, <3>3, <3>4, FS_EmptySet
    <3>6. audited'[s] = Cardinality(stored' \cap OfSource(s))
      BY <1>6, <2>1, <2>2, <3>1, <3>5 DEF old
    <3> QED
      BY <1>8, <1>10, <2>2, <3>6
  <2>3. CASE t # s
    <3>1. new \cap OfSource(t) = {}
      BY <1>4, <2>3 DEF OfSource
    <3>2. stored' \cap OfSource(t) = stored \cap OfSource(t)
      BY <1>4, <3>1
    <3> QED
      BY <1>6, <1>8, <2>1, <2>3, <3>2
  <2> QED
    BY <2>2, <2>3
<1>13. \A v \in Workers : \A t \in Sources : run[v].row[t].total \in Nat
  BY DEF SkipInv, Fit, Activity, Cursor
<1>14. PICK a : a = AfterPage(r, s)
  OBVIOUS
<1>15. /\ \A t \in Sources : a.row[t].total <= audited'[t]
       /\ a.pc # "store"
  <2>1. CASE a = Left(r, s)
    <3>1. Left(r, s) = Idle \/ Left(r, s).pc = "listed"
      BY Members DEF Left, Activity, Idle
    <3>2. a.pc # "store"
      BY <2>1, <3>1 DEF Idle
    <3>3. Fit(a) /\ Honest(a)
      BY <2>1, LeftIsFit, LeftIsHonest, Members
    <3>4. \A t \in Sources : a.row[t].total \in Nat /\ a.row[t].total <= audited[t]
      BY <3>3 DEF Fit, Activity, Cursor, Honest
    <3> QED
      BY <1>11, <3>2, <3>4
  <2>2. CASE a # Left(r, s)
    <3>1. a = [run[r] EXCEPT !.pc = "pull", !.batches = @ + 1, !.page = None,
                             !.row[s] = next]
      BY <1>7, <1>14, <2>2 DEF AfterPage
    <3>2. a.pc = "pull" /\ a.row = [run[r].row EXCEPT ![s] = next]
      BY <3>1, Members DEF Activity
    <3>3. \A t \in Sources : a.row[t] = IF t = s THEN next ELSE run[r].row[t]
      BY <3>2, Members DEF Activity
    <3>4. \A t \in Sources : run[r].row[t].total <= audited[t]
      BY Members DEF CountersInv, Honest
    <3> QED
      BY <1>10, <1>11, <1>13, <3>2, <3>3, <3>4, Members
  <2> QED
    BY <2>1, <2>2
<1>16. run' = [run EXCEPT ![r] = a] /\ run \in [Workers -> Activity]
  BY <1>1, <1>14 DEF Store, Does, SkipInv, TypeOK
<1>17. ASSUME NEW v \in Workers PROVE Honest(run[v])'
  <2>1. CASE v = r
    <3>1. run'[v] = a
      BY <1>16, <2>1
    <3> QED
      BY <1>15, <3>1 DEF Honest
  <2>2. CASE v # r
    <3>1. run'[v] = run[v] /\ Honest(run[v])
      BY <1>16, <2>2 DEF CountersInv
    <3> QED
      BY <1>11, <1>13, <3>1 DEF Honest, OfSource
  <2> QED
    BY <2>1, <2>2
<1> QED
  BY <1>12, <1>17 DEF CountersInv

\* A reset writes the total its copy of the row had.
LEMMA ResetsCount ==
  ASSUME SkipInv, CountersInv, NEW u \in Operators, ResetRead(u) \/ ResetCommit(u)
  PROVE  CountersInv'
<1>1. /\ u \in Workers /\ Honest(run[u]) /\ Fit(run[u]) /\ src \in [Sources -> Cursor]
      /\ \A s \in Sources : src[s].total <= audited[s]
  BY DEF Workers, CountersInv, CountersFit, SkipInv, TypeOK
<1>2. CASE ResetRead(u)
  <2>1. PICK s \in Sources : Does(u, [Idle EXCEPT !.pc = "reset", !.at = s, !.row[s] = src[s]])
    BY <1>2 DEF ResetRead
  <2>2. PICK a : a = [Idle EXCEPT !.pc = "reset", !.at = s, !.row[s] = src[s]]
    OBVIOUS
  <2>3. a.pc = "reset" /\ a.row = [Idle.row EXCEPT ![s] = src[s]]
        /\ Idle.row = [t \in Sources |-> NewSource]
    BY <2>2 DEF Idle
  <2>4. \A t \in Sources : a.row[t] \in {src[t], NewSource}
    BY <2>3
  <2>5. Honest(a) /\ UNCHANGED <<stored, audited, src>>
    BY <1>1, <1>2, <2>3, <2>4, IdleIsHonest DEF Honest, ResetRead, tables
  <2> QED
    BY <1>1, <2>1, <2>2, <2>5, OthersCount
<1>3. CASE ResetCommit(u)
  <2>1. PICK s \in Sources : s = run[u].at
    BY <1>1, <1>3 DEF ResetCommit, Fit
  <2>2. \/ src' = [src EXCEPT ![s] = [pos |-> 0, total |-> run[u].row[s].total,
                                      lookback |-> LongLookback]]
        \/ src' = [src EXCEPT ![s].lookback = LongLookback]
    BY <1>3, <2>1 DEF ResetCommit
  <2>3. \A t \in Sources : src'[t].total \in {src[t].total, run[u].row[t].total}
    BY <1>1, <2>2 DEF Cursor
  <2>4. \A t \in Sources : src'[t].total <= audited[t]
    BY <1>1, <2>3 DEF Honest
  <2>5. UNCHANGED <<stored, audited>> /\ Does(u, Idle)
    BY <1>3 DEF ResetCommit
  <2> QED
    BY <1>1, <2>4, <2>5, IdleIsHonest, OthersCount
<1> QED
  BY <1>2, <1>3

LEMMA CountersStep == SkipInv /\ CountersInv /\ [Next]_vars => CountersInv'
<1> SUFFICES ASSUME SkipInv, CountersInv, [Next]_vars PROVE CountersInv'
  OBVIOUS
<1>1. CASE \E r \in Runs : RunStep(r)
  BY <1>1, RunsCount, StoreCounts DEF RunStep
<1>2. CASE \E u \in Operators : ResetRead(u) \/ ResetCommit(u)
  BY <1>2, ResetsCount
<1>3. CASE UNCHANGED <<stored, audited, src, run>>
  BY <1>3, OthersCount DEF CountersInv, CountersFit
<1> QED
  BY <1>1, <1>2, <1>3 DEF Next, Arrive, Tick, LockExpires, vars, tables

\* The audit log adds up to the stored alerts of each source and total_ingested never
\* counts more, for any runs, resets, refusals and stale copies of a row, with or without
\* the lock (_run_batch, extend_lookback).
THEOREM CountersAreRight == Spec => []CountersFit
<1>1. CountersInv => CountersFit
  BY DEF CountersInv
<1> QED
  BY <1>1, SkipInit, SkipStep, CountersInit, CountersStep, PTL DEF Spec

-----------------------------------------------------------------------------
(* The diagnosis *)

\* What is left to pull is in the window, and in an empty cursor's window everything is.
LEMMA WindowHolds ==
  ASSUME TypeOK, NEW s \in Sources
  PROVE  /\ Matching(s, src[s]) \subseteq InWindow(s, src[s])
         /\ InWindow(s, src[s]) \subseteq index \cap OfSource(s)
         /\ src[s].pos = 0 => Matching(s, src[s]) = InWindow(s, src[s])
         /\ InWindow(s, src[s]) # {} => WindowCount(s) > 0
         /\ InWindow(s, src[s]) = {} => WindowCount(s) = 0
<1>1. InWindow(s, src[s]) \in SUBSET Docs
  BY DEF InWindow, OfSource
<1>2. IsFiniteSet(InWindow(s, src[s])) /\ WindowCount(s) \in Nat
  BY <1>1, DocSets DEF WindowCount
<1>3. WindowCount(s) = 0 <=> InWindow(s, src[s]) = {}
  BY <1>2, FS_EmptySet DEF WindowCount
<1>4. src[s].pos = 0 => Matching(s, src[s]) = InWindow(s, src[s])
  <2>1. \A d \in Docs : d > 0
    BY IngestionAssumption
  <2>2. PICK window \in SUBSET Docs : window = InWindow(s, src[s])
    BY <1>1
  <2>3. src[s].pos = 0 => Matching(s, src[s]) = {d \in window : d > 0}
    BY <2>2 DEF Matching
  <2> QED
    BY <2>1, <2>2, <2>3
<1> QED
  BY <1>2, <1>3, <1>4 DEF Matching, InWindow

\* The operator is told to pull while there is something to pull, and offered the reset
\* when the window of an empty cursor is too short, for any documents, cursors and
\* lookbacks (_diagnose_wazuh).
THEOREM AdviceIsRight == Spec => []AdviceFits
<1>1. ASSUME TypeOK PROVE AdviceFits
  <2> SUFFICES ASSUME NEW s \in Sources
               PROVE  /\ Matching(s, src[s]) # {} => Advice(s) = "pending_pull" /\ ~OffersReset(s)
                      /\ HasAlerts(s) /\ src[s].pos = 0 /\ Matching(s, src[s]) = {}
                           => OffersReset(s) /\ Overall(s) = "warn"
    BY DEF AdviceFits
  <2>1. ASSUME Matching(s, src[s]) # {} PROVE Advice(s) = "pending_pull" /\ ~OffersReset(s)
    <3>1. HasAlerts(s) /\ WindowCount(s) > 0
      BY <1>1, <2>1, WindowHolds DEF HasAlerts
    <3>2. Advice(s) = "pending_pull"
      BY <3>1 DEF Advice
    <3> QED
      BY <3>2 DEF OffersReset
  <2>2. ASSUME HasAlerts(s), src[s].pos = 0, Matching(s, src[s]) = {}
        PROVE  OffersReset(s) /\ Overall(s) = "warn"
    <3>1. WindowCount(s) = 0
      BY <1>1, <2>2, WindowHolds
    <3>2. Advice(s) \in {"lookback_gap", "empty_window"}
      BY <2>2, <3>1 DEF Advice
    <3> QED
      BY <3>2 DEF OffersReset, Overall
  <2> QED
    BY <2>1, <2>2
<1> QED
  BY <1>1, IngestionTypes, PTL
=============================================================================
