----------------------------- MODULE EntityGraph ------------------------------
(***************************************************************************)
(* The entity relations: files of them are imported, or seeded, by command *)
(* line runs (entity_seed), each in one transaction, while investigations  *)
(* walk the graph (entity/graph.py) with one SELECT per entity.  Nothing   *)
(* in the table keeps an edge from being stored twice.                     *)
(***************************************************************************)
EXTENDS Integers, SequencesExt

CONSTANTS
  Entities, Seed,    \* the seed of the questions is one of the entities
  Edges, From, To,   \* what upsert_entity_relation compares, and its two ends
  Data, Current,     \* the validity a row may have, its other columns left out; valid now
  Files, Lines,      \* Lines[f]: the lines of file f
  BadLine,           \* a line parse_relation_record refuses
  SeedFiles,         \* runs of seed_entity_assets
  Importers,
  MaxHops, MaxNodes,
  Nothing

ASSUME EntityGraphAssumption ==
  /\ Seed \in Entities
  /\ From \in [Edges -> Entities] /\ To \in [Edges -> Entities]
  /\ Current \subseteq Data /\ SeedFiles \subseteq Files
  /\ Lines \in [Files -> Seq([edge : Edges, data : Data] \cup {BadLine})]
  /\ IsFiniteSet(Importers) /\ IsFiniteSet(Edges)
  /\ MaxHops \in Nat /\ MaxNodes \in Nat \ {0}
  /\ Nothing \notin Data \cup Files \cup [by : Importers, data : Data]

VARIABLES
  rows,        \* rows[e][p]: the row of edge e that p inserted, or Nothing
  file,        \* the file a run imports, or Nothing
  line,        \* its next line
  written,     \* written[p][e]: the row p's transaction has written for e
  overlapped,  \* history: whether another run committed meanwhile
  asking,      \* a walk: "idle", "walking" or "answered"
  frontier,    \* entities to look at, with their distance
  nodes,       \* entities looked at
  short,       \* history: whether the limit kept an entity out
  dirty        \* history: whether relations changed during the walk

importVarsOf == <<file, line, written, overlapped>>
walkVars == <<asking, frontier, nodes, short, dirty>>
graphVars == <<rows, importVarsOf, walkVars>>

Unwritten == [e \in Edges |-> Nothing]

GraphInit ==
  /\ rows = [e \in Edges |-> [p \in Importers |-> Nothing]]
  /\ file = [p \in Importers |-> Nothing]
  /\ line = [p \in Importers |-> 1]
  /\ written = [p \in Importers |-> Unwritten]
  /\ overlapped = [p \in Importers |-> FALSE]
  /\ asking = "idle" /\ frontier = <<>> /\ nodes = {}
  /\ short = FALSE /\ dirty = FALSE

-----------------------------------------------------------------------------
(* import_relations_jsonl and seed_entity_assets *)

LoadBegins(p, f) ==
  /\ file[p] = Nothing
  /\ file' = [file EXCEPT ![p] = f]
  /\ UNCHANGED <<rows, line, written, overlapped, walkVars>>

\* The transaction of p is over.
LoadEnds(p) ==
  /\ file' = [file EXCEPT ![p] = Nothing]
  /\ line' = [line EXCEPT ![p] = 1]
  /\ written' = [written EXCEPT ![p] = Unwritten]

\* The rows the SELECT of run p finds for e: the committed ones, and its own.
Matches(p, e) ==
  {q \in Importers : rows[e][q] # Nothing \/ (q = p /\ written[p][e] # Nothing
                                                    /\ written[p][e].by = p)}

\* Mutant: every line is inserted.
RowFor_Inserts(p, e) == p

\* The row a line goes to: the only match, or a new one.
RowFor(p, e) == IF Matches(p, e) = {} THEN p ELSE CHOOSE q \in Matches(p, e) : TRUE

\* What the row says in the transaction of p.
Says(p, e, q) ==
  IF written[p][e] # Nothing /\ written[p][e].by = q THEN written[p][e].data ELSE rows[e][q]

\* The seed leaves the validity of a row it finds.
LineData(p, l) ==
  IF file[p] \in SeedFiles /\ Matches(p, l.edge) # {}
    THEN Says(p, l.edge, RowFor(p, l.edge)) ELSE l.data

\* upsert_entity_relation, _upsert_relation: two matches raise.
LoadLine(p) ==
  /\ file[p] # Nothing /\ line[p] <= Len(Lines[file[p]])
  /\ LET l == Lines[file[p]][line[p]] IN
       /\ l # BadLine
       /\ Cardinality(Matches(p, l.edge)) < 2
       /\ written' = [written EXCEPT ![p][l.edge] =
                        [by |-> RowFor(p, l.edge), data |-> LineData(p, l)]]
  /\ line' = [line EXCEPT ![p] = @ + 1]
  /\ UNCHANGED <<rows, file, overlapped, walkVars>>

\* The commit after the last line.  A column whose value the run did not change keeps
\* what another run has written since: kept are the rows that end up as the other's.
LoadCommits(p) ==
  /\ file[p] # Nothing /\ line[p] > Len(Lines[file[p]])
  /\ \E kept \in SUBSET {e \in Edges : overlapped[p] /\ written[p][e] # Nothing
                                       /\ rows[e][written[p][e].by] # Nothing} :
       rows' = [e \in Edges |->
         IF written[p][e] = Nothing \/ e \in kept THEN rows[e]
         ELSE [rows[e] EXCEPT ![written[p][e].by] = written[p][e].data]]
  /\ LoadEnds(p)
  /\ overlapped' = [q \in Importers |-> q # p /\ file[q] # Nothing]
  /\ dirty' = (dirty \/ (asking # "idle" /\ rows' # rows))
  /\ UNCHANGED <<asking, frontier, nodes, short>>

\* A refused line, a second match, a database error or the end of the process: the
\* lines after it change nothing that stays, and the run is rolled back.
LoadFails(p) ==
  /\ file[p] # Nothing
  /\ LoadEnds(p)
  /\ overlapped' = [overlapped EXCEPT ![p] = FALSE]
  /\ UNCHANGED <<rows, walkVars>>

-----------------------------------------------------------------------------
(* traverse_entity_graph *)

\* The valid rows at either end of n, one for each time an edge is stored.
Relations(n) ==
  {r \in Edges \X Importers : rows[r[1]][r[2]] \in Current /\ n \in {From[r[1]], To[r[1]]}}

Neighbour(n, r) == IF From[r[1]] = n THEN To[r[1]] ELSE From[r[1]]

Walking == asking = "walking" /\ frontier # <<>> /\ Cardinality(nodes) < MaxNodes

\* Mutant: pop() for pop(0).
Popped_Last == Len(frontier)

Popped == 1

At == frontier[Popped]
Rest == RemoveAt(frontier, Popped)

\* One question at a time: walks share nothing.
AskGraph ==
  /\ asking # "walking"
  /\ asking' = "walking"
  /\ frontier' = <<[entity |-> Seed, depth |-> 0]>>
  /\ nodes' = {} /\ short' = FALSE /\ dirty' = FALSE
  /\ UNCHANGED <<rows, importVarsOf>>

SkipVisited ==
  /\ Walking /\ At.entity \in nodes
  /\ frontier' = Rest
  /\ UNCHANGED <<rows, importVarsOf, asking, nodes, short, dirty>>

AddLeaf ==
  /\ Walking /\ At.entity \notin nodes /\ At.depth >= MaxHops
  /\ frontier' = Rest
  /\ nodes' = nodes \cup {At.entity}
  /\ UNCHANGED <<rows, importVarsOf, asking, short, dirty>>

\* The rows come in any order; a neighbour not yet visited is queued, again if it is
\* queued already, while nodes and queue together are below the limit.
Expand ==
  /\ Walking /\ At.entity \notin nodes /\ At.depth < MaxHops
  /\ nodes' = nodes \cup {At.entity}
  /\ \E order \in SetToSeqs({r \in Relations(At.entity) :
                               Neighbour(At.entity, r) \notin nodes'}) :
       LET new == [i \in DOMAIN order |->
                     [entity |-> Neighbour(At.entity, order[i]), depth |-> At.depth + 1]]
           room == MaxNodes - Cardinality(nodes') - Len(Rest)
           fit == IF room < Len(new) THEN (IF room < 0 THEN 0 ELSE room) ELSE Len(new)
       IN /\ frontier' = Rest \o SubSeq(new, 1, fit)
          /\ short' = (short \/ fit < Len(new))
  /\ UNCHANGED <<rows, importVarsOf, asking, dirty>>

AnswerGraph ==
  /\ asking = "walking" /\ ~Walking
  /\ asking' = "answered"
  /\ short' = (short \/ \E i \in DOMAIN frontier : frontier[i].entity \notin nodes)
  /\ UNCHANGED <<rows, importVarsOf, frontier, nodes, dirty>>

GraphNext ==
  \/ \E p \in Importers : \E f \in Files : LoadBegins(p, f)
  \/ \E p \in Importers : LoadLine(p) \/ LoadCommits(p) \/ LoadFails(p)
  \/ AskGraph \/ SkipVisited \/ AddLeaf \/ Expand \/ AnswerGraph

GraphSpec == GraphInit /\ [][GraphNext]_graphVars

-----------------------------------------------------------------------------
(* Properties *)

\* What a line of f says last of e.
LastLine(f, e) ==
  LET at == {i \in DOMAIN Lines[f] : Lines[f][i] # BadLine /\ Lines[f][i].edge = e}
  IN Lines[f][CHOOSE i \in at : \A j \in at : j <= i]

\* The relations change by whole files only: when a run that no other commit overlapped
\* changes them, none of its lines was refused, every edge of the file is stored once,
\* as its last line says (the seed: as it was, if it was), and no other edge has changed
\* (import_relations_jsonl, seed_entity_assets).
ImportsAreWhole ==
  [][\A p \in Importers :
       rows' # rows /\ file[p] # Nothing /\ file'[p] = Nothing /\ ~overlapped[p] =>
         \A e \in Edges :
           LET f == file[p]
               ls == {i \in DOMAIN Lines[f] : Lines[f][i] = BadLine \/ Lines[f][i].edge = e}
               stored == {q \in Importers : rows'[e][q] # Nothing}
           IN IF ls = {} THEN rows'[e] = rows[e]
              ELSE /\ \A i \in ls : Lines[f][i] # BadLine
                   /\ Cardinality(stored) = 1
                   /\ f \notin SeedFiles => \A q \in stored : rows'[e][q] = LastLine(f, e).data
                   /\ f \in SeedFiles => \A q \in Importers : rows[e][q] # Nothing => rows'[e] = rows[e]
    ]_graphVars

\* The entities at most k relations away from the seed.
Ball[k \in Nat] ==
  IF k = 0 THEN {Seed}
  ELSE Ball[k - 1] \cup UNION {{Neighbour(n, r) : r \in Relations(n)} : n \in Ball[k - 1]}

\* An answer never holds more entities than asked for, and, when no relation changed
\* meanwhile, none farther than max_hops; it holds all of those unless the limit kept
\* one out, whatever the order of the rows and however many paths lead to an entity
\* (traverse_entity_graph).
GraphIsNeighbourhood ==
  asking = "answered" =>
    /\ Cardinality(nodes) <= MaxNodes
    /\ ~dirty => nodes \subseteq Ball[MaxHops]
    /\ ~dirty /\ ~short => nodes = Ball[MaxHops]
=============================================================================
