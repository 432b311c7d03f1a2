------------------------------- MODULE Solver -------------------------------
(***************************************************************************)
(* How a proof of work is made and checked (raddi::proof, cuckoo::solver,    *)
(* threadpool, threadpool2).                                               *)
(*                                                                         *)
(* A hash gives a bipartite graph, and a proof is a cycle in it. The solver    *)
(* generates the edges, drops those that end in a node of their own, phase   *)
(* after phase, renames the nodes that are left, and joins the edges to a   *)
(* forest until one closes a cycle. The edges are in a table by the rows of   *)
(* their ends; each phase is split among fibers, which have rows of their   *)
(* own and run on a pool of threads, and the next phase begins when all have  *)
(* ended. The user may cancel at any moment.                               *)
(***************************************************************************)
EXTENDS Integers, SequencesExt

CONSTANTS
  Threads,        \* threads that the system gives at most
  Processors,     \* GetRankedLogicalProcessorList
  Fibers,         \* parameters::parallelism
  Rows, RowSize,  \* NX and NY, and NYZ: nodes of a row
  Complexity,
  Rounds, Compress,      \* of trimming, and the one that renames nodes
  MaxPath,        \* MAXPATHLEN
  Shortest, Longest,     \* parameters: what is looked for
  MinLength, MaxLength,  \* proof: what its header can tell
  Rooms,          \* lengths that the target has room for
  Levels,         \* complexities that are tried one after the other
  Graphs,         \* what hashes give: the ends of every edge
  Garbage,        \* in memory that has not been written
  MaxFailures     \* bound

Nodes == 0 .. Rows * RowSize - 1
Edges == Nodes
Sides == {"u", "v"}

ASSUME SolverAssumption ==
  /\ {Threads, Fibers, Rows, RowSize, Rounds, MaxPath, Levels} \subseteq Nat \ {0}
  /\ {Processors, Complexity, Compress, Shortest, Longest, MinLength, MaxLength,
      Garbage, MaxFailures} \subseteq Nat
  /\ Processors <= Threads /\ Compress < Rounds /\ Rows * RowSize = 2^Complexity
  /\ 4 <= Shortest /\ Longest <= MaxPath /\ MinLength % 2 = 0
  /\ Rooms \subseteq Nat
  /\ Graphs \subseteq [Edges -> [u : Nodes, v : Nodes]]

VARIABLES
  pc, phase, level,
  graph,          \* what the generator gives
  alive, names,   \* edges in the buckets, and their ends as these are called now
  renamed,        \* renameu, renamev and renameu1, renamev1
  pool, threads,  \* which of the two pools, and threads that it has created
  queue, consumed, sent, deferred, remains, permits, done, quit,
  busy,           \* what a thread runs, and the row it has got to
  left, link,     \* slots not read, and `results`
  cycle,          \* cycleus, cyclevs and length
  solution,
  room, answer,   \* the target, and what has been written to it
  cancel, failures

control  == <<pc, phase, level>>
buckets  == <<alive, names, renamed>>
counters == <<queue, consumed, sent, deferred, remains, permits, done, quit>>
recovery == <<left, link, cycle>>
fixed    == <<pool, room>>
vars == <<control, graph, buckets, fixed, threads, counters, busy, recovery,
          solution, answer, cancel, failures>>

Last1 == 2 * Rounds + 4         \* trimRename1 of U
Match == Last1 + 1
Phases == 1 .. Match
Workers == 1 .. Threads
RowIds == 0 .. Rows - 1
Row(n) == n \div RowSize
Place(n) == (n % RowSize) + 1   \* of a node in its row, from 1
Idle == [fiber |-> 0, phase |-> 0, row |-> 0]
Item == [fiber : 0 .. Fibers - 1, phase : Phases]
Keys == Sides \X Nodes          \* u0 and v0
Nil  == <<"none", 0>>
None == [length |-> 0, solution |-> <<>>]
Ends == [u : Nodes, v : Nodes]

TypeOK ==
  /\ pc \in {"idle", "init", "begin", "dispatch", "wait", "recover", "report",
             "abort", "aborting", "close", "closing", "closed", "done"}
  /\ phase \in Phases /\ level \in 1 .. Levels /\ graph \in Graphs
  /\ alive \subseteq Edges /\ names \in [Edges -> Ends]
  /\ renamed \in [Sides -> [1 .. 2 -> [RowIds -> Seq(Nodes)]]]
  /\ pool \in {"system", "custom"} /\ threads \in SUBSET Workers
  /\ queue \in Seq(Item) /\ {consumed, sent, deferred, remains, permits} \subseteq Nat
  /\ done \in BOOLEAN /\ quit \in BOOLEAN
  /\ busy \in [Workers -> {Idle} \cup [fiber : 0 .. Fibers - 1, phase : Phases, row : 0 .. Rows]]
  /\ left \subseteq Edges /\ link \in [Keys \cup {Nil} -> Keys \cup {Nil}]
  /\ cycle \in Seq(Ends) /\ solution \in [1 .. MaxPath -> Nat]
  /\ room \in Rooms /\ answer \in [length : Int, solution : Seq(Int)]
  /\ cancel \in BOOLEAN /\ failures \in 0 .. MaxFailures

-----------------------------------------------------------------------------
(* Verification *)

XorIsZero(S, f(_)) ==
  \A b \in 0 .. Complexity - 1 : Cardinality({x \in S : (f(x) \div 2^b) % 2 = 1}) % 2 = 0

ComesBack(at, n) == \E s \in 1 .. n : at[s] = 0  \* mutant: the length is not compared
OneRound(at, n) == \A s \in 1 .. n : at[s] = 0 <=> s = n

\* Whether the edges c of g are one cycle: from an end go to the other edge that
\* ends there, of which there must be exactly one, and on from its other end.
Verify(g, c) ==
  LET n == Len(c)
      End(i) == IF i % 2 = 0 THEN g[c[i \div 2 + 1]].u ELSE g[c[i \div 2 + 1]].v
      Same(i) == {k \in 0 .. 2 * n - 1 : k # i /\ k % 2 = i % 2 /\ End(k) = End(i)}
      Across(j) == IF j % 2 = 0 THEN j + 1 ELSE j - 1
      at[s \in 0 .. n] ==
        IF s = 0 THEN 0
        ELSE LET S == Same(at[s - 1]) IN IF S = {} THEN -1 ELSE Across(CHOOSE j \in S : TRUE)
  IN /\ \A i \in 1 .. n : c[i] \in Edges /\ (i > 1 => c[i - 1] < c[i])
     /\ XorIsZero(1 .. n, LAMBDA i : g[c[i]].u) /\ XorIsZero(1 .. n, LAMBDA i : g[c[i]].v)
     /\ \A s \in 1 .. n : Cardinality(Same(at[s - 1])) = 1
     /\ OneRound(at, n)

\* The differences that a proof holds, and the edges again.
Deltas(c) == [i \in 1 .. Len(c) |-> IF i = 1 THEN c[1] ELSE c[i] - c[i - 1]]
Sums(d) == LET s[i \in 1 .. Len(d)] == IF i = 1 THEN d[1] ELSE s[i - 1] + d[i] IN s

\* In ascending order: at k what fewer than k are below of, and no fewer than k up to.
Sorted(s) ==
  [k \in 1 .. Len(s) |-> CHOOSE x \in {s[i] : i \in 1 .. Len(s)} :
     /\ Cardinality({i \in 1 .. Len(s) : s[i] < x}) < k
     /\ k <= Cardinality({i \in 1 .. Len(s) : s[i] <= x})]

Encoded(c) == [length |-> (Len(c) - MinLength) \div 2, solution |-> Deltas(c)]
Accepts(g, proof) == Verify(g, Sums(SubSeq(proof.solution, 1, 2 * proof.length + MinLength)))

-----------------------------------------------------------------------------
(* Work of a fiber on one row *)

FirstRow(i) == (i * Rows) \div Fibers
EndRow(i) == ((i + 1) * Rows) \div Fibers

RowEdges(r) == {e \in Edges : Row(e) = r}
Side(ph) == IF ph % 2 = 1 THEN "v" ELSE "u"
Renames(ph) == ph > Last1 - 2 \/ (ph > 2 /\ (ph - 3) \div 2 = Compress)
Stage(ph) == IF ph > Last1 - 2 THEN 2 ELSE 1

Column(side, r) == {e \in alive : Row(names[e][side]) = r}
KeptByTwo(S, side) ==  \* mutant: the degree is compared with one more
  {e \in S : Cardinality({d \in S : names[d][side] = names[e][side]}) > 2}
Kept(S, side) == {e \in S : \E d \in S \ {e} : names[d][side] = names[e][side]}

GenUnodes(r) ==
  /\ alive' = alive \cup RowEdges(r)
  /\ UNCHANGED <<names, renamed, solution>>

\* genVnodes, trimEdges and trimEdges1
TrimEdges(side, r) ==
  /\ alive' = alive \ (Column(side, r) \ Kept(Column(side, r), side))
  /\ UNCHANGED <<names, renamed, solution>>

\* trimRename and trimRename1: the nodes are numbered as they are met.
TrimRename(side, r, stage) ==
  LET K == Kept(Column(side, r), side)
      order == SetToSeq({names[e][side] : e \in K})
      Number(n) == CHOOSE i \in 1 .. Len(order) : order[i] = n
  IN /\ alive' = alive \ (Column(side, r) \ K)
     /\ renamed' = [renamed EXCEPT ![side][stage][r] = order]
     /\ names' = [e \in Edges |-> IF e \in K
                    THEN [names[e] EXCEPT ![side] = r * RowSize + Number(names[e][side]) - 1]
                    ELSE names[e]]
     /\ UNCHANGED solution

MatchRow(r) ==
  /\ solution' = [j \in 1 .. MaxPath |->
                    IF j <= Len(cycle) /\ \E e \in RowEdges(r) : graph[e] = cycle[j]
                    THEN Max({e \in RowEdges(r) : graph[e] = cycle[j]}) ELSE solution[j]]
  /\ UNCHANGED buckets

ProcessRow(ph, r) ==
  IF ph = 1 THEN GenUnodes(r)
  ELSE IF ph = Match THEN MatchRow(r)
  ELSE IF Renames(ph) THEN TrimRename(Side(ph), r, Stage(ph))
  ELSE TrimEdges(Side(ph), r)

\* Loops that look at `cancel` between rows
Cancellable(ph) == ph \in {1, 2, Last1 - 1, Last1, Match}

-----------------------------------------------------------------------------
(* The pools. A worker of the system runs an item as soon as it is dispatched;  *)
(* those of threadpool2 wait for the semaphore that `join` releases. Whoever  *)
(* ends the last item sets the event.                                      *)

Ready(w) == w \in threads /\ busy[w] = Idle /\ permits > 0

Take(w) ==
  /\ Ready(w) /\ ~quit /\ consumed < Len(queue)
  /\ busy' = [busy EXCEPT ![w] =
       LET item == queue[consumed + 1]
       IN [fiber |-> item.fiber, phase |-> item.phase, row |-> FirstRow(item.fiber)]]
  /\ permits' = permits - 1 /\ consumed' = consumed + 1
  /\ UNCHANGED <<control, graph, buckets, fixed, threads, queue, sent, deferred, remains, done,
                 quit, recovery, solution, answer, cancel, failures>>

Step(w) ==
  /\ busy[w] # Idle /\ busy[w].row < EndRow(busy[w].fiber)
  /\ ~(cancel /\ Cancellable(busy[w].phase))
  /\ ProcessRow(busy[w].phase, busy[w].row)
  /\ busy' = [busy EXCEPT ![w].row = @ + 1]
  /\ UNCHANGED <<control, graph, fixed, threads, counters, recovery, answer, cancel, failures>>

LastItemBefore(n) == n <= 1  \* mutant: the counter is compared as it was before
LastItem(n) == n = 0

Finish(w) ==
  /\ busy[w] # Idle
  /\ \/ busy[w].row = EndRow(busy[w].fiber)
     \/ cancel /\ Cancellable(busy[w].phase)
  /\ busy' = [busy EXCEPT ![w] = Idle]
  /\ remains' = remains - 1 /\ done' = (done \/ LastItem(remains'))
  /\ UNCHANGED <<control, graph, buckets, fixed, threads, queue, consumed, sent, deferred,
                 permits, quit, recovery, solution, answer, cancel, failures>>

Leave(w) ==
  /\ Ready(w) /\ quit
  /\ threads' = threads \ {w} /\ permits' = permits - 1
  /\ done' = (done \/ threads' = {})
  /\ UNCHANGED <<control, graph, buckets, fixed, queue, consumed, sent, deferred, remains, quit,
                 busy, recovery, solution, answer, cancel, failures>>

-----------------------------------------------------------------------------
(* solve *)

\* A solver is made for each complexity, and a graph is what the hash gives for it.
Attempt ==
  /\ pc = "idle"
  /\ \E g \in Graphs : graph' = g /\ names' = g
  /\ pc' = IF cancel THEN "closed" ELSE "init"
  /\ UNCHANGED <<phase, level, alive, renamed, fixed, threads, counters, busy, recovery,
                 solution, answer, cancel, failures>>

Created == IF Fibers < Processors THEN Fibers ELSE Processors

InitPool ==
  /\ pc = "init" /\ pool = "system"
  /\ threads' = Workers
  /\ pc' = IF cancel THEN "close" ELSE "begin"
  /\ UNCHANGED <<phase, level, graph, buckets, fixed, counters, busy, recovery, solution, answer,
                 cancel, failures>>

CreateThreads ==
  /\ pc = "init" /\ pool = "custom"
  /\ \/ /\ threads' = 1 .. Created
        /\ pc' = IF cancel THEN "close" ELSE "begin"
        /\ UNCHANGED failures
     \/ /\ failures < MaxFailures /\ failures' = failures + 1
        /\ \E k \in 0 .. Created - 1 : threads' = 1 .. k
        /\ pc' = "abort"
  /\ UNCHANGED <<phase, level, graph, buckets, fixed, counters, busy, recovery, solution, answer,
                 cancel>>

CountedNever == remains  \* mutant: the system's pool does not count its items
Counted == IF pool = "system" THEN Fibers ELSE remains

Begin ==
  /\ pc = "begin" /\ pc' = "dispatch"
  /\ sent' = 0 /\ queue' = <<>> /\ consumed' = 0
  /\ remains' = Counted
  /\ UNCHANGED <<phase, level, graph, buckets, fixed, threads, deferred, permits, done, quit,
                 busy, recovery, solution, answer, cancel, failures>>

Enqueue ==
  /\ queue' = Append(queue, [fiber |-> sent, phase |-> phase])
  /\ IF pool = "system" THEN permits' = permits + 1 /\ UNCHANGED <<deferred, remains>>
     ELSE deferred' = deferred + 1 /\ remains' = remains + 1 /\ UNCHANGED permits
  /\ UNCHANGED failures

\* QueueUserWorkItem fails, and nobody looks.
EnqueueFails ==
  /\ pool = "system" /\ failures < MaxFailures /\ failures' = failures + 1
  /\ UNCHANGED <<queue, permits, deferred, remains>>

Dispatch ==
  /\ pc = "dispatch" /\ sent < Fibers /\ sent' = sent + 1
  /\ Enqueue \/ EnqueueFails
  /\ UNCHANGED <<control, graph, buckets, fixed, threads, consumed, done, quit, busy, recovery,
                 solution, answer, cancel>>

ReleasedOne == IF deferred > 0 THEN 1 ELSE 0  \* mutant: one thread is woken
Released == deferred

Join ==
  /\ pc = "dispatch" /\ sent = Fibers /\ pc' = "wait"
  /\ permits' = permits + Released /\ deferred' = 0
  /\ UNCHANGED <<phase, level, graph, buckets, fixed, threads, queue, consumed, sent, remains,
                 done, quit, busy, recovery, solution, answer, cancel, failures>>

\* The phase after ph: rounds go on, two phases each, until all are done or cancelled.
After(ph) == IF ph \in 2 .. Last1 - 2 /\ ph % 2 = 0 /\ cancel THEN Last1 - 1 ELSE ph + 1

Joined ==
  /\ pc = "wait" /\ done /\ done' = FALSE
  /\ CASE phase = Match -> pc' = "report" /\ UNCHANGED <<phase, left>>
       [] phase = Last1 -> /\ pc' = IF cancel THEN "close" ELSE "recover"
                           /\ left' = alive /\ UNCHANGED phase
       [] OTHER -> pc' = "begin" /\ phase' = After(phase) /\ UNCHANGED left
  /\ UNCHANGED <<level, graph, buckets, fixed, threads, queue, consumed, sent, deferred, remains,
                 permits, quit, busy, link, cycle, solution, answer, cancel, failures>>

-----------------------------------------------------------------------------
(* Recovery of cycles: `results` is a forest, each node with a link towards the  *)
(* root of its tree.                                                       *)

Path(k) ==
  LET at[i \in 1 .. MaxPath] == IF i = 1 THEN k ELSE link[at[i - 1]]
  IN [i \in 1 .. Cardinality({j \in 1 .. MaxPath : at[j] # Nil}) |-> at[i]]
TooLong(us) == link[Last(us)] # Nil

\* Turns the path us around, so that its first node is linked to k.
Turned(us, k) ==
  [n \in DOMAIN link |-> IF n = us[1] THEN k
                  ELSE IF \E i \in 2 .. Len(us) : us[i] = n
                  THEN us[CHOOSE i \in 1 .. Len(us) - 1 : us[i + 1] = n] ELSE link[n]]

OriginalOnce(n, side) == renamed[side][2][Row(n)][Place(n)]  \* mutant: one renaming
\* recordedge: the end that a name was given to, through both renamings.
Original(n, side) ==
  LET m == renamed[side][2][Row(n)][Place(n)]
  IN renamed[side][1][Row(m)][Place(m)]
Edge(a, b) == LET u == IF a[1] = "u" THEN a ELSE b
                  v == IF a[1] = "u" THEN b ELSE a
              IN [u |-> Original(u[2], "u"), v |-> Original(v[2], "v")]

\* The paths us and vs, down to where they meet, and the edge between their ends.
Loop(us, vs) ==
  LET min == IF Len(us) < Len(vs) THEN Len(us) ELSE Len(vs)
      k == CHOOSE i \in 1 .. min : /\ us[Len(us) - min + i] = vs[Len(vs) - min + i]
                                   /\ \A j \in 1 .. i - 1 :
                                        us[Len(us) - min + j] # vs[Len(vs) - min + j]
  IN <<Edge(us[1], vs[1])>>
     \o [i \in 1 .. Len(us) - min + k - 1 |-> Edge(us[i], us[i + 1])]
     \o [i \in 1 .. Len(vs) - min + k - 1 |-> Edge(vs[i], vs[i + 1])]

Bucket(e) == Row(names[e].v) * Rows + Row(names[e].u)

AdmissibleAbove(n) == n > Shortest /\ n <= Longest  \* mutant: the shortest is left out
Admissible(n) == n \in Shortest .. Longest

ReadSlot(e) ==
  /\ left' = left \ {e}
  /\ LET us == Path(<<"u", names[e].u>>)
         vs == Path(<<"v", names[e].v>>)
     IN IF TooLong(us) \/ TooLong(vs) THEN UNCHANGED <<link, cycle, pc, phase>>
        ELSE IF Last(us) # Last(vs)
        THEN /\ link' = IF Len(us) < Len(vs) THEN Turned(us, vs[1]) ELSE Turned(vs, us[1])
             /\ UNCHANGED <<cycle, pc, phase>>
        ELSE /\ IF Admissible(Len(Loop(us, vs)))
                THEN cycle' = Loop(us, vs) /\ pc' = "begin" /\ phase' = Match
                ELSE UNCHANGED <<cycle, pc, phase>>
             /\ UNCHANGED link

Recover ==
  /\ pc = "recover"
  /\ IF cancel \/ left = {}
     THEN pc' = "close" /\ UNCHANGED <<phase, recovery>>
     ELSE \E e \in {d \in left : \A x \in left : Bucket(d) <= Bucket(x)} : ReadSlot(e)
  /\ UNCHANGED <<level, graph, buckets, fixed, threads, counters, busy, solution, answer, cancel,
                 failures>>

\* The callback: the proof is written if there is room for it.
Report ==
  /\ pc = "report"
  /\ LET found == Sorted(SubSeq(solution, 1, Len(cycle)))
     IN IF Len(cycle) <= room /\ Len(cycle) \in MinLength .. MaxLength
        THEN answer' = Encoded(found) /\ pc' = "close"
        ELSE pc' = "recover" /\ UNCHANGED answer
  /\ UNCHANGED <<phase, level, graph, buckets, fixed, threads, counters, busy, recovery, solution,
                 cancel, failures>>

-----------------------------------------------------------------------------
(* ~solver, and generate *)

Stop ==
  /\ pc \in {"abort", "close"}
  /\ IF pool = "custom"
     THEN /\ quit' = TRUE /\ permits' = permits + Cardinality(threads)
          /\ pc' = IF pc = "abort" THEN "aborting" ELSE "closing"
          /\ UNCHANGED threads
     ELSE pc' = "closed" /\ threads' = {} /\ UNCHANGED <<quit, permits>>
  /\ UNCHANGED <<phase, level, graph, buckets, fixed, queue, consumed, sent, deferred, remains,
                 done, busy, recovery, solution, answer, cancel, failures>>

Stopped ==
  /\ pc \in {"aborting", "closing"} /\ done /\ done' = FALSE
  /\ pc' = IF pc = "aborting" THEN "close" ELSE "closed"
  /\ UNCHANGED <<phase, level, graph, buckets, fixed, threads, queue, consumed, sent, deferred,
                 remains, permits, quit, busy, recovery, solution, answer, cancel, failures>>

NoRenames == [s \in Sides |-> [i \in 1 .. 2 |-> [r \in RowIds |-> <<>>]]]

\* The next solver has members of its own.
Renew ==
  /\ alive' = {} /\ names' = graph /\ renamed' = NoRenames
  /\ queue' = <<>> /\ consumed' = 0 /\ sent' = 0 /\ deferred' = 0 /\ remains' = 0
  /\ permits' = 0 /\ done' = FALSE /\ quit' = FALSE
  /\ left' = {} /\ link' = [k \in Keys \cup {Nil} |-> Nil] /\ cycle' = <<>>
  /\ solution' = [j \in 1 .. MaxPath |-> Garbage]

\* Without a proof, or with one that took less time than required, generate goes on
\* to the next complexity, unless it has taken too long; the last has no time required.
Closed ==
  /\ pc = "closed" /\ Renew /\ phase' = 1
  /\ \/ level < Levels /\ level' = level + 1 /\ pc' = "idle" /\ answer' = None
     \/ pc' = "done" /\ UNCHANGED <<level, answer>>
  /\ UNCHANGED <<graph, fixed, threads, busy, cancel, failures>>

Cancel ==
  /\ ~cancel /\ pc # "done" /\ cancel' = TRUE
  /\ UNCHANGED <<control, graph, buckets, fixed, threads, counters, busy, recovery, solution,
                 answer, failures>>

Init ==
  /\ pc = "idle" /\ phase = 1 /\ level = 1
  /\ graph \in Graphs /\ names = graph
  /\ alive = {} /\ renamed = NoRenames
  /\ queue = <<>> /\ consumed = 0 /\ sent = 0 /\ deferred = 0 /\ remains = 0
  /\ permits = 0 /\ done = FALSE /\ quit = FALSE
  /\ left = {} /\ link = [k \in Keys \cup {Nil} |-> Nil] /\ cycle = <<>>
  /\ solution = [j \in 1 .. MaxPath |-> Garbage]
  /\ pool \in {"system", "custom"} /\ threads = {}
  /\ busy = [w \in Workers |-> Idle]
  /\ room \in Rooms /\ answer = None
  /\ cancel = FALSE /\ failures = 0

Main == \/ Attempt \/ InitPool \/ CreateThreads \/ Begin \/ Dispatch \/ Join \/ Joined
        \/ Recover \/ Report \/ Stop \/ Stopped \/ Closed
Work(w) == Take(w) \/ Step(w) \/ Finish(w) \/ Leave(w)

Next == Main \/ Cancel \/ \E w \in Workers : Work(w)

\* The caller and the threads run on; nobody needs to cancel.
Fairness == WF_vars(Main) /\ \A w \in Workers : WF_vars(Work(w))
Spec == Init /\ [][Next]_vars /\ Fairness

-----------------------------------------------------------------------------
(* Properties *)

\* Fibers run in the phase that the caller waits for only, and no two have the same
\* rows: nothing reads a bucket that a fiber of another phase is writing
\* (threadpool::join, threadpool2::join).
OnePhase ==
  \A w \in Workers : busy[w] # Idle =>
    /\ pc \in {"dispatch", "wait"} /\ busy[w].phase = phase
    /\ \A x \in Workers \ {w} : busy[x] = Idle \/ busy[x].fiber # busy[w].fiber

Doubled(g, C) ==
  \A e \in C : \A side \in Sides : \E d \in C \ {e} : g[d][side] = g[e][side]

Core == [g \in Graphs |-> UNION {C \in SUBSET Edges : Doubled(g, C)}]

\* Edges of which each meets another at both its ends, as those of a cycle do, outlast
\* the trimming, whichever the order in which rows are trimmed and renamed
\* (trimEdges, trimRename).
CoreKept ==
  phase > 1 /\ pc \in {"begin", "dispatch", "wait", "recover", "report"} /\ ~cancel =>
    Core[graph] \subseteq alive

\* A cycle, by definition: every end is that of exactly two of its edges, and no part
\* of it is one.
Regular(g, C) ==
  \A e \in C : \A side \in Sides : Cardinality({d \in C \ {e} : g[d][side] = g[e][side]}) = 1
SingleCycle(g, C) ==
  C # {} /\ Regular(g, C) /\ \A D \in (SUBSET C) \ {{}, C} : ~Regular(g, D)

Cycles == [g \in Graphs |-> {C \in SUBSET Edges : SingleCycle(g, C)}]
Ascending(C) ==
  [i \in 1 .. Cardinality(C) |-> CHOOSE x \in C : Cardinality({y \in C : y < x}) = i - 1]

\* cuckoo::verify accepts the edges of a single cycle and nothing else.
VerifyExact ==
  pc = "init" => \A C \in (SUBSET Edges) \ {{}} :
                   Verify(graph, Ascending(C)) <=> C \in Cycles[graph]

\* The proof that generate returns is accepted by those who verify it, through
\* renaming, recovery, matching and encoding, unless it has been cancelled meanwhile:
\* a cancelled match leaves what it has not found.
ProofHolds == pc = "done" /\ answer # None /\ ~cancel => Accepts(graph, answer)

\* Whoever ends without a proof has had no cycle of the lengths wanted, except where
\* two cycles share an edge (solve).
Wanted(n) == n \in (Shortest .. Longest) \cap (MinLength .. MaxLength) /\ n <= room
MissesNothing ==
  pc = "closed" /\ answer = None /\ ~cancel =>
    \A C \in Cycles[graph] : Wanted(Cardinality(C)) =>
      \E D \in Cycles[graph] \ {C} : D \cap C # {}

\* generate returns, cancelled or not, if threads and items of work can be had.
Terminates == <>(pc = "done" \/ failures > 0)
=============================================================================
