---------------------------- MODULE SolverProofs ----------------------------
(***************************************************************************)
(* Proofs about Solver: the barrier between the phases, for both pools;     *)
(* that trimming and renaming keep every edge that can be in a cycle; that  *)
(* what is accepted is a cycle; that what is reported is accepted; and that *)
(* a search without a result has missed no cycle that it could have found.  *)
(***************************************************************************)
EXTENDS Solver, FiniteSetTheorems, WellFoundedInduction, TLAPS

Sizes ==
  /\ Threads \in Nat \ {0} /\ Fibers \in Nat \ {0} /\ Rows \in Nat \ {0}
  /\ RowSize \in Nat \ {0} /\ Rounds \in Nat \ {0}
  /\ Processors \in Nat /\ Processors <= Threads
  /\ Last1 \in Nat /\ Last1 > 5 /\ Match \in Nat /\ Match = Last1 + 1

LEMMA SizesHold == Sizes
BY SolverAssumption DEF SolverAssumption, Sizes, Last1, Match

-----------------------------------------------------------------------------
(* The barrier *)

Working == {w \in Workers : busy[w] # Idle}
Fiber == 0 .. Fibers - 1

PoolType ==
  /\ phase \in Phases /\ pool \in {"system", "custom"}
  /\ queue \in Seq(Item) /\ consumed \in Nat /\ sent \in Nat /\ deferred \in Nat
  /\ remains \in Int /\ permits \in Nat /\ threads \subseteq Workers
  /\ busy \in [Workers -> {Idle} \cup [fiber : Fiber, phase : Phases, row : Nat]]

Running == pc \in {"dispatch", "wait"}

\* Outside a phase nothing runs and nothing is left to run.
Still ==
  /\ ~Running => Working = {} /\ consumed = Len(queue)
  /\ quit => pc \in {"aborting", "close", "closing", "closed"}
  /\ done => Running \/ pc \in {"aborting", "close", "closing", "closed"}
  /\ pool = "custom" /\ pc \in {"idle", "init", "begin", "recover", "report"} =>
       remains = 0 /\ deferred = 0 /\ permits = 0

\* In a phase the queue has the fibers that were sent, but for those that could not be.
Queued ==
  /\ Len(queue) <= sent /\ sent <= Fibers /\ consumed <= Len(queue)
  /\ pc = "wait" => sent = Fibers
  /\ \A i \in 1 .. Len(queue) :
       /\ queue[i].phase = phase
       /\ i - 1 <= queue[i].fiber /\ queue[i].fiber + Len(queue) + 1 <= sent + i
  /\ \A i, j \in 1 .. Len(queue) : i < j => queue[i].fiber < queue[j].fiber

\* What runs has been taken from the queue, each item by one thread.
Taken ==
  /\ \A w \in Working :
       /\ busy[w].phase = phase
       /\ \E i \in 1 .. consumed : queue[i].fiber = busy[w].fiber
  /\ \A w, x \in Working : w # x => busy[w].fiber # busy[x].fiber

\* What the counter tells: the system's pool counts the items that are to come, the other
\* one those that have been sent.
CountedAll ==
  IF pool = "system" THEN remains = Fibers - consumed + Cardinality(Working)
  ELSE /\ pc = "dispatch" =>
            /\ Len(queue) = sent /\ deferred = sent /\ remains = sent
            /\ permits = 0 /\ consumed = 0 /\ Working = {} /\ ~done
       /\ pc = "wait" =>
            /\ Len(queue) = sent /\ deferred = 0 /\ permits = Len(queue) - consumed
            /\ remains = permits + Cardinality(Working)

Barrier ==
  /\ Still
  /\ Running => Queued /\ Taken /\ CountedAll /\ (done => remains = 0)

PoolInv == PoolType /\ Barrier

LEMMA WorkingFinite ==
  /\ IsFiniteSet(Working) /\ Cardinality(Working) \in Nat
  /\ Cardinality(Working) = 0 <=> Working = {}
<1>1. IsFiniteSet(Workers)
  BY SizesHold, FS_Interval DEF Sizes, Workers
<1>2. QED BY <1>1, FS_Subset, FS_CardinalityType, FS_EmptySet DEF Working

\* The event is set when nothing is left of the phase.
LEMMA DoneMeansStill ==
  ASSUME PoolInv, Running, done
  PROVE  /\ Working = {} /\ consumed = Len(queue) /\ Len(queue) = Fibers /\ sent = Fibers
         /\ pool = "custom" => pc = "wait" /\ deferred = 0 /\ permits = 0
<1>1. remains = 0 /\ Queued /\ CountedAll
  BY DEF PoolInv, Barrier
<1>2. Cardinality(Working) \in Nat /\ Fibers \in Nat /\ consumed \in Nat /\ Len(queue) \in Nat
  BY WorkingFinite, SizesHold DEF Sizes, PoolInv, PoolType
<1>3. /\ Len(queue) <= sent /\ sent <= Fibers /\ consumed <= Len(queue)
      /\ pc = "wait" => sent = Fibers
      /\ sent \in Nat /\ permits \in Nat /\ deferred \in Nat /\ pc \in {"dispatch", "wait"}
  BY <1>1 DEF Queued, PoolInv, PoolType, Running
<1>4. CASE pool = "system"
  <2>1. remains = Fibers - consumed + Cardinality(Working)
    BY <1>1, <1>4 DEF CountedAll
  <2>2. Cardinality(Working) = 0 /\ consumed = Fibers
    BY <1>1, <1>2, <1>3, <2>1
  <2>3. QED BY <1>2, <1>3, <1>4, <2>2, WorkingFinite
<1>5. CASE pool = "custom"
  <2>1. pc = "wait" /\ deferred = 0 /\ permits = Len(queue) - consumed /\ Len(queue) = sent
        /\ 0 = permits + Cardinality(Working)
    BY <1>1, <1>3, <1>5 DEF CountedAll, PoolInv, Barrier
  <2>2. Cardinality(Working) = 0 /\ permits = 0
    BY <1>2, <1>3, <2>1
  <2>3. QED BY <1>2, <1>3, <2>1, <2>2, WorkingFinite
<1>6. QED BY <1>4, <1>5 DEF PoolInv, PoolType

LEMMA ItemsTyped ==
  ASSUME PoolType
  PROVE  \A i \in 1 .. Len(queue) : queue[i].fiber \in Fiber /\ queue[i].fiber \in Int
<1>1. \A i \in 1 .. Len(queue) : queue[i] \in Item
  BY DEF PoolType
<1>2. QED BY <1>1, SizesHold DEF Item, Fiber, Sizes

LEMMA PoolInit == Init => PoolInv
<1> SUFFICES ASSUME Init PROVE PoolInv
  OBVIOUS
<1>1. /\ pc = "idle" /\ phase = 1 /\ queue = <<>> /\ consumed = 0 /\ sent = 0 /\ deferred = 0
      /\ remains = 0 /\ permits = 0 /\ done = FALSE /\ quit = FALSE
      /\ pool \in {"system", "custom"} /\ threads = {} /\ busy = [w \in Workers |-> Idle]
  BY DEF Init
<1>2. Working = {} /\ Len(queue) = 0
  BY <1>1 DEF Working
<1>3. PoolType
  <2>1. phase \in Phases
    BY <1>1, SizesHold DEF Sizes, Phases
  <2>2. busy \in [Workers -> {Idle} \cup [fiber : Fiber, phase : Phases, row : Nat]]
    BY <1>1
  <2>3. queue \in Seq(Item)
    BY <1>1
  <2>4. QED BY <1>1, <2>1, <2>2, <2>3 DEF PoolType
<1>4. Barrier
  BY <1>1, <1>2 DEF Barrier, Still, Running
<1>5. QED BY <1>3, <1>4 DEF PoolInv

Resting == {"idle", "init", "begin", "recover", "report"}
Ending == {"aborting", "close", "closing", "closed"}

\* Steps of the caller outside a phase leave the queue alone.
LEMMA QuietStep ==
  ASSUME PoolInv, ~Running, ~Running', phase' \in Phases, permits' \in Nat,
         threads' \subseteq Workers,
         UNCHANGED <<queue, consumed, sent, deferred, remains, busy, pool>>,
         quit' => pc' \in Ending, done' => pc' \in Ending,
         pc' \in Resting => pc \in Resting /\ permits' = permits
  PROVE  PoolInv'
<1>1. PoolType'
  BY DEF PoolInv, PoolType
<1>2. Working' = Working
  BY DEF Working
<1>3. Barrier'
  BY <1>2 DEF PoolInv, Barrier, Still, Resting, Ending
<1>4. QED BY <1>1, <1>3 DEF PoolInv

\* The event means nothing outside a phase, and nobody sets it before the pool is closed.
LEMMA Unset ==
  ASSUME PoolInv
  PROVE  /\ quit => pc \in Ending
         /\ done /\ ~Running => pc \in Ending
BY DEF PoolInv, Barrier, Still, Ending

LEMMA PoolQuiet ==
  ASSUME PoolInv, Attempt \/ InitPool \/ CreateThreads \/ Recover \/ Report \/ Stop \/ Stopped
  PROVE  PoolInv'
<1> USE Unset
<1>1. /\ phase \in Phases /\ permits \in Nat /\ threads \subseteq Workers
      /\ Match \in Phases
  BY SizesHold DEF PoolInv, PoolType, Sizes, Phases
<1>2. CASE Attempt
  BY <1>1, <1>2, QuietStep
     DEF Attempt, counters, fixed, Running, Resting, Ending
<1>3. CASE InitPool
  BY <1>1, <1>3, QuietStep
     DEF InitPool, counters, fixed, Running, Resting, Ending
<1>4. CASE CreateThreads
  <2>1. threads' \subseteq Workers
    <3>1. Created \in Int /\ Created <= Threads
      BY SizesHold DEF Created, Sizes
    <3>2. QED BY <1>4, <3>1, SizesHold DEF CreateThreads, Workers, Sizes
  <2>2. QED
    BY <1>1, <1>4, <2>1, QuietStep
       DEF CreateThreads, counters, fixed, Running, Resting, Ending
<1>5. CASE Recover
  <2>1. \/ pc' \in {"close", "recover"} /\ phase' = phase
        \/ pc' = "begin" /\ phase' = Match
    BY <1>5 DEF Recover, ReadSlot
  <2>2. pc = "recover" /\ UNCHANGED <<fixed, counters, busy, threads>>
    BY <1>5 DEF Recover
  <2>3. QED
    BY <1>1, <2>1, <2>2, QuietStep DEF counters, fixed, Running, Resting, Ending
<1>6. CASE Report
  <2>1. pc = "report" /\ pc' \in {"close", "recover"} /\ phase' = phase
    BY <1>6 DEF Report
  <2>2. UNCHANGED <<fixed, counters, busy, threads>>
    BY <1>6 DEF Report
  <2>3. QED
    BY <1>1, <2>1, <2>2, QuietStep DEF counters, fixed, Running, Resting, Ending
<1>7. CASE Stop
  <2>1. Cardinality(threads) \in Nat
    <3>1. IsFiniteSet(Workers)
      BY SizesHold, FS_Interval DEF Sizes, Workers
    <3>2. QED BY <1>1, <3>1, FS_Subset, FS_CardinalityType
  <2>2. /\ pc \in {"abort", "close"} /\ pc' \in Ending /\ phase' = phase
        /\ UNCHANGED <<queue, consumed, sent, deferred, remains, busy, pool>>
    BY <1>7 DEF Stop, fixed, Ending
  <2>3. permits' \in Nat /\ threads' \subseteq Workers
    BY <1>1, <1>7, <2>1 DEF Stop
  <2>4. QED
    BY <1>1, <2>2, <2>3, QuietStep DEF Running, Resting, Ending
<1>8. CASE Stopped
  BY <1>1, <1>8, QuietStep DEF Stopped, fixed, Running, Resting, Ending
<1>9. QED BY <1>2, <1>3, <1>4, <1>5, <1>6, <1>7, <1>8

LEMMA PoolClosed == ASSUME PoolInv, Closed PROVE PoolInv'
<1>1. /\ pc = "closed" /\ pc' \in {"idle", "done"} /\ phase' = 1
      /\ queue' = <<>> /\ consumed' = 0 /\ sent' = 0 /\ deferred' = 0 /\ remains' = 0
      /\ permits' = 0 /\ done' = FALSE /\ quit' = FALSE
      /\ UNCHANGED <<pool, threads, busy>>
  BY DEF Closed, Renew, fixed
<1>2. Working' = {} /\ Len(queue') = 0
  BY <1>1 DEF PoolInv, Barrier, Still, Running, Working
<1>3. PoolType'
  <2>1. phase' \in Phases
    BY <1>1, SizesHold DEF Sizes, Phases
  <2>2. queue' \in Seq(Item)
    BY <1>1
  <2>3. QED BY <1>1, <2>1, <2>2 DEF PoolInv, PoolType
<1>4. Barrier'
  BY <1>1, <1>2 DEF Barrier, Still, Running
<1>5. QED BY <1>3, <1>4 DEF PoolInv

LEMMA PoolBegin == ASSUME PoolInv, Begin PROVE PoolInv'
<1>1. /\ pc = "begin" /\ pc' = "dispatch" /\ sent' = 0 /\ queue' = <<>> /\ consumed' = 0
      /\ remains' = Counted /\ UNCHANGED <<phase, pool, threads, deferred, permits, done, quit, busy>>
  BY DEF Begin, fixed
<1>2. /\ Working = {} /\ ~done /\ ~quit
      /\ pool = "custom" => remains = 0 /\ deferred = 0 /\ permits = 0
  BY <1>1 DEF PoolInv, Barrier, Still, Running
<1>3. Working' = {} /\ Len(queue') = 0 /\ Cardinality(Working') = 0
  BY <1>1, <1>2, FS_EmptySet DEF Working
<1>4. PoolType'
  BY <1>1, SizesHold DEF PoolInv, PoolType, Counted, Sizes
<1>5. Queued' /\ Taken'
  BY <1>1, <1>3, SizesHold DEF Queued, Taken, Sizes
<1>6. CountedAll'
  BY <1>1, <1>2, <1>3, SizesHold DEF CountedAll, Counted, Sizes, PoolInv, PoolType
<1>7. QED BY <1>1, <1>2, <1>4, <1>5, <1>6 DEF PoolInv, Barrier, Still, Running

LEMMA PoolDispatch == ASSUME PoolInv, Dispatch PROVE PoolInv'
<1>1. /\ pc = "dispatch" /\ sent < Fibers /\ sent' = sent + 1
      /\ UNCHANGED <<pc, phase, pool, threads, consumed, done, quit, busy>>
  BY DEF Dispatch, fixed, control
<1>2. PoolType /\ Still /\ Queued /\ Taken /\ CountedAll /\ ~done
  BY <1>1, DoneMeansStill DEF PoolInv, Barrier, Running
<1>3. Working' = Working /\ Len(queue) \in Nat /\ Fibers \in Nat /\ sent \in Nat
  BY <1>1, <1>2, SizesHold DEF Working, PoolType, Sizes
<1>4. CASE Enqueue
  <2>1. queue' = Append(queue, [fiber |-> sent, phase |-> phase])
    BY <1>4 DEF Enqueue
  <2>2. /\ Len(queue') = Len(queue) + 1 /\ queue' \in Seq(Item)
        /\ \A i \in 1 .. Len(queue) : queue'[i] = queue[i]
        /\ queue'[Len(queue) + 1] = [fiber |-> sent, phase |-> phase]
    <3>1. [fiber |-> sent, phase |-> phase] \in Item
      BY <1>1, <1>2, <1>3 DEF Item, PoolType
    <3>2. QED BY <2>1, <3>1, <1>2 DEF PoolType
  <2>3. PoolType'
    BY <1>1, <1>2, <1>4, <2>2, SMTT(30) DEF PoolType, Enqueue
  <2>4. Queued'
    <3>1. Len(queue') <= sent' /\ sent' <= Fibers /\ consumed' <= Len(queue')
      BY <1>1, <1>2, <1>3, <2>2 DEF Queued, PoolType
    <3>2. ASSUME NEW i \in 1 .. Len(queue')
          PROVE  /\ queue'[i].phase = phase
                 /\ i - 1 <= queue'[i].fiber /\ queue'[i].fiber + Len(queue') + 1 <= sent' + i
      <4>1. CASE i \in 1 .. Len(queue)
        <5>1. queue[i].fiber \in Int
          BY <1>2, <4>1, ItemsTyped
        <5>2. /\ queue[i].phase = phase /\ i - 1 <= queue[i].fiber
              /\ queue[i].fiber + Len(queue) + 1 <= sent + i
          BY <1>2, <4>1 DEF Queued
        <5>3. queue'[i] = queue[i]
          BY <2>2, <4>1
        <5>4. QED BY <1>1, <1>3, <2>2, <4>1, <5>1, <5>2, <5>3, SMTT(30)
      <4>2. CASE i = Len(queue) + 1
        BY <1>1, <1>2, <1>3, <2>2, <4>2 DEF Queued
      <4>3. QED BY <1>3, <2>2, <4>1, <4>2
    <3>3. ASSUME NEW i \in 1 .. Len(queue'), NEW j \in 1 .. Len(queue'), i < j
          PROVE  queue'[i].fiber < queue'[j].fiber
      <4>1. i \in 1 .. Len(queue) /\ queue[i].fiber \in Int
        BY <1>2, <1>3, <2>2, <3>3, ItemsTyped
      <4>2. CASE j \in 1 .. Len(queue)
        BY <1>2, <2>2, <3>3, <4>1, <4>2 DEF Queued
      <4>3. CASE j = Len(queue) + 1
        BY <1>2, <1>3, <2>2, <4>1, <4>3 DEF Queued
      <4>4. QED BY <1>3, <2>2, <4>2, <4>3
    <3>4. QED BY <1>1, <3>1, <3>2, <3>3 DEF Queued
  <2>5. Taken'
    <3>1. ASSUME NEW w \in Working
          PROVE  \E i \in 1 .. consumed : queue'[i].fiber = busy[w].fiber
      <4>1. PICK i \in 1 .. consumed : queue[i].fiber = busy[w].fiber
        BY <1>2 DEF Taken
      <4>2. i \in 1 .. Len(queue)
        BY <1>2, <1>3 DEF Queued, PoolType
      <4>3. queue'[i] = queue[i]
        BY <2>2, <4>2
      <4>4. QED BY <4>1, <4>3
    <3>2. QED BY <1>1, <1>2, <1>3, <3>1 DEF Taken
  <2>6. CountedAll'
    BY <1>1, <1>2, <1>3, <1>4, <2>2 DEF CountedAll, Enqueue, PoolType
  <2>7. QED BY <1>1, <1>2, <1>3, <2>2, <2>3, <2>4, <2>5, <2>6 DEF PoolInv, Barrier, Still, Running
<1>5. CASE EnqueueFails
  <2>1. pool = "system" /\ UNCHANGED <<queue, permits, deferred, remains>>
    BY <1>5 DEF EnqueueFails
  <2>2. PoolType'
    BY <1>1, <1>2, <2>1 DEF PoolType
  <2>3. Queued'
    <3>1. \A i \in 1 .. Len(queue) : queue[i].fiber \in Int
      BY <1>2, ItemsTyped
    <3>2. QED BY <1>1, <1>2, <1>3, <2>1, <3>1, SMTT(30) DEF Queued
  <2>4. Taken' /\ CountedAll'
    BY <1>1, <1>2, <1>3, <2>1 DEF Taken, CountedAll
  <2>5. QED BY <1>1, <1>2, <1>3, <2>1, <2>2, <2>3, <2>4 DEF PoolInv, Barrier, Still, Running
<1>6. QED BY <1>4, <1>5 DEF Dispatch

LEMMA PoolJoin == ASSUME PoolInv, Join PROVE PoolInv'
<1>1. /\ pc = "dispatch" /\ pc' = "wait" /\ sent = Fibers
      /\ permits' = permits + Released /\ deferred' = 0
      /\ UNCHANGED <<phase, pool, threads, queue, consumed, sent, remains, done, quit, busy>>
  BY DEF Join, fixed
<1>2. PoolType /\ Still /\ Queued /\ Taken /\ CountedAll /\ (done => remains = 0)
  BY <1>1 DEF PoolInv, Barrier, Running
<1>3. Working' = Working
  BY <1>1 DEF Working
<1>4. PoolType'
  BY <1>1, <1>2 DEF PoolType, Released
<1>5. Queued' /\ Taken'
  BY <1>1, <1>2, <1>3, SizesHold DEF Queued, Taken, Sizes
<1>6. CountedAll'
  <2>1. CASE pool = "system"
    BY <1>1, <1>2, <1>3, <2>1 DEF CountedAll
  <2>2. CASE pool = "custom"
    <3>1. /\ Len(queue) = sent /\ deferred = sent /\ remains = sent
          /\ permits = 0 /\ consumed = 0 /\ Working = {}
      BY <1>1, <1>2, <2>2 DEF CountedAll
    <3>2. Cardinality(Working) = 0 /\ sent \in Nat
      BY <1>2, <3>1, FS_EmptySet DEF PoolType
    <3>3. QED BY <1>1, <1>3, <2>2, <3>1, <3>2 DEF CountedAll, Released
  <2>3. QED BY <1>2, <2>1, <2>2 DEF PoolType
<1>7. QED BY <1>1, <1>2, <1>3, <1>4, <1>5, <1>6 DEF PoolInv, Barrier, Still, Running

LEMMA PoolJoined == ASSUME PoolInv, Joined PROVE PoolInv'
<1>1. /\ pc = "wait" /\ done /\ ~done' /\ pc' \in {"report", "close", "recover", "begin"}
      /\ UNCHANGED <<pool, threads, queue, consumed, sent, deferred, remains, permits, quit, busy>>
  BY DEF Joined, fixed
<1>2. PoolType /\ Still /\ Working = {} /\ consumed = Len(queue) /\ remains = 0
      /\ (pool = "custom" => deferred = 0 /\ permits = 0)
  BY <1>1, DoneMeansStill DEF PoolInv, Barrier, Running
<1>3. phase' \in Phases
  <2>1. /\ phase \in 1 .. Match /\ Match \in Nat /\ Last1 \in Nat /\ Last1 > 5 /\ Match = Last1 + 1
    BY <1>2, SizesHold DEF PoolType, Phases, Sizes
  <2>2. \/ phase' = phase
        \/ phase # Match /\ phase' = After(phase)
    BY DEF Joined
  <2>3. After(phase) \in {Last1 - 1, phase + 1}
    BY DEF After
  <2>4. QED BY <2>1, <2>2, <2>3 DEF Phases
<1>4. PoolType'
  BY <1>1, <1>2, <1>3 DEF PoolType
<1>5. Working' = {}
  BY <1>1, <1>2 DEF Working
<1>6. QED BY <1>1, <1>2, <1>4, <1>5 DEF PoolInv, Barrier, Still, Running

LEMMA PoolTake == ASSUME PoolInv, NEW w \in Workers, Take(w) PROVE PoolInv'
<1>1. /\ busy[w] = Idle /\ permits > 0 /\ consumed < Len(queue)
      /\ permits' = permits - 1 /\ consumed' = consumed + 1
      /\ UNCHANGED <<pc, phase, pool, threads, queue, sent, deferred, remains, done, quit>>
  BY DEF Take, Ready, control, fixed
<1>2. PoolType /\ Still /\ Running /\ Queued /\ Taken /\ CountedAll /\ ~done
  <2>1. PoolType /\ Still /\ Running
    BY <1>1 DEF PoolInv, Barrier, Still, PoolType
  <2>2. QED BY <1>1, <2>1, DoneMeansStill DEF PoolInv, Barrier, PoolType
<1>3. consumed + 1 \in 1 .. Len(queue)
  BY <1>1, <1>2 DEF PoolType
<1> DEFINE item == queue[consumed + 1]
           new == [fiber |-> item.fiber, phase |-> item.phase, row |-> FirstRow(item.fiber)]
<1>4. busy' = [busy EXCEPT ![w] = new] /\ item.phase = phase /\ item.fiber \in Fiber
  BY <1>2, <1>3, ItemsTyped DEF Take, Queued
<1>5. FirstRow(item.fiber) \in Nat
  <2>1. item.fiber \in Nat /\ Rows \in Nat /\ Fibers \in Nat /\ Fibers > 0
    BY <1>4, SizesHold DEF Fiber, Sizes
  <2>2. item.fiber * Rows \in Nat
    BY <2>1
  <2>3. QED BY <2>1, <2>2 DEF FirstRow
<1>6. new \in [fiber : Fiber, phase : Phases, row : Nat] /\ new # Idle
  <2>1. phase # 0
    BY <1>2 DEF PoolType, Phases
  <2>2. QED BY <1>2, <1>4, <1>5, <2>1 DEF PoolType, Idle
<1>7. PoolType'
  BY <1>1, <1>2, <1>4, <1>6 DEF PoolType
<1>8. /\ busy'[w] = new /\ \A x \in Workers \ {w} : busy'[x] = busy[x]
      /\ Working' = Working \cup {w} /\ w \notin Working
  BY <1>1, <1>2, <1>4, <1>6 DEF PoolType, Working
<1>9. Cardinality(Working') = Cardinality(Working) + 1
  BY <1>8, WorkingFinite, FS_AddElement
<1>10. Queued'
  BY <1>1, <1>2, <1>3 DEF Queued, PoolType
<1>11. Taken'
  <2>1. ASSUME NEW x \in Working
        PROVE  /\ busy[x].phase = phase /\ busy[x].fiber # item.fiber
               /\ \E i \in 1 .. consumed + 1 : queue[i].fiber = busy[x].fiber
    <3>1. PICK i \in 1 .. consumed : queue[i].fiber = busy[x].fiber
      BY <1>2 DEF Taken
    <3>2. i \in 1 .. Len(queue) /\ i < consumed + 1 /\ i \in 1 .. consumed + 1
      BY <1>1, <1>2 DEF PoolType
    <3>3. queue[i].fiber < item.fiber /\ queue[i].fiber \in Int /\ item.fiber \in Int
      BY <1>2, <1>3, <3>2, ItemsTyped DEF Queued
    <3>4. QED BY <1>2, <3>1, <3>2, <3>3 DEF Taken
  <2>2. consumed + 1 \in 1 .. consumed + 1 /\ new.fiber = item.fiber /\ new.phase = phase
    BY <1>2, <1>4 DEF PoolType
  <2>3. \A x \in Working : x \in Workers
    BY DEF Working
  <2>4. QED BY <1>1, <1>2, <1>8, <2>1, <2>2, <2>3, SMTT(30) DEF Taken
<1>12. CountedAll'
  <2>1. Cardinality(Working) \in Nat /\ Fibers \in Nat
    BY WorkingFinite, SizesHold DEF Sizes
  <2>2. QED BY <1>1, <1>2, <1>9, <2>1 DEF CountedAll, PoolType, Running
<1>13. QED BY <1>1, <1>2, <1>7, <1>10, <1>11, <1>12 DEF PoolInv, Barrier, Still, Running

LEMMA PoolStep == ASSUME PoolInv, NEW w \in Workers, Step(w) PROVE PoolInv'
<1>1. /\ busy[w] # Idle /\ busy' = [busy EXCEPT ![w].row = @ + 1]
      /\ UNCHANGED <<pc, phase, pool, threads, queue, consumed, sent, deferred, remains, permits,
                     done, quit>>
  BY DEF Step, control, fixed, counters
<1>2. PoolType /\ Still /\ Running /\ Queued /\ Taken /\ CountedAll /\ (done => remains = 0)
  BY <1>1 DEF PoolInv, Barrier, Still, Working
<1>3. busy[w] \in [fiber : Fiber, phase : Phases, row : Nat]
  BY <1>1, <1>2 DEF PoolType
<1> DEFINE new == [busy[w] EXCEPT !.row = @ + 1]
<1>4. /\ new \in [fiber : Fiber, phase : Phases, row : Nat] /\ new # Idle
      /\ new.fiber = busy[w].fiber /\ new.phase = busy[w].phase
  BY <1>3, SizesHold DEF Phases, Idle, Sizes
<1>5. busy' = [busy EXCEPT ![w] = new]
  BY <1>1, <1>2, <1>3 DEF PoolType
<1>6. PoolType'
  BY <1>1, <1>2, <1>4, <1>5 DEF PoolType
<1>7. /\ Working' = Working
      /\ \A x \in Working : busy'[x].fiber = busy[x].fiber /\ busy'[x].phase = busy[x].phase
  BY <1>1, <1>2, <1>4, <1>5 DEF PoolType, Working
<1>8. Queued' /\ Taken' /\ CountedAll'
  BY <1>1, <1>2, <1>7 DEF Queued, Taken, CountedAll
<1>9. QED BY <1>1, <1>2, <1>6, <1>7, <1>8 DEF PoolInv, Barrier, Still, Running

LEMMA PoolFinish == ASSUME PoolInv, NEW w \in Workers, Finish(w) PROVE PoolInv'
<1>1. /\ busy[w] # Idle /\ busy' = [busy EXCEPT ![w] = Idle]
      /\ remains' = remains - 1 /\ done' = (done \/ remains' = 0)
      /\ UNCHANGED <<pc, phase, pool, threads, queue, consumed, sent, deferred, permits, quit>>
  BY DEF Finish, control, fixed, LastItem
<1>2. PoolType /\ Still /\ Running /\ Queued /\ Taken /\ CountedAll /\ ~done
  <2>1. w \in Working
    BY <1>1 DEF Working
  <2>2. Running /\ ~done
    BY <2>1, DoneMeansStill DEF PoolInv, Barrier, Still
  <2>3. QED BY <2>2 DEF PoolInv, Barrier
<1>3. PoolType'
  BY <1>1, <1>2 DEF PoolType
<1>4. /\ Working' = Working \ {w} /\ w \in Working
      /\ \A x \in Working' : busy'[x] = busy[x]
  BY <1>1, <1>2 DEF PoolType, Working
<1>5. Cardinality(Working') = Cardinality(Working) - 1
  BY <1>4, WorkingFinite, FS_RemoveElement
<1>6. Queued' /\ Taken'
  BY <1>1, <1>2, <1>4 DEF Queued, Taken
<1>7. CountedAll'
  <2>1. Cardinality(Working) \in Nat /\ Fibers \in Nat
    BY WorkingFinite, SizesHold DEF Sizes
  <2>2. CASE pool = "system"
    BY <1>1, <1>2, <1>5, <2>1, <2>2 DEF CountedAll, PoolType
  <2>3. CASE pool = "custom"
    <3>1. pc = "wait"
      BY <1>2, <1>4, <2>3 DEF CountedAll, Running
    <3>2. Len(queue) = sent /\ deferred = 0 /\ permits = Len(queue) - consumed
          /\ remains = permits + Cardinality(Working)
      BY <1>2, <2>3, <3>1 DEF CountedAll
    <3>3. remains' = permits + Cardinality(Working')
      BY <1>1, <1>2, <1>5, <2>1, <3>2 DEF PoolType
    <3>4. QED BY <1>1, <2>3, <3>1, <3>2, <3>3 DEF CountedAll
  <2>4. QED BY <1>2, <2>2, <2>3 DEF PoolType
<1>8. QED BY <1>1, <1>2, <1>3, <1>6, <1>7 DEF PoolInv, Barrier, Still, Running

LEMMA PoolLeave == ASSUME PoolInv, NEW w \in Workers, Leave(w) PROVE PoolInv'
<1>1. /\ quit /\ permits > 0 /\ permits' = permits - 1 /\ threads' = threads \ {w}
      /\ UNCHANGED <<pc, phase, pool, queue, consumed, sent, deferred, remains, quit, busy>>
  BY DEF Leave, Ready, control, fixed
<1>2. ~Running /\ pc \in Ending /\ phase \in Phases /\ permits' \in Nat /\ threads' \subseteq Workers
  BY <1>1, Unset DEF PoolInv, PoolType, Running, Ending
<1>3. QED BY <1>1, <1>2, QuietStep DEF Running, Resting, Ending

LEMMA PoolNext == PoolInv /\ [Next]_vars => PoolInv'
<1> SUFFICES ASSUME PoolInv, [Next]_vars PROVE PoolInv'
  OBVIOUS
<1>1. CASE UNCHANGED vars \/ Cancel
  <2>1. UNCHANGED <<pc, phase, fixed, threads, counters, busy>>
    BY <1>1 DEF vars, Cancel, control
  <2>2. QED
    BY <2>1 DEF fixed, counters, PoolInv, PoolType, Barrier, Still, Running, Queued, Taken,
       CountedAll, Working
<1>2. CASE Main
  BY <1>2, PoolQuiet, PoolClosed, PoolBegin, PoolDispatch, PoolJoin, PoolJoined DEF Main
<1>3. CASE \E w \in Workers : Work(w)
  BY <1>3, PoolTake, PoolStep, PoolFinish, PoolLeave DEF Work
<1>4. QED BY <1>1, <1>2, <1>3 DEF Next

\* Fibers run in the phase that the caller waits for, with either pool, whatever fails to
\* be created or queued and whenever the user cancels, and no two fibers have the same rows.
THEOREM PhasesApart == Spec => []OnePhase
<1>1. PoolInv => OnePhase
  BY DEF PoolInv, Barrier, Still, Running, Taken, OnePhase, Working
<1>2. QED BY <1>1, PoolInit, PoolNext, PTL DEF Spec

-----------------------------------------------------------------------------
(* Rows *)

LEMMA Division ==
  ASSUME NEW n \in Nat, NEW d \in Nat, d > 0
  PROVE  n \div d \in Nat /\ (n \div d) * d <= n /\ n < (n \div d) * d + d
OBVIOUS

LEMMA Quotient ==
  ASSUME NEW r \in Nat, NEW d \in Nat, d > 0, NEW m \in 0 .. d - 1
  PROVE  (r * d + m) \div d = r
OBVIOUS

LEMMA Remainder ==
  ASSUME NEW r \in Nat, NEW d \in Nat, d > 0, NEW m \in 0 .. d - 1
  PROVE  (r * d + m) % d = m
OBVIOUS

LEMMA Less ==
  ASSUME NEW r \in Int, NEW s \in Int, NEW d \in Nat, d > 0, r * d < s * d
  PROVE  r < s
OBVIOUS

\* What one fiber is given ends where the next begins, and together it is every row.
LEMMA EveryRowHasFiber ==
  ASSUME NEW r \in RowIds
  PROVE  \E i \in Fiber : FirstRow(i) <= r /\ r < EndRow(i)
<1> DEFINE n == (r + 1) * Fibers - 1
           i == n \div Rows
<1>1. /\ r \in Nat /\ r + 1 <= Rows /\ Rows \in Nat /\ Rows > 0 /\ Fibers \in Nat /\ Fibers > 0
      /\ r + 1 \in Nat
  BY SizesHold DEF RowIds, Sizes
<1>2. n \in Nat /\ n < (r + 1) * Fibers /\ (r + 1) * Fibers <= Rows * Fibers
      /\ r * Fibers + Fibers = (r + 1) * Fibers
  BY <1>1
<1>3. i \in Nat /\ i * Rows <= n /\ n < i * Rows + Rows
  BY <1>1, <1>2, Division
<1> HIDE DEF i, n
<1>4. i * Rows \in Nat /\ (i + 1) * Rows = i * Rows + Rows /\ (i + 1) * Rows \in Nat
  BY <1>1, <1>3
<1>5. i < Fibers
  <2>1. i * Rows < Fibers * Rows
    BY <1>1, <1>2, <1>3, <1>4
  <2>2. QED BY <1>1, <1>3, <2>1, Less
<1>6. FirstRow(i) <= r
  <2>1. FirstRow(i) \in Nat /\ FirstRow(i) * Fibers <= i * Rows
    BY <1>1, <1>4, Division DEF FirstRow
  <2>2. FirstRow(i) * Fibers < (r + 1) * Fibers
    BY <1>1, <1>2, <1>3, <1>4, <2>1
  <2>3. FirstRow(i) < r + 1
    BY <1>1, <2>1, <2>2, Less
  <2>4. QED BY <1>1, <2>1, <2>3
<1>7. r < EndRow(i)
  <2>1. EndRow(i) \in Nat /\ (i + 1) * Rows < EndRow(i) * Fibers + Fibers
    BY <1>1, <1>4, Division DEF EndRow
  <2>2. (r + 1) * Fibers < (EndRow(i) + 1) * Fibers
    <3>1. (EndRow(i) + 1) * Fibers = EndRow(i) * Fibers + Fibers /\ EndRow(i) * Fibers \in Nat
      BY <1>1, <2>1
    <3>2. (r + 1) * Fibers - 1 < (i + 1) * Rows /\ (r + 1) * Fibers \in Nat
      BY <1>1, <1>3, <1>4 DEF n
    <3>3. QED BY <1>1, <1>4, <2>1, <3>1, <3>2
  <2>3. r + 1 < EndRow(i) + 1
    BY <1>1, <2>1, <2>2, Less
  <2>4. QED BY <1>1, <2>1, <2>3
<1>8. QED BY <1>1, <1>3, <1>5, <1>6, <1>7 DEF Fiber

LEMMA NodesTyped ==
  /\ Edges = Nodes /\ Nodes \subseteq Nat
  /\ \A n \in Nodes : Row(n) \in RowIds
  /\ \A g \in Graphs : g \in [Edges -> Ends]
<1>1. ASSUME NEW n \in Nodes PROVE Row(n) \in RowIds
  <2>1. n \in Nat /\ RowSize \in Nat /\ RowSize > 0 /\ Rows \in Nat /\ n < Rows * RowSize
    BY SizesHold DEF Sizes, Nodes
  <2>2. Row(n) \in Nat /\ Row(n) * RowSize <= n
    BY <2>1, Division DEF Row
  <2>3. Row(n) * RowSize < Rows * RowSize
    BY <2>1, <2>2
  <2>4. Row(n) < Rows
    BY <2>1, <2>2, <2>3, Less
  <2>5. QED BY <2>1, <2>2, <2>4 DEF RowIds
<1>2. Edges = Nodes /\ Nodes \subseteq Nat
  BY DEF Edges, Nodes
<1>3. QED BY <1>1, <1>2, SolverAssumption DEF SolverAssumption, Ends

\* The numbers that the nodes of a row are given: distinct, and of the same row.
LEMMA Numbering ==
  ASSUME NEW r \in Nat, NEW S \in SUBSET Nat, \A n \in S : Row(n) = r
  PROVE  LET order == SetToSeq(S)
             Number(n) == CHOOSE i \in 1 .. Len(order) : order[i] = n
         IN /\ \A n \in S : /\ Number(n) \in 1 .. RowSize
                            /\ r * RowSize + Number(n) - 1 \in Nat
                            /\ Row(r * RowSize + Number(n) - 1) = r
                            /\ Place(r * RowSize + Number(n) - 1) = Number(n)
                            /\ order[Number(n)] = n
            /\ \A m, n \in S : Number(m) = Number(n) => m = n
            /\ order \in Seq(Nat)
<1> DEFINE order == SetToSeq(S)
           Number(n) == CHOOSE i \in 1 .. Len(order) : order[i] = n
           first == r * RowSize
           last == r * RowSize + RowSize - 1
<1>1. RowSize \in Nat /\ RowSize > 0 /\ first \in Nat /\ last \in Nat /\ last - first + 1 = RowSize
  BY SizesHold DEF Sizes
<1>2. S \subseteq first .. last
  BY <1>1, Division DEF Row
<1>3. IsFiniteSet(S) /\ Cardinality(S) <= RowSize /\ Cardinality(S) \in Nat
  <2>1. IsFiniteSet(first .. last) /\ Cardinality(first .. last) = RowSize
    BY <1>1, FS_Interval
  <2>2. QED BY <1>2, <2>1, FS_Subset, FS_CardinalityType
<1>4. order \in [1 .. Cardinality(S) -> S] /\ IsInjective(order)
  <2>1. PICK f \in Bijection(1 .. Cardinality(S), S) : TRUE
    BY <1>3, FS_CardinalityType DEF ExistsBijection
  <2>2. f \in [1 .. Cardinality(S) -> S] /\ IsInjective(f)
    BY DEF Bijection, Injection, IsInjective
  <2>3. QED BY <2>2 DEF SetToSeq
<1>5. \A n \in S : \E i \in 1 .. Cardinality(S) : order[i] = n
  <2>1. order \in Injection(1 .. Cardinality(S), S)
    BY <1>4 DEF Injection, IsInjective
  <2>2. IsFiniteSet(1 .. Cardinality(S)) /\ Cardinality(1 .. Cardinality(S)) = Cardinality(S)
    BY <1>3, FS_Interval
  <2>3. order \in Surjection(1 .. Cardinality(S), S)
    BY <1>3, <2>1, <2>2, FS_Injection
  <2>4. QED BY <2>3 DEF Surjection
<1>6. Len(order) = Cardinality(S)
  BY <1>3, <1>4
<1> HIDE DEF order, first, last
<1>7. \A n \in S : Number(n) \in 1 .. Cardinality(S) /\ order[Number(n)] = n
  BY <1>5, <1>6
<1> HIDE DEF Number
<1>8. ASSUME NEW n \in S
      PROVE  /\ Number(n) \in 1 .. RowSize
             /\ first + Number(n) - 1 \in Nat /\ Row(first + Number(n) - 1) = r
             /\ Place(first + Number(n) - 1) = Number(n)
  <2>1. Number(n) \in 1 .. RowSize
    BY <1>1, <1>3, <1>7
  <2>2. Number(n) - 1 \in 0 .. RowSize - 1
    BY <1>1, <2>1
  <2>3. (r * RowSize + (Number(n) - 1)) \div RowSize = r
    BY <1>1, <2>2, Quotient
  <2>4. first + Number(n) - 1 = r * RowSize + (Number(n) - 1)
    BY <1>1, <2>1 DEF first
  <2>5. (r * RowSize + (Number(n) - 1)) % RowSize = Number(n) - 1
    BY <1>1, <2>2, Remainder
  <2>6. QED BY <1>1, <2>1, <2>2, <2>3, <2>4, <2>5 DEF Row, Place
<1>9. \A m, n \in S : Number(m) = Number(n) => m = n
  BY <1>7
<1>10. order \in Seq(Nat)
  <2>1. order \in [1 .. Cardinality(S) -> Nat]
    BY <1>4
  <2>2. QED BY <1>3, <2>1
<1>11. QED BY <1>7, <1>8, <1>9, <1>10 DEF first, order, Number

-----------------------------------------------------------------------------
(* Trimming and renaming *)

\* What the trimming starts from, and what renaming keeps: a node stays in its row, and
\* edges that met still meet, in the same nodes and in no others.
Renamed ==
  /\ graph \in Graphs /\ alive \subseteq Edges /\ names \in [Edges -> [u : Nat, v : Nat]]
  /\ phase = 1 => names = graph
  /\ pc = "idle" => phase = 1
  /\ \A e \in Edges, side \in Sides : Row(names[e][side]) = Row(graph[e][side])
  /\ \A d, e \in alive, side \in Sides :
       names[d][side] = names[e][side] <=> graph[d][side] = graph[e][side]

\* Fiber f has been through row r, or will be.
Covers(f, r) ==
  \/ RowEdges(r) \subseteq alive
  \/ \E w \in Working : busy[w].fiber = f /\ busy[w].row <= r

\* While the edges are generated those of the rows that have been processed are there.
Generated ==
  ~cancel /\ phase = 1 /\ Running =>
    \A f \in Fiber, r \in RowIds :
      (\E i \in 1 .. consumed : queue[i].fiber = f) /\ FirstRow(f) <= r /\ r < EndRow(f) =>
        Covers(f, r)

CoreInv ==
  /\ Renamed /\ Generated
  /\ ~cancel /\ phase > 1 /\ (Running \/ pc \in Resting) => Core[graph] \subseteq alive

LEMMA CoreDoubled ==
  ASSUME NEW g \in Graphs, NEW e \in Core[g], NEW side \in Sides
  PROVE  e \in Edges /\ \E d \in Core[g] \ {e} : g[d][side] = g[e][side]
<1>1. Core[g] = UNION {C \in SUBSET Edges : Doubled(g, C)}
  BY DEF Core
<1>2. PICK C \in SUBSET Edges : Doubled(g, C) /\ e \in C
  BY <1>1
<1>3. PICK d \in C \ {e} : g[d][side] = g[e][side]
  BY <1>2 DEF Doubled
<1>4. QED BY <1>1, <1>2, <1>3

\* Edges of the core meet others of it, and so no row that is trimmed loses one.
LEMMA CoreInKept ==
  ASSUME Renamed, Core[graph] \subseteq alive, NEW side \in Sides, NEW r
  PROVE  Core[graph] \cap Column(side, r) \subseteq Kept(Column(side, r), side)
<1> SUFFICES ASSUME NEW e \in Core[graph], e \in Column(side, r)
             PROVE  e \in Kept(Column(side, r), side)
  OBVIOUS
<1>1. PICK d \in Core[graph] \ {e} : graph[d][side] = graph[e][side]
  BY CoreDoubled DEF Renamed
<1>2. d \in alive /\ e \in alive /\ names[d][side] = names[e][side]
  BY <1>1 DEF Renamed
<1>3. d \in Column(side, r)
  BY <1>2 DEF Column
<1>4. QED BY <1>1, <1>2, <1>3 DEF Kept

LEMMA TrimKeeps ==
  ASSUME Renamed, NEW side \in Sides, NEW r, TrimEdges(side, r), graph' = graph,
         phase' = phase, pc' = pc
  PROVE  /\ Renamed'
         /\ Core[graph] \subseteq alive => Core[graph] \subseteq alive'
<1>1. alive' = alive \ (Column(side, r) \ Kept(Column(side, r), side)) /\ names' = names
  BY DEF TrimEdges
<1>2. Renamed'
  BY <1>1 DEF Renamed
<1>3. QED BY <1>1, <1>2, CoreInKept

LEMMA RenameKeeps ==
  ASSUME Renamed, NEW side \in Sides, NEW r \in Nat, NEW stage, TrimRename(side, r, stage),
         phase > 1, graph' = graph, phase' = phase, pc' = pc
  PROVE  /\ Renamed'
         /\ Core[graph] \subseteq alive => Core[graph] \subseteq alive'
<1> DEFINE K == Kept(Column(side, r), side)
           S == {names[e][side] : e \in K}
           order == SetToSeq(S)
           Number(n) == CHOOSE i \in 1 .. Len(order) : order[i] = n
           Named(e) == r * RowSize + Number(names[e][side]) - 1
<1>1. /\ alive' = alive \ (Column(side, r) \ K)
      /\ names' = [e \in Edges |-> IF e \in K THEN [names[e] EXCEPT ![side] = Named(e)] ELSE names[e]]
  BY DEF TrimRename
<1>2. Core[graph] \subseteq alive => Core[graph] \subseteq alive'
  BY <1>1, CoreInKept
<1>3. /\ K \subseteq Column(side, r) /\ Column(side, r) \subseteq alive /\ alive \subseteq Edges
      /\ \A e \in alive : e \in Column(side, r) <=> Row(names[e][side]) = r
  BY DEF Kept, Column, Renamed
<1>4. \A e \in Edges, s \in Sides : names[e] \in [u : Nat, v : Nat] /\ names[e][s] \in Nat
  BY DEF Renamed, Sides
<1>5. S \in SUBSET Nat /\ \A n \in S : Row(n) = r
  BY <1>3, <1>4
<1> HIDE DEF K, S
<1>6. /\ \A n \in S : /\ Number(n) \in 1 .. RowSize /\ r * RowSize + Number(n) - 1 \in Nat
                      /\ Row(r * RowSize + Number(n) - 1) = r
      /\ \A m, n \in S : Number(m) = Number(n) => m = n
  BY <1>5, Numbering, ZenonT(60)
<1> HIDE DEF Number, order
<1>7. \A e \in K : Named(e) \in Nat /\ Row(Named(e)) = r
  BY <1>6 DEF S
<1>8. \A d, e \in K : Named(d) = Named(e) => names[d][side] = names[e][side]
  <2>1. RowSize \in Nat /\ r * RowSize \in Nat
    BY SizesHold DEF Sizes
  <2>2. QED BY <1>6, <2>1 DEF S
<1>9. \A d, e \in K : names[d][side] = names[e][side] => Named(d) = Named(e)
  OBVIOUS
<1> HIDE DEF Named
<1>10. ASSUME NEW e \in Edges
       PROVE  /\ names'[e] \in [u : Nat, v : Nat]
              /\ names'[e][side] = IF e \in K THEN Named(e) ELSE names[e][side]
              /\ \A s \in Sides \ {side} : names'[e][s] = names[e][s]
  BY <1>1, <1>4, <1>7 DEF Sides
<1>11. names' \in [Edges -> [u : Nat, v : Nat]]
  BY <1>1, <1>10
<1>12. ASSUME NEW e \in Edges, NEW s \in Sides
       PROVE  Row(names'[e][s]) = Row(graph[e][s])
  <2>1. Row(names[e][s]) = Row(graph[e][s])
    BY DEF Renamed
  <2>2. CASE s = side /\ e \in K
    BY <1>3, <1>7, <1>10, <2>1, <2>2
  <2>3. CASE ~(s = side /\ e \in K)
    BY <1>10, <2>1, <2>3
  <2>4. QED BY <2>2, <2>3
<1>13. ASSUME NEW d \in alive', NEW e \in alive', NEW s \in Sides
       PROVE  names'[d][s] = names'[e][s] <=> graph[d][s] = graph[e][s]
  <2>1. /\ d \in alive /\ e \in alive /\ d \in Edges /\ e \in Edges
        /\ d \in K \/ d \notin Column(side, r)
        /\ e \in K \/ e \notin Column(side, r)
    BY <1>1, <1>3
  <2>2. names[d][s] = names[e][s] <=> graph[d][s] = graph[e][s]
    BY <2>1 DEF Renamed
  <2>3. CASE s # side
    BY <1>10, <2>1, <2>2, <2>3
  <2>4. CASE s = side
    <3>1. CASE d \in K /\ e \in K
      BY <1>8, <1>9, <1>10, <2>1, <2>2, <2>4, <3>1
    <3>2. CASE d \notin K /\ e \notin K
      BY <1>10, <2>1, <2>2, <2>4, <3>2
    <3>3. CASE d \in K /\ e \notin K
      BY <1>3, <1>7, <1>10, <2>1, <2>2, <2>4, <3>3
    <3>4. CASE d \notin K /\ e \in K
      BY <1>3, <1>7, <1>10, <2>1, <2>2, <2>4, <3>4
    <3>5. QED BY <3>1, <3>2, <3>3, <3>4
  <2>5. QED BY <2>3, <2>4
<1>14. alive' \subseteq Edges
  BY <1>1, <1>3
<1>15. Renamed'
  <2>1. graph' \in Graphs /\ phase' # 1 /\ pc' # "idle"
    BY DEF Renamed
  <2>2. QED BY <1>11, <1>12, <1>13, <1>14, <2>1 DEF Renamed
<1>16. QED BY <1>2, <1>15

LEMMA Fresh ==
  ASSUME NEW g \in Graphs, graph' = g, names' = g, alive' \subseteq Edges, phase' = 1
  PROVE  Renamed'
<1>1. \A e \in Edges : g[e] \in [u : Nat, v : Nat]
  BY NodesTyped DEF Ends
<1>2. g \in [Edges -> [u : Nat, v : Nat]]
  BY <1>1, NodesTyped
<1>3. QED BY <1>2 DEF Renamed

LEMMA CoreInit == Init => CoreInv
<1> SUFFICES ASSUME Init PROVE CoreInv
  OBVIOUS
<1>1. /\ pc = "idle" /\ phase = 1 /\ graph \in Graphs /\ names = graph /\ alive = {}
  BY DEF Init
<1>2. names \in [Edges -> [u : Nat, v : Nat]]
  <2>1. \A e \in Edges : graph[e] \in [u : Nat, v : Nat]
    BY <1>1, NodesTyped DEF Ends
  <2>2. QED BY <1>1, <2>1, NodesTyped
<1>3. QED BY <1>1, <1>2 DEF CoreInv, Renamed, Generated, Running

\* A row of the first phase.
LEMMA CoreGen ==
  ASSUME PoolInv, CoreInv, NEW w \in Workers, Step(w), phase = 1
  PROVE  CoreInv'
<1> DEFINE row == busy[w].row
<1>1. /\ busy[w] # Idle /\ busy' = [busy EXCEPT ![w].row = @ + 1]
      /\ ProcessRow(busy[w].phase, row)
      /\ UNCHANGED <<pc, phase, queue, consumed, cancel, graph>>
  BY DEF Step, control, fixed, counters
<1>2. /\ Running /\ busy[w].phase = 1 /\ w \in Working
  BY <1>1 DEF PoolInv, Barrier, Still, Taken, Working
<1>3. alive' = alive \cup RowEdges(row) /\ names' = names
  BY <1>1, <1>2 DEF ProcessRow, GenUnodes
<1>4. Renamed'
  <2>1. graph' = graph /\ names' = graph /\ graph \in Graphs /\ phase' = 1
    BY <1>1, <1>3 DEF CoreInv, Renamed
  <2>2. alive' \subseteq Edges
    BY <1>3 DEF CoreInv, Renamed, RowEdges
  <2>3. QED BY <2>1, <2>2, Fresh
<1>5. busy[w] \in [fiber : Fiber, phase : Phases, row : Nat] /\ row \in Nat
  BY <1>1 DEF PoolInv, PoolType
<1>6. /\ \A x \in Workers \ {w} : busy'[x] = busy[x]
      /\ busy'[w].fiber = busy[w].fiber /\ busy'[w].row = row + 1 /\ busy'[w].phase = 1
  BY <1>1, <1>2, <1>5 DEF PoolInv, PoolType
<1>7. \A x \in Working : x \in Working'
  BY <1>6 DEF Working, Idle
<1>8. ASSUME NEW f, NEW r \in RowIds, Covers(f, r) PROVE Covers(f, r)'
  <2>1. CASE RowEdges(r) \subseteq alive
    BY <1>3, <2>1 DEF Covers, RowEdges
  <2>2. CASE \E x \in Working : busy[x].fiber = f /\ busy[x].row <= r
    <3>1. PICK x \in Working : busy[x].fiber = f /\ busy[x].row <= r
      BY <2>2
    <3>2. CASE x # w
      BY <1>6, <1>7, <3>1, <3>2 DEF Covers, Working
    <3>3. CASE x = w /\ row = r
      BY <1>3, <3>3 DEF Covers, RowEdges
    <3>4. CASE x = w /\ row # r
      <4>1. row + 1 <= r
        BY <1>5, <3>1, <3>4 DEF RowIds
      <4>2. QED BY <1>6, <1>7, <3>1, <3>4, <4>1 DEF Covers
    <3>5. QED BY <3>2, <3>3, <3>4
  <2>3. QED BY <1>8, <2>1, <2>2 DEF Covers
<1>9. Generated'
  <2> SUFFICES ASSUME ~cancel, NEW f \in Fiber, NEW r \in RowIds,
                      \E i \in 1 .. consumed : queue[i].fiber = f,
                      FirstRow(f) <= r, r < EndRow(f)
               PROVE  Covers(f, r)'
    BY <1>1 DEF Generated
  <2>1. Covers(f, r)
    BY <1>2 DEF CoreInv, Generated
  <2>2. QED BY <1>8, <2>1
<1>10. QED BY <1>1, <1>4, <1>9 DEF CoreInv

LEMMA CoreStep == ASSUME PoolInv, CoreInv, NEW w \in Workers, Step(w) PROVE CoreInv'
<1>1. /\ busy[w] # Idle /\ ProcessRow(busy[w].phase, busy[w].row)
      /\ UNCHANGED <<pc, phase, cancel, graph>>
  BY DEF Step, control, fixed, counters
<1>2. /\ Running /\ busy[w].phase = phase /\ busy[w].row \in Nat /\ phase \in Nat
  BY <1>1 DEF PoolInv, PoolType, Barrier, Still, Taken, Working, Phases
<1>3. CASE phase = 1
  BY <1>3, CoreGen
<1>4. CASE phase # 1
  <2>1. phase > 1 /\ Side(phase) \in Sides /\ Renamed
    BY <1>2, <1>4 DEF PoolInv, PoolType, Phases, Side, Sides, CoreInv
  <2>2. \/ MatchRow(busy[w].row)
        \/ TrimRename(Side(phase), busy[w].row, Stage(phase))
        \/ TrimEdges(Side(phase), busy[w].row)
    BY <1>1, <1>2, <1>4 DEF ProcessRow
  <2>3. Renamed' /\ (Core[graph] \subseteq alive => Core[graph] \subseteq alive')
    <3>1. CASE MatchRow(busy[w].row)
      BY <1>1, <2>1, <3>1 DEF MatchRow, buckets, Renamed
    <3>2. CASE TrimRename(Side(phase), busy[w].row, Stage(phase))
      BY <1>1, <1>2, <2>1, <3>2, RenameKeeps
    <3>3. CASE TrimEdges(Side(phase), busy[w].row)
      BY <1>1, <2>1, <3>3, TrimKeeps
    <3>4. QED BY <2>2, <3>1, <3>2, <3>3
  <2>4. QED BY <1>1, <1>2, <1>4, <2>1, <2>3 DEF CoreInv, Generated, Running
<1>5. QED BY <1>3, <1>4

LEMMA CoreTake == ASSUME PoolInv, CoreInv, NEW w \in Workers, Take(w) PROVE CoreInv'
<1>1. /\ busy[w] = Idle /\ consumed' = consumed + 1 /\ consumed < Len(queue)
      /\ UNCHANGED <<pc, phase, queue, cancel, graph, alive, names>>
      /\ LET item == queue[consumed + 1]
         IN busy' = [busy EXCEPT ![w] =
              [fiber |-> item.fiber, phase |-> item.phase, row |-> FirstRow(item.fiber)]]
  BY DEF Take, Ready, control, buckets
<1>2. Renamed'
  BY <1>1 DEF CoreInv, Renamed
<1>3. Generated'
  <2> SUFFICES ASSUME ~cancel, phase = 1, Running, NEW f \in Fiber, NEW r \in RowIds,
                      \E i \in 1 .. consumed + 1 : queue[i].fiber = f,
                      FirstRow(f) <= r, r < EndRow(f)
               PROVE  Covers(f, r)'
    BY <1>1 DEF Generated, Running
  <2>1. consumed \in Nat /\ Len(queue) \in Nat /\ consumed + 1 \in 1 .. Len(queue)
    BY <1>1 DEF PoolInv, PoolType
  <2>2. busy'[w].fiber = queue[consumed + 1].fiber /\ busy'[w].row = FirstRow(queue[consumed + 1].fiber)
        /\ busy'[w].phase = queue[consumed + 1].phase
        /\ \A x \in Workers \ {w} : busy'[x] = busy[x]
    BY <1>1 DEF PoolInv, PoolType
  <2>3. queue[consumed + 1].phase = 1
    BY <2>1 DEF PoolInv, Barrier, Queued
  <2>4. w \in Working' /\ w \notin Working /\ \A x \in Working : x \in Working'
    BY <1>1, <2>2, <2>3 DEF Working, Idle
  <2>5. CASE queue[consumed + 1].fiber = f
    BY <1>1, <2>2, <2>4, <2>5 DEF Covers
  <2>6. CASE \E i \in 1 .. consumed : queue[i].fiber = f
    <3>1. Covers(f, r)
      BY <2>6 DEF CoreInv, Generated
    <3>2. \A x \in Working : busy'[x] = busy[x]
      BY <2>2, <2>4 DEF Working
    <3>3. QED BY <1>1, <2>4, <3>1, <3>2 DEF Covers, RowEdges
  <2>7. QED BY <2>1, <2>5, <2>6
<1>4. QED BY <1>1, <1>2, <1>3 DEF CoreInv, Running

LEMMA CoreFinish == ASSUME PoolInv, CoreInv, NEW w \in Workers, Finish(w) PROVE CoreInv'
<1>1. /\ busy[w] # Idle /\ busy' = [busy EXCEPT ![w] = Idle]
      /\ cancel \/ busy[w].row = EndRow(busy[w].fiber)
      /\ UNCHANGED <<pc, phase, queue, consumed, cancel, graph, alive, names>>
  BY DEF Finish, control, buckets
<1>2. Renamed'
  BY <1>1 DEF CoreInv, Renamed
<1>3. Generated'
  <2> SUFFICES ASSUME ~cancel, phase = 1, Running, NEW f \in Fiber, NEW r \in RowIds,
                      \E i \in 1 .. consumed : queue[i].fiber = f,
                      FirstRow(f) <= r, r < EndRow(f)
               PROVE  Covers(f, r)'
    BY <1>1 DEF Generated, Running
  <2>1. Covers(f, r)
    BY DEF CoreInv, Generated
  <2>2. \A x \in Workers \ {w} : busy'[x] = busy[x]
    BY <1>1 DEF PoolInv, PoolType
  <2>3. CASE RowEdges(r) \subseteq alive
    BY <1>1, <2>3 DEF Covers, RowEdges
  <2>4. CASE \E x \in Working : busy[x].fiber = f /\ busy[x].row <= r
    <3>1. PICK x \in Working : busy[x].fiber = f /\ busy[x].row <= r
      BY <2>4
    <3>2. x # w
      <4>1. busy[w].row \in Nat /\ r \in Nat
        BY <1>1 DEF PoolInv, PoolType, RowIds
      <4>2. QED BY <1>1, <3>1, <4>1
    <3>3. x \in Working' /\ busy'[x] = busy[x]
      BY <2>2, <3>1, <3>2 DEF Working
    <3>4. QED BY <1>1, <3>1, <3>3 DEF Covers
  <2>5. QED BY <2>1, <2>3, <2>4 DEF Covers
<1>4. QED BY <1>1, <1>2, <1>3 DEF CoreInv, Running

LEMMA CoreDispatch ==
  ASSUME PoolInv, CoreInv, Begin \/ Dispatch \/ Join
  PROVE  CoreInv'
<1>1. UNCHANGED <<phase, graph, alive, names, cancel, busy>> /\ pc' \in {"dispatch", "wait"}
      /\ pc \in {"begin", "dispatch"}
  BY DEF Begin, Dispatch, Join, buckets, control
<1>2. Renamed'
  BY <1>1 DEF CoreInv, Renamed
<1>3. \/ consumed' = 0
      \/ Running /\ consumed' = consumed /\ \A i \in 1 .. consumed : queue'[i] = queue[i]
  <2>1. CASE Begin
    BY <2>1 DEF Begin
  <2>2. CASE Join
    BY <2>2 DEF Join, Running
  <2>3. CASE Dispatch /\ queue' = queue
    BY <2>3 DEF Dispatch, Running, control
  <2>4. CASE Dispatch /\ Enqueue
    <3>1. Running /\ consumed' = consumed /\ queue' = Append(queue, [fiber |-> sent, phase |-> phase])
      BY <2>4 DEF Dispatch, Running, control, Enqueue
    <3>2. \A i \in 1 .. consumed : i \in 1 .. Len(queue)
      BY <3>1 DEF PoolInv, PoolType, Barrier, Queued
    <3>3. QED BY <3>1, <3>2 DEF PoolInv, PoolType
  <2>5. QED BY <2>1, <2>2, <2>3, <2>4 DEF Dispatch, EnqueueFails
<1>4. Generated'
  <2> SUFFICES ASSUME ~cancel, phase = 1, NEW f \in Fiber, NEW r \in RowIds,
                      \E i \in 1 .. consumed' : queue'[i].fiber = f,
                      FirstRow(f) <= r, r < EndRow(f)
               PROVE  Covers(f, r)'
    BY <1>1 DEF Generated
  <2>1. Running /\ \E i \in 1 .. consumed : queue[i].fiber = f
    BY <1>3
  <2>2. Covers(f, r)
    BY <2>1 DEF CoreInv, Generated
  <2>3. QED BY <1>1, <2>2 DEF Covers, RowEdges, Working
<1>5. QED BY <1>1, <1>2, <1>4 DEF CoreInv, Running, Resting

\* When the first phase is over every row has been processed.
LEMMA AllGenerated ==
  ASSUME PoolInv, CoreInv, pc = "wait", done, ~cancel, phase = 1
  PROVE  alive = Edges
<1>1. Working = {} /\ consumed = Fibers /\ Len(queue) = Fibers /\ sent = Fibers
  BY DoneMeansStill DEF Running
<1>2. \A f \in Fiber : \E i \in 1 .. consumed : queue[i].fiber = f
  <2> SUFFICES ASSUME NEW f \in Fiber PROVE f + 1 \in 1 .. consumed /\ queue[f + 1].fiber = f
    OBVIOUS
  <2>1. Fibers \in Nat /\ f \in Nat /\ f + 1 \in 1 .. Len(queue) /\ f + 1 \in 1 .. consumed
    BY <1>1, SizesHold DEF Fiber, Sizes
  <2>2. /\ queue[f + 1].fiber \in Int /\ (f + 1) - 1 <= queue[f + 1].fiber
        /\ queue[f + 1].fiber + Len(queue) + 1 <= sent + (f + 1)
    BY <2>1, ItemsTyped DEF PoolInv, Barrier, Running, Queued
  <2>3. QED BY <1>1, <2>1, <2>2
<1>3. ASSUME NEW e \in Edges PROVE e \in alive
  <2>1. Row(e) \in RowIds
    BY NodesTyped
  <2>2. PICK f \in Fiber : FirstRow(f) <= Row(e) /\ Row(e) < EndRow(f)
    BY <2>1, EveryRowHasFiber
  <2>3. Covers(f, Row(e))
    BY <1>2, <2>1, <2>2 DEF CoreInv, Generated, Running
  <2>4. QED BY <1>1, <2>3 DEF Covers, RowEdges
<1>4. QED BY <1>3 DEF CoreInv, Renamed

LEMMA CoreJoined == ASSUME PoolInv, CoreInv, Joined PROVE CoreInv'
<1>1. /\ pc = "wait" /\ done /\ pc' \in {"report", "close", "recover", "begin"}
      /\ UNCHANGED <<graph, alive, names, cancel>>
  BY DEF Joined, buckets
<1>2. phase' # 1 /\ phase' \in Nat
  <2>1. /\ phase \in 1 .. Match /\ Match \in Nat /\ Last1 \in Nat /\ Last1 > 5 /\ Match = Last1 + 1
    BY SizesHold DEF PoolInv, PoolType, Phases, Sizes
  <2>2. \/ phase' = phase /\ phase \in {Match, Last1}
        \/ phase' = After(phase)
    BY DEF Joined
  <2>3. After(phase) \in {Last1 - 1, phase + 1}
    BY DEF After
  <2>4. QED BY <2>1, <2>2, <2>3
<1>3. Renamed'
  BY <1>1, <1>2 DEF CoreInv, Renamed
<1>4. ~cancel => Core[graph] \subseteq alive
  <2>1. CASE phase = 1
    <3>1. Core[graph] \subseteq Edges
      BY DEF CoreInv, Renamed, Core
    <3>2. QED BY <1>1, <2>1, <3>1, AllGenerated
  <2>2. CASE phase # 1
    BY <1>1, <2>2 DEF CoreInv, Running, PoolInv, PoolType, Phases
  <2>3. QED BY <2>1, <2>2
<1>5. QED BY <1>1, <1>2, <1>3, <1>4 DEF CoreInv, Generated

\* Steps that leave the buckets alone, outside a phase.
LEMMA CoreQuiet ==
  ASSUME PoolInv, CoreInv, UNCHANGED <<graph, alive, names>>, ~Running', cancel => cancel',
         \/ phase' = phase /\ pc' # "idle"
         \/ phase' = Match /\ pc' = "begin" /\ phase > 1,
         pc' \in Resting => pc \in Resting
  PROVE  CoreInv'
<1>1. phase \in Nat /\ phase >= 1 /\ Match \in Nat /\ Match > 1
  BY SizesHold DEF PoolInv, PoolType, Phases, Sizes
<1>2. Renamed'
  BY <1>1 DEF CoreInv, Renamed
<1>3. QED BY <1>1, <1>2 DEF CoreInv, Generated

\* Cycles are looked for after the trimming only.
LaterInv == pc \in {"recover", "report"} => phase > 1

LEMMA LaterNext == ASSUME PoolInv, LaterInv, [Next]_vars PROVE LaterInv'
<1>1. CASE UNCHANGED vars
  BY <1>1 DEF vars, control, LaterInv
<1>2. CASE Cancel \/ \E w \in Workers : Work(w)
  <2>1. UNCHANGED <<pc, phase>>
    BY <1>2 DEF Cancel, Work, Take, Step, Finish, Leave, control
  <2>2. QED BY <2>1 DEF LaterInv
<1>3. CASE Joined
  <2>1. \/ pc' = "report" /\ phase' = Match
        \/ pc' = "recover" /\ phase' = Last1
        \/ pc' \in {"close", "begin"}
    BY <1>3 DEF Joined
  <2>2. Match > 1 /\ Last1 > 1
    BY SizesHold DEF Sizes
  <2>3. QED BY <2>1, <2>2 DEF LaterInv
<1>4. CASE Recover
  <2>1. pc = "recover" /\ (pc' \in {"close", "begin"} \/ phase' = phase)
    BY <1>4 DEF Recover, ReadSlot
  <2>2. QED BY <2>1 DEF LaterInv
<1>5. CASE Report
  BY <1>5 DEF Report, LaterInv
<1>6. CASE Attempt \/ InitPool \/ CreateThreads \/ Begin \/ Dispatch \/ Join \/ Stop \/ Stopped \/ Closed
  <2>1. pc' \notin {"recover", "report"}
    BY <1>6 DEF Attempt, InitPool, CreateThreads, Begin, Dispatch, Join, Stop, Stopped, Closed,
       control
  <2>2. QED BY <2>1 DEF LaterInv
<1>7. QED BY <1>1, <1>2, <1>3, <1>4, <1>5, <1>6 DEF Next, Main

LEMMA CoreMain == ASSUME PoolInv, LaterInv, CoreInv, Main PROVE CoreInv'
<1>1. CASE Attempt
  <2>1. /\ pc = "idle" /\ pc' \in {"closed", "init"} /\ phase' = phase /\ alive' = alive
        /\ \E g \in Graphs : graph' = g /\ names' = g
    BY <1>1 DEF Attempt
  <2>2. phase' = 1 /\ alive' \subseteq Edges
    BY <2>1 DEF CoreInv, Renamed
  <2>3. Renamed'
    BY <2>1, <2>2, Fresh
  <2>4. QED BY <2>1, <2>2, <2>3 DEF CoreInv, Generated, Running
<1>2. CASE InitPool
  BY <1>2, CoreQuiet DEF InitPool, buckets, Running, Resting
<1>3. CASE CreateThreads
  BY <1>3, CoreQuiet DEF CreateThreads, buckets, Running, Resting
<1>4. CASE Begin \/ Dispatch \/ Join
  BY <1>4, CoreDispatch
<1>5. CASE Joined
  BY <1>5, CoreJoined
<1>6. CASE Recover
  <2>1. /\ pc = "recover" /\ UNCHANGED <<graph, buckets, cancel>>
        /\ \/ pc' \in {"close", "recover"} /\ phase' = phase
           \/ pc' = "begin" /\ phase' = Match
    BY <1>6 DEF Recover, ReadSlot
  <2>2. phase > 1
    BY <2>1 DEF LaterInv
  <2>3. QED BY <2>1, <2>2, CoreQuiet DEF buckets, Running, Resting
<1>7. CASE Report
  <2>1. /\ pc = "report" /\ UNCHANGED <<graph, buckets, cancel, phase>>
        /\ pc' \in {"close", "recover"}
    BY <1>7 DEF Report
  <2>2. QED BY <2>1, CoreQuiet DEF buckets, Running, Resting
<1>8. CASE Stop
  BY <1>8, CoreQuiet DEF Stop, buckets, Running, Resting
<1>9. CASE Stopped
  BY <1>9, CoreQuiet DEF Stopped, buckets, Running, Resting
<1>10. CASE Closed
  <2>1. /\ pc' \in {"idle", "done"} /\ phase' = 1 /\ alive' = {} /\ graph' = graph /\ names' = graph
    BY <1>10 DEF Closed, Renew
  <2>2. Renamed'
    BY <2>1, Fresh DEF CoreInv, Renamed
  <2>3. QED BY <2>1, <2>2 DEF CoreInv, Generated, Running
<1>11. QED
  BY <1>1, <1>2, <1>3, <1>4, <1>5, <1>6, <1>7, <1>8, <1>9, <1>10 DEF Main

LEMMA CoreNext == PoolInv /\ LaterInv /\ CoreInv /\ [Next]_vars => CoreInv'
<1> SUFFICES ASSUME PoolInv, LaterInv, CoreInv, [Next]_vars PROVE CoreInv'
  OBVIOUS
<1>1. CASE UNCHANGED vars \/ Cancel
  <2>1. UNCHANGED <<pc, phase, graph, alive, names, queue, consumed, busy>> /\ (cancel => cancel')
    BY <1>1 DEF vars, Cancel, control, buckets, counters
  <2>2. Renamed'
    BY <2>1 DEF CoreInv, Renamed
  <2>3. Generated'
    BY <2>1 DEF CoreInv, Generated, Covers, Running, RowEdges, Working
  <2>4. QED BY <2>1, <2>2, <2>3 DEF CoreInv, Running
<1>2. CASE Main
  BY <1>2, CoreMain
<1>3. ASSUME NEW w \in Workers, Work(w) PROVE CoreInv'
  <2>1. CASE Leave(w)
    <3>1. /\ UNCHANGED <<pc, phase, graph, alive, names, cancel>> /\ ~Running /\ pc \in Ending
      BY <2>1, Unset DEF Leave, control, buckets, Running, Ending
    <3>2. QED BY <3>1, CoreQuiet DEF Running, Resting, Ending
  <2>2. QED BY <1>3, <2>1, CoreStep, CoreTake, CoreFinish DEF Work
<1>4. QED BY <1>1, <1>2, <1>3 DEF Next

\* The edges of a cycle are among those that are kept.
LEMMA CyclesInCore ==
  ASSUME NEW g \in Graphs, NEW C \in Cycles[g]
  PROVE  C \subseteq Core[g]
<1>1. C \in SUBSET Edges /\ Regular(g, C)
  BY DEF Cycles, SingleCycle
<1>2. ASSUME NEW e \in C, NEW side \in Sides
      PROVE  \E d \in C \ {e} : g[d][side] = g[e][side]
  <2> DEFINE Met == {d \in C \ {e} : g[d][side] = g[e][side]}
  <2>1. Cardinality(Met) = 1
    BY <1>1 DEF Regular
  <2>2. Met # {}
    <3> HIDE DEF Met
    <3>1. Cardinality({}) # 1
      BY FS_EmptySet
    <3>2. QED BY <2>1, <3>1
  <2>3. QED BY <2>2
<1>3. Doubled(g, C)
  BY <1>2 DEF Doubled
<1>4. QED BY <1>1, <1>3 DEF Core

\* Trimming and renaming keep every edge that meets another of these at both ends, and so
\* every cycle, with any number of fibers, rows and rounds and in whichever order the rows
\* are processed.
THEOREM CyclesOutlastTrimming == Spec => []CoreKept
<1>1. Init => PoolInv /\ LaterInv /\ CoreInv
  BY PoolInit, CoreInit DEF LaterInv, Init
<1>2. PoolInv /\ LaterInv /\ CoreInv /\ [Next]_vars => (PoolInv /\ LaterInv /\ CoreInv)'
  BY PoolNext, LaterNext, CoreNext
<1>3. CoreInv => CoreKept
  BY DEF CoreInv, CoreKept, Running, Resting
<1>4. QED BY <1>1, <1>2, <1>3, PTL DEF Spec

-----------------------------------------------------------------------------
(* Least numbers, pairs, and cycles walked through *)

LEMMA LeastOf ==
  ASSUME NEW T \in SUBSET Nat, T # {}
  PROVE  \E x \in T : \A y \in T : x <= y
<1> DEFINE D == {0 .. x : x \in T}
           R == StrictSubsetOrdering(Nat)
<1>1. D \subseteq FiniteSubsetsOf(Nat) /\ D # {}
  <2>1. \A x \in T : 0 .. x \in FiniteSubsetsOf(Nat)
    BY FS_Interval DEF FiniteSubsetsOf
  <2>2. QED BY <2>1
<1>2. PICK d \in D : \A e \in D : <<e, d>> \notin R
  <2> HIDE DEF D, R
  <2>1. IsWellFoundedOn(R, FiniteSubsetsOf(Nat))
    BY FS_StrictSubsetOrderingWellFounded DEF R
  <2>2. QED BY <1>1, <2>1, WFMin
<1>3. PICK x \in T : d = 0 .. x
  BY <1>2
<1>4. ASSUME NEW y \in T, y < x PROVE FALSE
  <2>1. 0 .. y \in D /\ 0 .. y \subseteq 0 .. x /\ x \in 0 .. x /\ x \notin 0 .. y
    BY <1>4
  <2>2. <<0 .. y, d>> \in R
    BY <1>3, <2>1 DEF StrictSubsetOrdering
  <2>3. QED BY <1>2, <2>1, <2>2
<1>5. QED BY <1>4

LEMMA Counting ==
  ASSUME NEW n \in Nat
  PROVE  IsFiniteSet(0 .. n - 1) /\ Cardinality(0 .. n - 1) = n
<1>1. 0 \in Int /\ n - 1 \in Int
  OBVIOUS
<1>2. IsFiniteSet(0 .. n - 1) /\ Cardinality(0 .. n - 1) = IF 0 > n - 1 THEN 0 ELSE (n - 1) - 0 + 1
  BY <1>1, FS_Interval
<1>3. QED BY <1>2

\* What pairs up is even.
LEMMA PairsAreEven ==
  ASSUME NEW X, IsFiniteSet(X), NEW q \in [X -> X],
         \A x \in X : q[x] # x /\ q[q[x]] = x
  PROVE  Cardinality(X) % 2 = 0
<1> DEFINE Paired(T) == \A x \in T : q[x] \in T
           Bad == {T \in SUBSET X : Paired(T) /\ Cardinality(T) % 2 # 0}
           R == StrictSubsetOrdering(X)
<1>1. SUFFICES ASSUME Bad # {} PROVE FALSE
  <2>1. Paired(X)
    OBVIOUS
  <2>2. QED BY <2>1
<1>2. PICK T \in Bad : \A U \in Bad : <<U, T>> \notin R
  <2>1. Bad \subseteq FiniteSubsetsOf(X)
    BY FS_Subset DEF FiniteSubsetsOf
  <2> HIDE DEF Bad, R
  <2>2. IsWellFoundedOn(R, FiniteSubsetsOf(X))
    BY FS_StrictSubsetOrderingWellFounded DEF R
  <2>3. QED BY <1>1, <2>1, <2>2, WFMin
<1>3. T \in SUBSET X /\ IsFiniteSet(T) /\ Paired(T) /\ Cardinality(T) \in Nat
      /\ Cardinality(T) % 2 # 0
  BY <1>2, FS_Subset, FS_CardinalityType
<1>4. PICK x \in T : TRUE
  BY <1>3, FS_EmptySet
<1> DEFINE W == T \ {x}
           U == W \ {q[x]}
<1>5. q[x] \in W
  BY <1>3, <1>4
<1>6. IsFiniteSet(U) /\ Cardinality(U) = Cardinality(T) - 2
  <2>1. IsFiniteSet(W) /\ Cardinality(W) = Cardinality(T) - 1
    BY <1>3, <1>4, FS_RemoveElement
  <2> HIDE DEF W
  <2>2. IsFiniteSet(U) /\ Cardinality(U) = Cardinality(W) - 1
    BY <1>5, <2>1, FS_RemoveElement
  <2>3. QED BY <1>3, <2>1, <2>2
<1>7. Cardinality(U) \in Nat /\ Cardinality(U) % 2 # 0
  BY <1>3, <1>6, FS_CardinalityType
<1>8. Paired(U)
  <2> SUFFICES ASSUME NEW y \in U PROVE q[y] \in U
    OBVIOUS
  <2>1. y \in T /\ y # x /\ y # q[x] /\ q[y] \in T /\ q[q[y]] = y /\ q[q[x]] = x
    BY <1>3, <1>4
  <2>2. q[y] # x /\ q[y] # q[x]
    BY <2>1
  <2>3. QED BY <2>1, <2>2
<1>9. U \in Bad /\ U \subseteq T /\ U # T
  BY <1>3, <1>4, <1>7, <1>8
<1>10. <<U, T>> \in R
  BY <1>3, <1>9 DEF StrictSubsetOrdering
<1>11. QED BY <1>2, <1>9, <1>10

\* What goes on from each value to the next.
Follows(at, n, z, f) == at[0] = z /\ \A s \in 1 .. n : at[s] = f[at[s - 1]]

LEMMA Iterates ==
  ASSUME NEW n \in Nat, NEW X, NEW z \in X, NEW f \in [X -> X]
  PROVE  \E at \in [0 .. n -> X] : Follows(at, n, z, f)
<1> DEFINE Good(m, at) == Follows(at, m, z, f)
           T == {m \in 0 .. n : ~\E at \in [0 .. m -> X] : Good(m, at)}
<1>1. SUFFICES ASSUME T # {} PROVE FALSE
  OBVIOUS
<1>2. PICK m \in T : \A k \in T : m <= k
  <2>1. T \in SUBSET Nat
    OBVIOUS
  <2> HIDE DEF T
  <2>2. QED BY <1>1, <2>1, LeastOf
<1>3. m # 0
  <2>1. SUFFICES ASSUME m = 0 PROVE FALSE
    OBVIOUS
  <2> DEFINE at == [s \in 0 .. 0 |-> z]
  <2>2. at \in [0 .. 0 -> X] /\ Good(0, at)
    BY DEF Follows
  <2>3. QED BY <1>2, <2>1, <2>2
<1>4. m - 1 \in 0 .. n /\ m \in 0 .. n /\ m - 1 \notin T
  <2>1. m \in 0 .. n /\ m - 1 \in 0 .. n
    BY <1>2, <1>3
  <2>2. T \subseteq Int /\ ~(m <= m - 1)
    BY <2>1
  <2> HIDE DEF T
  <2>3. QED BY <1>2, <2>1, <2>2
<1>5. PICK old \in [0 .. m - 1 -> X] : Good(m - 1, old)
  BY <1>4
<1> DEFINE new == [s \in 0 .. m |-> IF s = m THEN f[old[m - 1]] ELSE old[s]]
<1>6. new \in [0 .. m -> X] /\ Good(m, new)
  <2>1. new \in [0 .. m -> X]
    BY <1>4, <1>5
  <2>2. \A s \in 0 .. m - 1 : new[s] = old[s]
    BY <1>4
  <2>3. new[m] = f[old[m - 1]] /\ new[0] = z
    BY <1>3, <1>4, <1>5 DEF Follows
  <2> HIDE DEF new
  <2>4. ASSUME NEW s \in 1 .. m PROVE new[s] = f[new[s - 1]]
    <3>1. CASE s = m
      BY <1>4, <2>2, <2>3, <3>1
    <3>2. CASE s # m
      <4>1. s \in 1 .. m - 1 /\ s \in 0 .. m - 1 /\ s - 1 \in 0 .. m - 1
        BY <1>4, <3>2
      <4>2. QED BY <1>5, <2>2, <4>1 DEF Follows
    <3>3. QED BY <3>1, <3>2
  <2>5. QED BY <2>1, <2>3, <2>4 DEF Follows
<1>7. QED BY <1>2, <1>6

\* The edges of a set, in order.
LEMMA AscendingIs ==
  ASSUME NEW C \in SUBSET Nat, IsFiniteSet(C)
  PROVE  /\ Cardinality(C) \in Nat /\ Ascending(C) \in [1 .. Cardinality(C) -> C]
         /\ Len(Ascending(C)) = Cardinality(C)
         /\ \A i, j \in 1 .. Cardinality(C) : i < j => Ascending(C)[i] < Ascending(C)[j]
         /\ \A x \in C : \E i \in 1 .. Cardinality(C) : Ascending(C)[i] = x
<1> DEFINE n == Cardinality(C)
           Below(x) == {y \in C : y < x}
           rank == [x \in C |-> Cardinality(Below(x))]
           At(i) == CHOOSE x \in C : Cardinality({y \in C : y < x}) = i - 1
           c == Ascending(C)
<1>1. n \in Nat
  BY FS_CardinalityType
<1>2. \A x \in C : IsFiniteSet(Below(x)) /\ Cardinality(Below(x)) \in Nat
  BY FS_Subset, FS_CardinalityType
<1>3. ASSUME NEW x \in C PROVE rank[x] \in 0 .. n - 1
  <2>1. IsFiniteSet(C \ {x}) /\ Cardinality(C \ {x}) = n - 1
    BY FS_RemoveElement
  <2>2. Below(x) \subseteq C \ {x}
    OBVIOUS
  <2>3. Cardinality(Below(x)) <= n - 1
    <3> HIDE DEF Below
    <3>1. QED BY <2>1, <2>2, FS_Subset
  <2>4. QED BY <1>1, <1>2, <2>3
<1>4. ASSUME NEW x \in C, NEW y \in C, x < y PROVE rank[x] < rank[y]
  <2>1. Below(x) \cup {x} \subseteq Below(y) /\ x \notin Below(x)
    <3>1. x \in Nat /\ y \in Nat /\ ~(x < x)
      OBVIOUS
    <3>2. \A z \in C : z \in Nat /\ (z < x => z < y)
      BY <1>4, <3>1
    <3>3. QED BY <1>4, <3>1, <3>2
  <2>2. Cardinality(Below(x) \cup {x}) = Cardinality(Below(x)) + 1
    <3> HIDE DEF Below
    <3>1. QED BY <1>2, <2>1, FS_AddElement
  <2>3. Cardinality(Below(x) \cup {x}) <= Cardinality(Below(y))
    <3> HIDE DEF Below
    <3>1. QED BY <1>2, <2>1, FS_Subset
  <2>4. /\ rank[x] = Cardinality(Below(x)) /\ rank[y] = Cardinality(Below(y))
        /\ rank[x] \in Nat /\ rank[y] \in Nat
    BY <1>2
  <2> HIDE DEF rank, Below
  <2>5. QED BY <2>2, <2>3, <2>4
<1>5. rank \in Injection(C, 0 .. n - 1)
  <2>1. rank \in [C -> 0 .. n - 1]
    BY <1>3
  <2>2. ASSUME NEW x \in C, NEW y \in C, rank[x] = rank[y] PROVE x = y
    <3> HIDE DEF rank
    <3>1. x \in Nat /\ y \in Nat /\ rank[x] \in Int /\ rank[y] \in Int
      BY <1>1, <1>3
    <3>2. x < y => rank[x] < rank[y]
      BY <1>4
    <3>3. y < x => rank[y] < rank[x]
      BY <1>4
    <3>4. QED BY <2>2, <3>1, <3>2, <3>3
  <2> HIDE DEF rank
  <2>3. QED BY <2>1, <2>2 DEF Injection, IsInjective
<1>6. \A k \in 0 .. n - 1 : \E x \in C : rank[x] = k
  <2>1. IsFiniteSet(0 .. n - 1) /\ Cardinality(0 .. n - 1) = n
    <3> HIDE DEF n
    <3>1. 0 \in Int /\ n - 1 \in Int /\ (0 > n - 1 => n = 0) /\ n - 1 - 0 + 1 = n
      BY <1>1
    <3>2. QED BY <3>1, FS_Interval
  <2> HIDE DEF rank
  <2>2. rank \in Surjection(C, 0 .. n - 1)
    BY <1>5, <2>1, FS_Injection
  <2>3. QED BY <2>2 DEF Surjection
<1>7. c = [i \in 1 .. n |-> At(i)]
  BY DEF Ascending
<1>8. \A i \in 1 .. n : c[i] \in C /\ rank[c[i]] = i - 1
  <2> SUFFICES ASSUME NEW i \in 1 .. n PROVE c[i] \in C /\ rank[c[i]] = i - 1
    OBVIOUS
  <2>1. i - 1 \in 0 .. n - 1
    BY <1>1
  <2>2. \A x \in C : rank[x] = Cardinality({y \in C : y < x})
    <3> SUFFICES ASSUME NEW x \in C PROVE rank[x] = Cardinality({y \in C : y < x})
      OBVIOUS
    <3>1. Below(x) = {y \in C : y < x}
      OBVIOUS
    <3>2. rank[x] = Cardinality(Below(x))
      <4> HIDE DEF Below
      <4>1. QED OBVIOUS
    <3> HIDE DEF Below, rank
    <3>3. QED BY <3>1, <3>2
  <2> HIDE DEF rank, c
  <2>3. PICK x \in C : Cardinality({y \in C : y < x}) = i - 1
    BY <1>6, <2>1, <2>2
  <2>4. At(i) \in C /\ Cardinality({y \in C : y < At(i)}) = i - 1
    BY <2>3
  <2> HIDE DEF At
  <2>5. c[i] = At(i)
    BY <1>7
  <2>6. QED BY <2>2, <2>4, <2>5
<1> HIDE DEF rank, c, At
<1>9. c \in [1 .. n -> C] /\ Len(c) = n
  BY <1>1, <1>7, <1>8
<1>10. ASSUME NEW i \in 1 .. n, NEW j \in 1 .. n, i < j PROVE c[i] < c[j]
  <2>1. c[i] \in C /\ c[j] \in C /\ rank[c[i]] = i - 1 /\ rank[c[j]] = j - 1
    BY <1>8
  <2>2. c[i] \in Nat /\ c[j] \in Nat
    BY <2>1
  <2>3. c[j] < c[i] => rank[c[j]] < rank[c[i]]
    BY <1>4, <2>1
  <2>4. QED BY <1>1, <1>10, <2>1, <2>2, <2>3
<1>11. ASSUME NEW x \in C PROVE \E i \in 1 .. n : c[i] = x
  <2>1. rank[x] \in 0 .. n - 1
    BY <1>3
  <2>2. rank[x] + 1 \in 1 .. n /\ rank[c[rank[x] + 1]] = rank[x] /\ c[rank[x] + 1] \in C
    BY <1>1, <1>8, <2>1
  <2>3. c[rank[x] + 1] = x
    BY <1>5, <2>2 DEF Injection, IsInjective
  <2>4. QED BY <2>2, <2>3
<1>12. QED BY <1>1, <1>9, <1>10, <1>11 DEF c

-----------------------------------------------------------------------------
(* The ends of edges, two for each, and the walk that verify takes through them *)

\* An edge of c has the ends 2 * x and 2 * x + 1, and Same are those that meet end i.
EndOf(g, c, i) == IF i % 2 = 0 THEN g[c[i \div 2 + 1]].u ELSE g[c[i \div 2 + 1]].v
Same(g, c, i) ==
  {k \in 0 .. 2 * Len(c) - 1 : k # i /\ k % 2 = i % 2 /\ EndOf(g, c, k) = EndOf(g, c, i)}
Across(j) == IF j % 2 = 0 THEN j + 1 ELSE j - 1
Walk(g, c) ==
  LET at[s \in 0 .. Len(c)] ==
        IF s = 0 THEN 0
        ELSE LET S == Same(g, c, at[s - 1]) IN IF S = {} THEN -1 ELSE Across(CHOOSE j \in S : TRUE)
  IN at
BitsEven(g, c, side) ==
  \A b \in 0 .. Complexity - 1 :
    Cardinality({x \in 1 .. Len(c) : (g[c[x]][side] \div 2^b) % 2 = 1}) % 2 = 0
One(S) == \E x \in S : S = {x}

\* From the first end, at m ends one after the other, each of which meets one other, and
\* not back at the first before.
Walks(g, c, at, m) ==
  /\ at[0] = 0
  /\ \A s \in 0 .. m - 1 : at[s] \in 0 .. 2 * Len(c) - 1 /\ One(Same(g, c, at[s]))
  /\ \A s \in 1 .. m - 1 :
       at[s] # 0 /\ \E j \in Same(g, c, at[s - 1]) : at[s] = Across(j)

LEMMA Halves ==
  ASSUME NEW n \in Nat
  PROVE  /\ \A i \in 0 .. 2 * n - 1 :
              /\ i % 2 \in {0, 1} /\ i \div 2 \in 0 .. n - 1
              /\ Across(i) \in 0 .. 2 * n - 1 /\ Across(i) # i /\ Across(i) % 2 # i % 2
              /\ Across(i) \div 2 = i \div 2 /\ Across(Across(i)) = i
         /\ \A i, k \in 0 .. 2 * n - 1 :
              i \div 2 = k \div 2 => k = i \/ k = Across(i)
         /\ \A x \in 0 .. n - 1, p \in {0, 1} :
              2 * x + p \in 0 .. 2 * n - 1 /\ (2 * x + p) % 2 = p /\ (2 * x + p) \div 2 = x
BY DEF Across

\* What verify looks at.
LEMMA VerifyMeans ==
  ASSUME NEW g, NEW c
  PROVE Verify(g, c) <=>
     /\ \A i \in 1 .. Len(c) : c[i] \in Edges /\ (i > 1 => c[i - 1] < c[i])
     /\ BitsEven(g, c, "u") /\ BitsEven(g, c, "v")
     /\ \A s \in 1 .. Len(c) : Cardinality(Same(g, c, Walk(g, c)[s - 1])) = 1
     /\ \A s \in 1 .. Len(c) : Walk(g, c)[s] = 0 <=> s = Len(c)
BY ZenonT(30) DEF Verify, EndOf, Same, Across, Walk, OneRound, XorIsZero, BitsEven

\* An end that meets one other is met by it.
LEMMA MetBack ==
  ASSUME NEW g, NEW c, Len(c) \in Nat, NEW i \in 0 .. 2 * Len(c) - 1, NEW j \in Same(g, c, i),
         One(Same(g, c, i))
  PROVE  /\ j \in 0 .. 2 * Len(c) - 1 /\ j # i /\ j % 2 = i % 2 /\ Same(g, c, i) = {j}
         /\ Same(g, c, j) = {i}
<1>1. Same(g, c, i) = {j}
  BY DEF One
<1>2. j \in 0 .. 2 * Len(c) - 1 /\ j # i /\ j % 2 = i % 2 /\ EndOf(g, c, j) = EndOf(g, c, i)
  BY DEF Same
<1>3. i \in Same(g, c, j)
  BY <1>2 DEF Same
<1>4. ASSUME NEW k \in Same(g, c, j), k # i PROVE FALSE
  <2>1. k \in Same(g, c, i) /\ k # j
    BY <1>2, <1>4 DEF Same
  <2>2. QED BY <1>1, <2>1
<1>5. QED BY <1>1, <1>2, <1>3, <1>4

\* Such a walk is at no end twice, and at no end opposite to one it has been at.
LEMMA WalkSpreads ==
  ASSUME NEW g, NEW c, Len(c) \in Nat, NEW m \in Nat, NEW at, Walks(g, c, at, m),
         NEW a \in 0 .. m - 1, NEW b \in 0 .. m - 1, at[a] \div 2 = at[b] \div 2
  PROVE  a = b
<1> DEFINE H == 0 .. 2 * Len(c) - 1
           M(i) == Same(g, c, i)
<1>1. at[0] = 0 /\ \A s \in 0 .. m - 1 : at[s] \in H /\ One(M(at[s]))
  BY DEF Walks
<1>2. \A s \in 1 .. m - 1 : at[s] # 0 /\ \E j \in M(at[s - 1]) : at[s] = Across(j)
  BY DEF Walks
\* the end that is left: opposite to where the walk has come
<1>3. ASSUME NEW s \in 1 .. m - 1
      PROVE  /\ s - 1 \in 0 .. m - 1 /\ s \in 0 .. m - 1 /\ at[s] \in H /\ at[s - 1] \in H
             /\ Across(at[s]) \in H
             /\ M(at[s - 1]) = {Across(at[s])} /\ M(Across(at[s])) = {at[s - 1]}
             /\ Across(at[s]) # at[s - 1] /\ at[s] # at[s - 1] /\ at[s] % 2 # at[s - 1] % 2
  <2>1. s - 1 \in 0 .. m - 1 /\ s \in 0 .. m - 1
    OBVIOUS
  <2>2. at[s] \in H /\ at[s - 1] \in H /\ One(M(at[s - 1]))
    BY <1>1, <2>1
  <2>3. PICK j \in M(at[s - 1]) : at[s] = Across(j)
    BY <1>2
  <2>4. j \in H /\ j # at[s - 1] /\ j % 2 = at[s - 1] % 2 /\ M(at[s - 1]) = {j} /\ M(j) = {at[s - 1]}
    BY <2>2, MetBack
  <2>5. Across(at[s]) = j /\ at[s] % 2 # j % 2
    BY <2>3, <2>4, Halves
  <2>6. QED BY <2>1, <2>2, <2>4, <2>5
<1> HIDE DEF M
<1>4. \A s, t \in 0 .. m - 1 : s < t => at[s] # at[t]
  <2> DEFINE T == {s \in 0 .. m - 1 : \E t \in 0 .. m - 1 : s < t /\ at[s] = at[t]}
  <2>1. SUFFICES ASSUME T # {} PROVE FALSE
    OBVIOUS
  <2>2. PICK s \in T : \A x \in T : s <= x
    <3>1. T \in SUBSET Nat
      OBVIOUS
    <3> HIDE DEF T
    <3>2. QED BY <2>1, <3>1, LeastOf
  <2>3. PICK t \in 0 .. m - 1 : s < t /\ at[s] = at[t]
    OBVIOUS
  <2>4. s # 0
    BY <1>1, <1>2, <2>3
  <2>5. s \in 1 .. m - 1 /\ t \in 1 .. m - 1 /\ s - 1 < t - 1
    BY <2>3, <2>4
  <2>6. M(at[s - 1]) = {Across(at[s])} /\ M(at[t - 1]) = {Across(at[s])}
        /\ M(Across(at[s])) = {at[s - 1]} /\ M(Across(at[s])) = {at[t - 1]}
    BY <1>3, <2>3, <2>5
  <2>7. at[s - 1] = at[t - 1] /\ s - 1 \in 0 .. m - 1 /\ t - 1 \in 0 .. m - 1
    BY <1>3, <2>5, <2>6
  <2>8. s - 1 \in T /\ ~(s <= s - 1)
    BY <2>5, <2>7
  <2> HIDE DEF T
  <2>9. QED BY <2>2, <2>8
<1>5. \A s, t \in 0 .. m - 1 : s < t => at[t] # Across(at[s])
  <2> DEFINE T == {d \in Nat : \E s, t \in 0 .. m - 1 : t = s + d /\ d > 0 /\ at[t] = Across(at[s])}
  <2>1. SUFFICES ASSUME T # {} PROVE FALSE
    <3> SUFFICES ASSUME NEW s \in 0 .. m - 1, NEW t \in 0 .. m - 1, s < t, at[t] = Across(at[s])
                 PROVE  T # {}
      OBVIOUS
    <3>1. t - s \in Nat /\ t = s + (t - s) /\ t - s > 0
      OBVIOUS
    <3>2. QED BY <3>1
  <2>2. PICK d \in T : \A x \in T : d <= x
    <3>1. T \in SUBSET Nat
      OBVIOUS
    <3> HIDE DEF T
    <3>2. QED BY <2>1, <3>1, LeastOf
  <2>3. PICK s \in 0 .. m - 1, t \in 0 .. m - 1 :
          t = s + d /\ d > 0 /\ at[t] = Across(at[s])
    OBVIOUS
  <2>4. s + 1 \in 1 .. m - 1 /\ t \in 1 .. m - 1 /\ (s + 1) - 1 = s
    BY <2>3
  <2>5. /\ at[s] \in H /\ Across(at[t]) = at[s]
        /\ M(at[s]) = {Across(at[s + 1])} /\ M(at[s]) = {at[t - 1]}
    <3>1. at[s] \in H /\ Across(at[t]) = at[s]
      BY <1>1, <2>3, Halves
    <3>2. QED BY <1>3, <2>4, <3>1
  <2>6. at[t - 1] = Across(at[s + 1])
    BY <2>5
  <2>7. d # 1 /\ d # 2
    <3>1. CASE d = 1
      BY <1>3, <2>3, <2>4, <2>6, <3>1
    <3>2. CASE d = 2
      <4>1. t - 1 = s + 1 /\ at[s + 1] \in H
        BY <1>3, <2>3, <2>4, <3>2
      <4>2. QED BY <2>6, <4>1, Halves
    <3>3. QED BY <3>1, <3>2
  <2>8. d - 2 \in T /\ ~(d <= d - 2)
    <3>1. d - 2 \in Nat /\ d - 2 > 0 /\ t - 1 = (s + 1) + (d - 2)
          /\ s + 1 \in 0 .. m - 1 /\ t - 1 \in 0 .. m - 1 /\ ~(d <= d - 2)
      BY <2>3, <2>4, <2>7
    <3>2. QED BY <2>6, <3>1
  <2> HIDE DEF T
  <2>9. QED BY <2>2, <2>8
<1>6. at[a] \in H /\ at[b] \in H
  BY <1>1
<1>7. at[b] = at[a] \/ at[b] = Across(at[a])
  BY <1>6, Halves
<1>8. at[b] # Across(at[a]) \/ a = b
  <2>1. CASE a < b
    BY <1>5, <2>1
  <2>2. CASE b < a
    <3>1. at[a] # Across(at[b])
      BY <1>5, <2>2
    <3>2. QED BY <1>6, <3>1, Halves
  <2>3. QED BY <2>1, <2>2
<1>9. QED BY <1>4, <1>7, <1>8

SideOf(i) == IF i % 2 = 0 THEN "u" ELSE "v"
Partners(g, C, e, side) == {d \in C \ {e} : g[d][side] = g[e][side]}

LEMMA OneMeans == ASSUME NEW S, IsFiniteSet(S) PROVE Cardinality(S) = 1 <=> One(S)
<1>1. Cardinality(S) = 1 <=> \E x : S = {x}
  BY FS_Singleton
<1>2. QED BY <1>1 DEF One

LEMMA EdgesFinite ==
  /\ IsFiniteSet(Edges) /\ Edges \subseteq Nat
  /\ \A C \in SUBSET Edges : IsFiniteSet(C) /\ Cardinality(C) \in Nat /\ C \in SUBSET Nat
<1>1. IsFiniteSet(Edges) /\ Edges \subseteq Nat
  <2>1. Rows * RowSize - 1 \in Int
    BY SizesHold DEF Sizes
  <2>2. QED BY <2>1, FS_Interval DEF Edges, Nodes
<1>2. QED BY <1>1, FS_Subset, FS_CardinalityType

LEMMA RegularMeans ==
  ASSUME NEW g, NEW C \in SUBSET Edges
  PROVE  Regular(g, C) <=> \A e \in C, side \in Sides : One(Partners(g, C, e, side))
<1>1. \A e \in C, side \in Sides : IsFiniteSet(Partners(g, C, e, side))
  <2>1. \A e \in C, side \in Sides : Partners(g, C, e, side) \in SUBSET C
    BY DEF Partners
  <2>2. QED BY <2>1, EdgesFinite, FS_Subset
<1>2. \A e \in C, side \in Sides : Cardinality(Partners(g, C, e, side)) = 1 <=> One(Partners(g, C, e, side))
  BY <1>1, OneMeans
<1>3. Regular(g, C) <=> \A e \in C, side \in Sides : Cardinality(Partners(g, C, e, side)) = 1
  BY DEF Regular, Partners
<1>4. QED BY <1>2, <1>3

\* The ends of the edges of C, and each edge has two.
LEMMA EndsAre ==
  ASSUME NEW g, NEW C \in SUBSET Edges
  PROVE  LET c == Ascending(C)
             H == 0 .. 2 * Len(c) - 1
         IN /\ Len(c) \in Nat /\ Len(c) = Cardinality(C) /\ (C # {} => Len(c) > 0)
            /\ \A i \in H : /\ c[i \div 2 + 1] \in C /\ SideOf(i) \in Sides
                            /\ EndOf(g, c, i) = g[c[i \div 2 + 1]][SideOf(i)]
            /\ \A e \in C, side \in Sides : \E i \in H : c[i \div 2 + 1] = e /\ SideOf(i) = side
            /\ \A i, k \in H : c[i \div 2 + 1] = c[k \div 2 + 1] => i \div 2 = k \div 2
            /\ \A i, k \in H : SideOf(i) = SideOf(k) <=> i % 2 = k % 2
            /\ \A i, k \in H : i \div 2 = k \div 2 /\ i % 2 = k % 2 => i = k
<1> DEFINE c == Ascending(C)
           n == Len(c)
           H == 0 .. 2 * n - 1
<1>1. IsFiniteSet(C) /\ C \in SUBSET Nat /\ (C # {} => Cardinality(C) # 0)
  BY EdgesFinite, FS_EmptySet
<1>2. /\ Cardinality(C) \in Nat /\ n = Cardinality(C) /\ c \in [1 .. n -> C]
      /\ \A i, j \in 1 .. n : i < j => c[i] < c[j]
      /\ \A x \in C : \E i \in 1 .. n : c[i] = x
  BY <1>1, AscendingIs
<1> HIDE DEF c, n
<1>3. \A i \in H : /\ i \div 2 + 1 \in 1 .. n /\ i \div 2 \in 0 .. n - 1 /\ i % 2 \in {0, 1}
  BY <1>2
<1>4. ASSUME NEW i \in H
      PROVE  /\ c[i \div 2 + 1] \in C /\ SideOf(i) \in Sides
             /\ EndOf(g, c, i) = g[c[i \div 2 + 1]][SideOf(i)]
  BY <1>2, <1>3 DEF SideOf, Sides, EndOf
<1>5. ASSUME NEW e \in C, NEW side \in Sides
      PROVE  \E i \in H : c[i \div 2 + 1] = e /\ SideOf(i) = side
  <2>1. PICK x \in 1 .. n : c[x] = e
    BY <1>2
  <2> DEFINE p == IF side = "u" THEN 0 ELSE 1
             i == 2 * (x - 1) + p
  <2>2. i \in H /\ i % 2 = p /\ i \div 2 = x - 1
    BY <1>2
  <2>3. SideOf(i) = side
    BY <2>2 DEF SideOf, Sides
  <2> HIDE DEF i
  <2>4. i \div 2 + 1 = x
    BY <2>2
  <2>5. QED BY <2>1, <2>2, <2>3, <2>4
<1>6. ASSUME NEW i \in H, NEW k \in H, c[i \div 2 + 1] = c[k \div 2 + 1] PROVE i \div 2 = k \div 2
  <2>1. i \div 2 + 1 \in 1 .. n /\ k \div 2 + 1 \in 1 .. n
    BY <1>3
  <2>2. c[i \div 2 + 1] \in Nat /\ c[k \div 2 + 1] \in Nat
    BY <1>1, <1>2, <2>1
  <2>3. ~(i \div 2 + 1 < k \div 2 + 1) /\ ~(k \div 2 + 1 < i \div 2 + 1)
    BY <1>2, <1>6, <2>1, <2>2
  <2>4. QED BY <1>3, <2>1, <2>3
<1>7. \A i, k \in H : SideOf(i) = SideOf(k) <=> i % 2 = k % 2
  BY <1>3 DEF SideOf
<1>8. \A i, k \in H : i \div 2 = k \div 2 /\ i % 2 = k % 2 => i = k
  BY <1>2
<1>9. QED BY <1>1, <1>2, <1>4, <1>5, <1>6, <1>7, <1>8 DEF c, n

\* What each end meets, in terms of edges.
LEMMA RegularEnds ==
  ASSUME NEW g, NEW C \in SUBSET Edges
  PROVE  Regular(g, C) <=>
           \A i \in 0 .. 2 * Len(Ascending(C)) - 1 : One(Same(g, Ascending(C), i))
<1> DEFINE c == Ascending(C)
           H == 0 .. 2 * Len(c) - 1
           Of(i) == c[i \div 2 + 1]
<1>1. /\ \A i \in H : Of(i) \in C /\ SideOf(i) \in Sides /\ EndOf(g, c, i) = g[Of(i)][SideOf(i)]
      /\ \A e \in C, side \in Sides : \E i \in H : Of(i) = e /\ SideOf(i) = side
      /\ \A i, k \in H : Of(i) = Of(k) => i \div 2 = k \div 2
      /\ \A i, k \in H : SideOf(i) = SideOf(k) <=> i % 2 = k % 2
      /\ \A i, k \in H : i \div 2 = k \div 2 /\ i % 2 = k % 2 => i = k
  BY ZenonT(40), EndsAre
<1>2. \A i \in H : Same(g, c, i) = {k \in H : k # i /\ k % 2 = i % 2 /\ EndOf(g, c, k) = EndOf(g, c, i)}
  BY DEF Same
<1> HIDE DEF Of, c, H
<1>3. ASSUME NEW i \in H
      PROVE  /\ \A k \in Same(g, c, i) : k \in H /\ SideOf(k) = SideOf(i)
                  /\ Of(k) \in Partners(g, C, Of(i), SideOf(i))
             /\ \A k, l \in Same(g, c, i) : Of(k) = Of(l) => k = l
             /\ \A d \in Partners(g, C, Of(i), SideOf(i)) : \E k \in Same(g, c, i) : Of(k) = d
  <2>1. \A k \in Same(g, c, i) : k \in H /\ k # i /\ k % 2 = i % 2 /\ SideOf(k) = SideOf(i)
                                 /\ g[Of(k)][SideOf(i)] = g[Of(i)][SideOf(i)]
    BY <1>1, <1>2
  <2>2. \A k \in Same(g, c, i) : Of(k) # Of(i)
    BY <1>1, <2>1
  <2>3. \A k \in Same(g, c, i) : Of(k) \in Partners(g, C, Of(i), SideOf(i))
    BY <1>1, <2>1, <2>2 DEF Partners
  <2>4. ASSUME NEW d \in Partners(g, C, Of(i), SideOf(i)) PROVE \E k \in Same(g, c, i) : Of(k) = d
    <3>1. d \in C /\ d # Of(i) /\ g[d][SideOf(i)] = g[Of(i)][SideOf(i)]
      BY DEF Partners
    <3>2. PICK k \in H : Of(k) = d /\ SideOf(k) = SideOf(i)
      BY <1>1, <3>1
    <3>3. k # i /\ k % 2 = i % 2 /\ EndOf(g, c, k) = EndOf(g, c, i)
      BY <1>1, <3>1, <3>2
    <3>4. QED BY <1>2, <3>2, <3>3
  <2>5. \A k, l \in Same(g, c, i) : Of(k) = Of(l) => k = l
    BY <1>1, <2>1
  <2>6. QED BY <2>1, <2>3, <2>4, <2>5
<1>4. \A i \in H : One(Same(g, c, i)) <=> One(Partners(g, C, Of(i), SideOf(i)))
  <2> SUFFICES ASSUME NEW i \in H
               PROVE  One(Same(g, c, i)) <=> One(Partners(g, C, Of(i), SideOf(i)))
    OBVIOUS
  <2> DEFINE S == Same(g, c, i)
             P == Partners(g, C, Of(i), SideOf(i))
  <2>1. /\ \A k \in S : Of(k) \in P
        /\ \A k, l \in S : Of(k) = Of(l) => k = l
        /\ \A d \in P : \E k \in S : Of(k) = d
    BY <1>3
  <2> HIDE DEF S, P
  <2>2. ASSUME NEW k \in S, S = {k} PROVE P = {Of(k)}
    BY <2>1, <2>2
  <2>3. ASSUME NEW d \in P, P = {d} PROVE \E k \in S : S = {k}
    <3>1. PICK k \in S : Of(k) = d
      BY <2>1
    <3>2. \A l \in S : Of(l) = d
      BY <2>1, <2>3
    <3>3. QED BY <2>1, <3>1, <3>2
  <2>4. QED BY <2>1, <2>2, <2>3 DEF One, S, P
<1>5. (\A e \in C, side \in Sides : One(Partners(g, C, e, side))) <=>
      \A i \in H : One(Partners(g, C, Of(i), SideOf(i)))
  BY <1>1
<1>6. QED BY <1>4, <1>5, RegularMeans DEF c, H

\* The walk that is looked at: from an end that meets others, across one of these.
LEMMA WalkIs ==
  ASSUME NEW g, NEW c, Len(c) \in Nat
  PROVE  /\ Walk(g, c)[0] = 0
         /\ \A s \in 1 .. Len(c) : Same(g, c, Walk(g, c)[s - 1]) # {} =>
              \E j \in Same(g, c, Walk(g, c)[s - 1]) : Walk(g, c)[s] = Across(j)
<1> DEFINE n == Len(c)
           Next1(i) == IF Same(g, c, i) = {} THEN -1 ELSE Across(CHOOSE j \in Same(g, c, i) : TRUE)
           f == [i \in Int |-> Next1(i)]
           Body(at) == [s \in 0 .. n |-> IF s = 0 THEN 0 ELSE Next1(at[s - 1])]
<1>1. \A i : Next1(i) \in Int
  <2>1. \A i : Same(g, c, i) \subseteq Int
    BY DEF Same
  <2>2. \A j \in Int : Across(j) \in Int
    BY DEF Across
  <2>3. QED BY SMTT(20), <2>1, <2>2
<1> HIDE DEF Next1
<1>2. f \in [Int -> Int]
  BY <1>1
<1>3. PICK at \in [0 .. n -> Int] : Follows(at, n, 0, f)
  <2>1. n \in Nat /\ 0 \in Int
    OBVIOUS
  <2> HIDE DEF f, n
  <2>2. QED BY <1>2, <2>1, Iterates
<1>4. at = Body(at)
  <2>1. ASSUME NEW s \in 0 .. n PROVE at[s] = IF s = 0 THEN 0 ELSE Next1(at[s - 1])
    <3>1. CASE s = 0
      BY <1>3, <3>1 DEF Follows
    <3>2. CASE s # 0
      <4>1. s \in 1 .. n /\ s - 1 \in 0 .. n
        BY <3>2
      <4>2. at[s - 1] \in Int /\ at[s] = f[at[s - 1]]
        BY <1>3, <4>1 DEF Follows
      <4>3. QED BY <3>2, <4>2
    <3>3. QED BY <3>1, <3>2
  <2> HIDE DEF f
  <2>2. QED BY <1>3, <2>1
<1> DEFINE w == CHOOSE a : a = Body(a)
<1>5. w = Body(w)
  <2> HIDE DEF Body
  <2>1. QED BY <1>4
<1>6. Walk(g, c) = w
  BY DEF Walk, Next1
<1> HIDE DEF w
<1>7. w[0] = 0 /\ \A s \in 1 .. n : w[s] = Next1(w[s - 1])
  BY SMTT(20), <1>5
<1>8. \A i : Same(g, c, i) # {} => \E j \in Same(g, c, i) : Next1(i) = Across(j)
  BY DEF Next1
<1>9. QED BY <1>6, <1>7, <1>8

\* As long as each end meets one other the walk goes on, until it is where it began.
LEMMA WalkGoes ==
  ASSUME NEW g, NEW c, Len(c) \in Nat, Len(c) > 0, NEW m \in 1 .. Len(c) + 1,
         \A s \in 0 .. m - 1 : Walk(g, c)[s] \in 0 .. 2 * Len(c) - 1 => One(Same(g, c, Walk(g, c)[s])),
         \A s \in 1 .. m - 1 : Walk(g, c)[s] # 0
  PROVE  Walks(g, c, Walk(g, c), m)
<1> DEFINE at == Walk(g, c)
           H == 0 .. 2 * Len(c) - 1
           T == {s \in 0 .. m - 1 : at[s] \notin H}
<1>1. at[0] = 0 /\ \A s \in 1 .. Len(c) : Same(g, c, at[s - 1]) # {} =>
                     \E j \in Same(g, c, at[s - 1]) : at[s] = Across(j)
  BY WalkIs
<1>2. 0 \in H
  OBVIOUS
<1> HIDE DEF at
<1>3. ASSUME NEW s \in 1 .. m - 1, at[s - 1] \in H
      PROVE  at[s] \in H /\ \E j \in Same(g, c, at[s - 1]) : at[s] = Across(j)
  <2>1. s \in 1 .. Len(c) /\ s - 1 \in 0 .. m - 1
    OBVIOUS
  <2>2. One(Same(g, c, at[s - 1]))
    BY <1>3, <2>1 DEF at
  <2>3. PICK j \in Same(g, c, at[s - 1]) : at[s] = Across(j)
    BY <1>1, <2>1, <2>2 DEF One
  <2>4. j \in H
    BY DEF Same
  <2>5. QED BY <2>3, <2>4, Halves
<1>4. T = {}
  <2>1. SUFFICES ASSUME T # {} PROVE FALSE
    OBVIOUS
  <2>2. PICK s \in T : \A x \in T : s <= x
    <3>1. T \in SUBSET Nat
      OBVIOUS
    <3> HIDE DEF T
    <3>2. QED BY <2>1, <3>1, LeastOf
  <2>3. s # 0
    BY <1>1, <1>2
  <2>4. s \in 1 .. m - 1 /\ s - 1 \in 0 .. m - 1 /\ ~(s <= s - 1)
    BY <2>3
  <2>5. s - 1 \notin T
    <3> HIDE DEF T
    <3>1. QED BY <2>2, <2>4
  <2> HIDE DEF H
  <2>6. at[s - 1] \in H /\ at[s] \notin H
    BY <2>2, <2>4, <2>5
  <2>7. QED BY <1>3, <2>4, <2>6
<1>5. \A s \in 0 .. m - 1 : at[s] \in H /\ One(Same(g, c, at[s]))
  BY <1>4 DEF at
<1>6. \A s \in 1 .. m - 1 : at[s] # 0 /\ \E j \in Same(g, c, at[s - 1]) : at[s] = Across(j)
  <2> SUFFICES ASSUME NEW s \in 1 .. m - 1
               PROVE  at[s] # 0 /\ \E j \in Same(g, c, at[s - 1]) : at[s] = Across(j)
    OBVIOUS
  <2>1. s - 1 \in 0 .. m - 1
    OBVIOUS
  <2>2. QED BY <1>3, <1>5, <2>1 DEF at
<1>7. QED BY <1>1, <1>5, <1>6 DEF Walks, at

\* Where the walk goes on to, also from its last end, and where it has come from.
CameFrom(g, c, at, s) ==
  /\ at[s - 1] \in 0 .. 2 * Len(c) - 1 /\ at[s] \in 0 .. 2 * Len(c) - 1
  /\ Across(at[s]) \in 0 .. 2 * Len(c) - 1
  /\ Same(g, c, at[s - 1]) = {Across(at[s])} /\ Same(g, c, Across(at[s])) = {at[s - 1]}

LEMMA WalkBack ==
  ASSUME NEW g, NEW c, Len(c) \in Nat, NEW m \in 1 .. Len(c), Walks(g, c, Walk(g, c), m)
  PROVE  \A s \in 1 .. m : CameFrom(g, c, Walk(g, c), s)
<1> DEFINE H == 0 .. 2 * Len(c) - 1
           S(i) == Same(g, c, i)
           at == Walk(g, c)
<1> SUFFICES ASSUME NEW s \in 1 .. m PROVE CameFrom(g, c, at, s)
  OBVIOUS
<1>1. s - 1 \in 0 .. m - 1 /\ at[s - 1] \in H /\ One(S(at[s - 1]))
  BY DEF Walks
<1>2. PICK j \in S(at[s - 1]) : at[s] = Across(j)
  <2>1. S(at[s - 1]) # {} /\ s \in 1 .. Len(c)
    BY <1>1 DEF One
  <2>2. QED BY <2>1, WalkIs
<1>3. j \in H /\ S(at[s - 1]) = {j} /\ S(j) = {at[s - 1]}
  BY <1>1, MetBack
<1>4. Across(j) \in H /\ Across(Across(j)) = j
  BY <1>3, Halves
<1> HIDE DEF H, S, at
<1>5. at[s] \in H /\ Across(at[s]) = j
  BY <1>2, <1>4
<1>6. QED BY <1>1, <1>3, <1>5 DEF H, S, CameFrom

\* The walk of a cycle that is accepted is at one end or the other of every edge.
LEMMA WalkCovers ==
  ASSUME NEW g, NEW c, Len(c) \in Nat, NEW at, Walks(g, c, at, Len(c)), NEW x \in 0 .. Len(c) - 1
  PROVE  \E s \in 0 .. Len(c) - 1 : at[s] \div 2 = x
<1> DEFINE n == Len(c)
           D == 0 .. n - 1
           f == [s \in D |-> at[s] \div 2]
<1>1. \A s \in D : at[s] \in 0 .. 2 * n - 1
  BY DEF Walks
<1>2. \A s \in D : f[s] = at[s] \div 2 /\ f[s] \in D
  BY <1>1, Halves
<1>3. f \in [D -> D]
  BY <1>2
<1>4. \A s, t \in D : f[s] = f[t] => s = t
  BY <1>2, WalkSpreads
<1>5. IsFiniteSet(D)
  BY FS_Interval
<1> HIDE DEF f, D
<1>6. f \in Injection(D, D)
  BY <1>3, <1>4 DEF Injection, IsInjective
<1>7. f \in Surjection(D, D)
  BY <1>5, <1>6, FS_Injection
<1>8. \E s \in D : f[s] = x
  BY <1>7 DEF Surjection, D
<1>9. QED BY <1>2, <1>8 DEF D

\* What is accepted is a cycle.
LEMMA AcceptedIsCycle ==
  ASSUME NEW g, NEW C \in SUBSET Edges, C # {}, Verify(g, Ascending(C))
  PROVE  SingleCycle(g, C)
<1> DEFINE c == Ascending(C)
           n == Len(c)
           H == 0 .. 2 * n - 1
           at == Walk(g, c)
           Of(i) == c[i \div 2 + 1]
           S(i) == Same(g, c, i)
<1>1. n \in Nat /\ n > 0
  BY EndsAre
<1>2. (\A s \in 1 .. n : Cardinality(S(at[s - 1])) = 1) /\ \A s \in 1 .. n : at[s] = 0 <=> s = n
  BY VerifyMeans
<1>3. \A s \in 0 .. n - 1 : One(S(at[s]))
  <2> SUFFICES ASSUME NEW s \in 0 .. n - 1 PROVE One(S(at[s]))
    OBVIOUS
  <2>1. s + 1 \in 1 .. n /\ (s + 1) - 1 = s
    BY <1>1
  <2>2. Cardinality(S(at[s])) = 1
    BY <1>2, <2>1
  <2>3. IsFiniteSet(S(at[s]))
    <3>1. S(at[s]) \in SUBSET H
      BY DEF Same
    <3>2. IsFiniteSet(H)
      <4> HIDE DEF n
      <4>1. 2 * n - 1 \in Int
        BY <1>1
      <4>2. QED BY <4>1, FS_Interval
    <3>3. QED BY <3>1, <3>2, FS_Subset
  <2>4. QED BY <2>2, <2>3, OneMeans
<1>4. Walks(g, c, at, n)
  <2>1. \A s \in 1 .. n - 1 : at[s] # 0
    BY <1>1, <1>2
  <2>2. n \in 1 .. n + 1
    BY <1>1
  <2>3. QED BY <1>1, <1>3, <2>1, <2>2, WalkGoes
<1>5. \A x \in 0 .. n - 1 : \E s \in 0 .. n - 1 : at[s] \div 2 = x
  BY <1>1, <1>4, WalkCovers
<1>6. /\ \A i \in H : Of(i) \in C /\ SideOf(i) \in Sides /\ EndOf(g, c, i) = g[Of(i)][SideOf(i)]
      /\ \A e \in C, side \in Sides : \E i \in H : Of(i) = e /\ SideOf(i) = side
      /\ \A i, k \in H : Of(i) = Of(k) => i \div 2 = k \div 2
      /\ \A i, k \in H : SideOf(i) = SideOf(k) <=> i % 2 = k % 2
  BY ZenonT(40), EndsAre
<1>7. /\ at[0] = 0 /\ at[n] = 0 /\ \A s \in 0 .. n - 1 : at[s] \in H
  BY <1>1, <1>2, <1>4 DEF Walks
\* where the walk goes on to, also from its last end
<1>8. ASSUME NEW s \in 1 .. n
      PROVE  /\ s - 1 \in 0 .. n - 1 /\ at[s - 1] \in H /\ at[s] \in H /\ Across(at[s]) \in H
             /\ S(at[s - 1]) = {Across(at[s])} /\ S(Across(at[s])) = {at[s - 1]}
  <2> HIDE DEF c
  <2>1. Len(c) \in Nat /\ n \in 1 .. Len(c) /\ Walks(g, c, at, n) /\ at = Walk(g, c)
    BY <1>1, <1>4
  <2> HIDE DEF at
  <2>2. CameFrom(g, c, at, s)
    BY <2>1, WalkBack
  <2>3. QED BY <2>1, <2>2 DEF CameFrom
<1> HIDE DEF at, c, n, Of, S
<1>9. ASSUME NEW i \in H PROVE One(S(i))
  <2>1. i \div 2 \in 0 .. n - 1
    BY <1>1, Halves
  <2>2. PICK s \in 0 .. n - 1 : at[s] \div 2 = i \div 2
    BY <1>5, <2>1
  <2>3. i = at[s] \/ i = Across(at[s])
    BY <1>1, <1>7, <2>2, Halves
  <2>4. \E t \in 1 .. n : at[t] = at[s]
    <3>1. CASE s = 0
      BY <1>1, <1>7, <3>1
    <3>2. CASE s # 0
      BY <1>1, <3>2
    <3>3. QED BY <3>1, <3>2
  <2>5. PICK t \in 1 .. n : at[t] = at[s]
    BY <2>4
  <2>6. CASE i = at[s]
    <3>1. QED BY <1>3, <2>6 DEF S
  <2>7. CASE i = Across(at[s])
    BY <1>8, <2>5, <2>7 DEF One
  <2>8. QED BY <2>3, <2>6, <2>7
<1>10. Regular(g, C)
  BY <1>9, RegularEnds DEF S, c, n
<1>11. ASSUME NEW D \in SUBSET C, D # {}, Regular(g, D) PROVE D = C
  <2>1. ASSUME NEW s \in 1 .. n, Of(at[s - 1]) \in D PROVE Of(at[s]) \in D
    <3>1. PICK d \in D : d # Of(at[s - 1])
                         /\ g[d][SideOf(at[s - 1])] = g[Of(at[s - 1])][SideOf(at[s - 1])]
      <4>1. SideOf(at[s - 1]) \in Sides
        BY <1>6, <1>8
      <4>2. One(Partners(g, D, Of(at[s - 1]), SideOf(at[s - 1])))
        <5>1. D \in SUBSET Edges
          OBVIOUS
        <5>2. QED BY <1>11, <2>1, <4>1, <5>1, RegularMeans
      <4>3. QED BY <4>2 DEF One, Partners
    <3>2. PICK k \in H : Of(k) = d /\ SideOf(k) = SideOf(at[s - 1])
      BY <1>6, <1>8
    <3>3. k \in S(at[s - 1])
      BY <1>6, <1>8, <3>1, <3>2 DEF Same, S, H, n
    <3>4. k = Across(at[s])
      BY <1>8, <3>3
    <3>5. at[s] \div 2 = k \div 2
      BY <1>1, <1>8, <3>4, Halves
    <3>6. QED BY <3>2, <3>5 DEF Of
  <2>2. ASSUME NEW a \in 0 .. n, Of(at[a]) \in D, NEW b \in a .. n PROVE Of(at[b]) \in D
    <3> DEFINE T == {s \in a .. n : Of(at[s]) \notin D}
    <3>1. SUFFICES ASSUME T # {} PROVE FALSE
      OBVIOUS
    <3>2. PICK s \in T : \A x \in T : s <= x
      <4>1. T \in SUBSET Nat
        OBVIOUS
      <4> HIDE DEF T
      <4>2. QED BY <3>1, <4>1, LeastOf
    <3>3. s # a /\ s \in a .. n
      BY <2>2
    <3>4. s \in 1 .. n /\ s - 1 \in a .. n /\ ~(s <= s - 1)
      BY <1>1, <3>3
    <3>5. s - 1 \notin T
      <4> HIDE DEF T
      <4>1. QED BY <3>2, <3>4
    <3>6. QED BY <2>1, <3>2, <3>4, <3>5
  <2>3. PICK d \in D : TRUE
    BY <1>11
  <2>4. \A e \in C : \E s \in 0 .. n - 1 : Of(at[s]) = e
    <3> SUFFICES ASSUME NEW e \in C PROVE \E s \in 0 .. n - 1 : Of(at[s]) = e
      OBVIOUS
    <3>1. PICK i \in H : Of(i) = e
      BY <1>6 DEF Sides
    <3>2. PICK s \in 0 .. n - 1 : at[s] \div 2 = i \div 2
      BY <1>1, <1>5, Halves
    <3>3. QED BY <3>1, <3>2 DEF Of
  <2>5. PICK s \in 0 .. n - 1 : Of(at[s]) = d
    BY <2>3, <2>4
  <2>6. Of(at[n]) \in D
    <3>1. s \in 0 .. n /\ n \in s .. n
      BY <1>1
    <3>2. QED BY <2>2, <2>5, <3>1
  <2>7. Of(at[0]) \in D
    BY <1>7, <2>6
  <2>8. \A t \in 0 .. n - 1 : Of(at[t]) \in D
    <3> SUFFICES ASSUME NEW t \in 0 .. n - 1 PROVE Of(at[t]) \in D
      OBVIOUS
    <3>1. 0 \in 0 .. n /\ t \in 0 .. n
      BY <1>1
    <3>2. QED BY <2>2, <2>7, <3>1
  <2>9. QED BY <2>4, <2>8
<1>12. \A D \in (SUBSET C) \ {{}, C} : ~Regular(g, D)
  BY <1>11
<1>13. QED BY <1>10, <1>12 DEF SingleCycle

\* Each node is that of two edges, and so what their numbers have in common cancels out.
LEMMA RegularIsEven ==
  ASSUME NEW g, NEW C \in SUBSET Edges, Regular(g, C), NEW side \in Sides
  PROVE  BitsEven(g, Ascending(C), side)
<1> DEFINE c == Ascending(C)
           n == Len(c)
<1> SUFFICES ASSUME NEW b \in 0 .. Complexity - 1
             PROVE  Cardinality({x \in 1 .. n : (g[c[x]][side] \div 2^b) % 2 = 1}) % 2 = 0
  BY DEF BitsEven
<1> DEFINE Bit(v) == (v \div 2^b) % 2 = 1
           X == {x \in 1 .. n : Bit(g[c[x]][side])}
           P(x) == Partners(g, C, c[x], side)
           Other(x) == CHOOSE y \in 1 .. n : c[y] \in P(x)
           q == [x \in X |-> Other(x)]
<1>1. /\ n \in Nat /\ c \in [1 .. n -> C]
      /\ \A i, j \in 1 .. n : i < j => c[i] < c[j]
      /\ \A x \in C : \E i \in 1 .. n : c[i] = x
  BY AscendingIs, EdgesFinite
<1>2. \A i, j \in 1 .. n : c[i] = c[j] => i = j
  <2> SUFFICES ASSUME NEW i \in 1 .. n, NEW j \in 1 .. n, c[i] = c[j] PROVE i = j
    OBVIOUS
  <2>1. c[i] \in Nat /\ c[j] \in Nat
    <3> HIDE DEF c, n
    <3>1. QED BY <1>1, EdgesFinite
  <2> HIDE DEF c
  <2>2. ~(i < j) /\ ~(j < i)
    BY <1>1, <2>1
  <2>3. QED BY <1>1, <2>2
<1>3. IsFiniteSet(X)
  <2>1. IsFiniteSet(1 .. n)
    <3> HIDE DEF n
    <3>1. QED BY <1>1, FS_Interval
  <2>2. X \in SUBSET (1 .. n)
    OBVIOUS
  <2> HIDE DEF X
  <2>3. QED BY <2>1, <2>2, FS_Subset
<1>4. \A x \in X : x \in 1 .. n /\ Bit(g[c[x]][side])
  OBVIOUS
<1>5. \A x \in 1 .. n : Bit(g[c[x]][side]) => x \in X
  OBVIOUS
<1> HIDE DEF Bit, X, c, n
<1>6. ASSUME NEW x \in 1 .. n
      PROVE  /\ One(P(x)) /\ Other(x) \in 1 .. n /\ c[Other(x)] \in P(x)
             /\ Other(x) # x /\ g[c[Other(x)]][side] = g[c[x]][side] /\ c[x] \in P(Other(x))
  <2>1. One(P(x))
    BY <1>1, RegularMeans
  <2>2. PICK d \in P(x) : TRUE
    BY <2>1 DEF One
  <2>3. PICK y \in 1 .. n : c[y] = d
    BY <1>1 DEF Partners
  <2>4. Other(x) \in 1 .. n /\ c[Other(x)] \in P(x)
    BY <2>2, <2>3
  <2> HIDE DEF Other
  <2>5. c[Other(x)] \in C /\ c[Other(x)] # c[x] /\ g[c[Other(x)]][side] = g[c[x]][side]
    BY <2>4 DEF Partners
  <2>6. c[x] \in P(Other(x))
    BY <1>1, <2>5 DEF Partners
  <2>7. QED BY <2>1, <2>4, <2>5, <2>6
<1> HIDE DEF P, Other
<1>7. ASSUME NEW x \in X PROVE q[x] \in X /\ q[x] # x /\ q[q[x]] = x
  <2>1. x \in 1 .. n /\ q[x] = Other(x) /\ Other(x) \in X
    BY <1>4, <1>5, <1>6
  <2>2. q[Other(x)] = Other(Other(x)) /\ Other(x) \in 1 .. n
    BY <1>4, <2>1
  <2>3. c[Other(Other(x))] = c[x]
    <3>1. One(P(Other(x))) /\ c[Other(Other(x))] \in P(Other(x)) /\ c[x] \in P(Other(x))
      BY <1>6, <2>1, <2>2
    <3>2. QED BY <3>1 DEF One
  <2>4. Other(Other(x)) = x
    BY <1>2, <1>6, <2>1, <2>2, <2>3
  <2>5. QED BY <1>6, <2>1, <2>2, <2>4
<1>8. q \in [X -> X]
  BY <1>7
<1> HIDE DEF q
<1>9. Cardinality(X) % 2 = 0
  BY <1>3, <1>7, <1>8, PairsAreEven
<1>10. QED BY <1>9 DEF X, Bit, n, c

\* And a cycle is accepted.
LEMMA CycleIsAccepted ==
  ASSUME NEW g, NEW C \in SUBSET Edges, SingleCycle(g, C)
  PROVE  Verify(g, Ascending(C))
<1> DEFINE c == Ascending(C)
           n == Len(c)
           H == 0 .. 2 * n - 1
           at == Walk(g, c)
           Of(i) == c[i \div 2 + 1]
           S(i) == Same(g, c, i)
           T == {s \in 1 .. n : at[s] = 0}
<1>1. /\ n \in Nat /\ n > 0 /\ n = Cardinality(C) /\ C # {} /\ Regular(g, C)
      /\ \A D \in (SUBSET C) \ {{}, C} : ~Regular(g, D)
  BY EndsAre DEF SingleCycle
<1>2. /\ \A i \in H : Of(i) \in C /\ SideOf(i) \in Sides /\ EndOf(g, c, i) = g[Of(i)][SideOf(i)]
      /\ \A e \in C, side \in Sides : \E i \in H : Of(i) = e /\ SideOf(i) = side
      /\ \A i, k \in H : Of(i) = Of(k) => i \div 2 = k \div 2
      /\ \A i, k \in H : SideOf(i) = SideOf(k) <=> i % 2 = k % 2
  BY ZenonT(40), EndsAre
<1>3. \A i \in H : One(S(i))
  BY <1>1, RegularEnds
<1>4. T # {}
  <2>1. SUFFICES ASSUME \A s \in 1 .. n : at[s] # 0 PROVE FALSE
    OBVIOUS
  <2>2. Walks(g, c, at, n + 1)
    BY <1>1, <1>3, <2>1, WalkGoes
  <2> DEFINE f == [s \in 0 .. n |-> at[s] \div 2]
  <2> HIDE DEF at, c, n
  <2>3. \A s \in 0 .. n : at[s] \in 0 .. 2 * Len(c) - 1
    BY <1>1, <2>2 DEF Walks
  <2>4. f \in [0 .. n -> 0 .. n - 1]
    BY <1>1, <2>3, Halves DEF n
  <2>5. \A s, t \in 0 .. n : at[s] \div 2 = at[t] \div 2 => s = t
    <3>1. \A s, t \in 0 .. (n + 1) - 1 : at[s] \div 2 = at[t] \div 2 => s = t
      BY <1>1, <2>2, WalkSpreads DEF n
    <3>2. (n + 1) - 1 = n
      BY <1>1
    <3>3. QED BY <3>1, <3>2
  <2>6. /\ IsFiniteSet(0 .. n) /\ IsFiniteSet(0 .. n - 1)
        /\ Cardinality(0 .. n - 1) < Cardinality(0 .. n)
    <3>1. n + 1 \in Nat /\ 0 .. n = 0 .. (n + 1) - 1
      BY <1>1
    <3>2. /\ IsFiniteSet(0 .. n - 1) /\ Cardinality(0 .. n - 1) = n
          /\ IsFiniteSet(0 .. (n + 1) - 1) /\ Cardinality(0 .. (n + 1) - 1) = n + 1
      BY <1>1, <3>1, Counting
    <3>3. QED BY <1>1, <3>1, <3>2
  <2>7. PICK x, y \in 0 .. n : x # y /\ f[x] = f[y]
    <3> HIDE DEF f
    <3>1. QED BY <2>4, <2>6, FS_PigeonHole
  <2>8. QED BY <2>5, <2>7
<1>5. PICK m \in T : \A s \in T : m <= s
  <2>1. T \in SUBSET Nat
    OBVIOUS
  <2> HIDE DEF T
  <2>2. QED BY <1>4, <2>1, LeastOf
<1>6. m \in 1 .. n /\ at[m] = 0 /\ \A s \in 1 .. m - 1 : at[s] # 0
  <2>1. m \in 1 .. n /\ at[m] = 0
    BY <1>5
  <2>2. ASSUME NEW s \in 1 .. m - 1, at[s] = 0 PROVE FALSE
    <3>1. s \in 1 .. n /\ ~(m <= s)
      BY <1>1, <2>1
    <3>2. QED BY <1>5, <2>2, <3>1
  <2>3. QED BY <2>1, <2>2
<1>7. Walks(g, c, at, m)
  <2>1. m \in 1 .. n + 1
    BY <1>1, <1>6
  <2>2. QED BY <1>1, <1>3, <1>6, <2>1, WalkGoes
<1>8. at[0] = 0 /\ \A s \in 0 .. m - 1 : at[s] \in H
  BY <1>7 DEF Walks
<1>9. ASSUME NEW s \in 1 .. m
      PROVE  /\ s - 1 \in 0 .. m - 1 /\ at[s - 1] \in H /\ at[s] \in H /\ Across(at[s]) \in H
             /\ S(at[s - 1]) = {Across(at[s])} /\ S(Across(at[s])) = {at[s - 1]}
  <2> HIDE DEF c, T
  <2>1. Len(c) \in Nat /\ m \in 1 .. Len(c) /\ Walks(g, c, at, m) /\ at = Walk(g, c)
    BY <1>1, <1>6, <1>7
  <2> HIDE DEF at
  <2>2. CameFrom(g, c, at, s)
    BY <2>1, WalkBack
  <2>3. QED BY <2>1, <2>2 DEF CameFrom
<1>10. m = n
  <2>1. SUFFICES ASSUME m < n PROVE FALSE
    BY <1>1, <1>6
  <2> DEFINE f == [s \in 0 .. m - 1 |-> Of(at[s])]
             D == {Of(at[s]) : s \in 0 .. m - 1}
  <2>2. D \in SUBSET C /\ D # {}
    <3>1. 0 \in 0 .. m - 1
      BY <1>6
    <3> HIDE DEF Of, at
    <3>2. QED BY <1>2, <1>8, <3>1
  <2>3. D # C
    <3>1. IsFiniteSet(0 .. m - 1) /\ Cardinality(0 .. m - 1) = m
      <4>1. m \in Nat /\ m > 0
        BY <1>6
      <4> HIDE DEF T
      <4>2. QED BY <4>1, FS_Interval
    <3>2. f \in Surjection(0 .. m - 1, D)
      <4> HIDE DEF Of, at
      <4>1. QED BY DEF Surjection
    <3>3. Cardinality(D) <= m
      <4> HIDE DEF f, D
      <4>1. QED BY <3>1, <3>2, FS_Surjection
    <3> HIDE DEF D, n
    <3>4. QED BY <1>1, <1>6, <2>1, <3>3
  <2>4. \A s \in 0 .. m : Of(at[s]) \in D
    <3> SUFFICES ASSUME NEW s \in 0 .. m PROVE Of(at[s]) \in D
      OBVIOUS
    <3> HIDE DEF Of, at
    <3>1. CASE s = m
      BY <1>6, <1>8, <3>1
    <3>2. CASE s # m
      BY <1>6, <3>2
    <3>3. QED BY <3>1, <3>2
  <2> HIDE DEF at, c, n, S, T
  <2>5. ASSUME NEW e \in D, NEW side \in Sides PROVE One(Partners(g, D, e, side))
    <3>1. PICK s \in 0 .. m - 1 : Of(at[s]) = e
      OBVIOUS
    <3> HIDE DEF D
    <3>2. PICK i \in H : Of(i) = e /\ SideOf(i) = side
      BY <1>2, <2>2, <2>5
    <3>3. i = at[s] \/ i = Across(at[s])
      <4>1. i \div 2 = at[s] \div 2 /\ at[s] \in H
        <5> HIDE DEF Of
        <5>1. QED BY <1>2, <1>8, <3>1, <3>2
      <4>2. QED BY ZenonT(40), <1>1, <4>1, Halves
    <3>4. \E k \in S(i) : Of(k) \in D
      <4>1. CASE i = at[s]
        <5>1. s + 1 \in 1 .. m /\ s + 1 \in 0 .. m /\ (s + 1) - 1 = s
          BY <1>6
        <5>2. S(i) = {Across(at[s + 1])} /\ at[s + 1] \in H
          BY <1>9, <4>1, <5>1
        <5>3. Of(Across(at[s + 1])) = Of(at[s + 1])
          BY <1>1, <5>2, Halves
        <5>4. QED BY <2>4, <5>1, <5>2, <5>3
      <4>2. CASE i = Across(at[s])
        <5>1. PICK t \in 1 .. m : at[t] = at[s]
          <6>1. CASE s = 0
            BY <1>6, <1>8, <6>1
          <6>2. CASE s # 0
            BY <1>6, <6>2
          <6>3. QED BY <6>1, <6>2
        <5>2. S(i) = {at[t - 1]} /\ t - 1 \in 0 .. m
          BY <1>6, <1>9, <4>2, <5>1
        <5>3. QED BY <2>4, <5>2
      <4>3. QED BY <3>3, <4>1, <4>2
    <3>5. PICK k \in S(i) : Of(k) \in D
      BY <3>4
    <3>6. k \in H /\ k # i /\ k % 2 = i % 2 /\ EndOf(g, c, k) = EndOf(g, c, i) /\ i \div 2 # k \div 2
      <4>1. k \in H /\ k # i /\ k % 2 = i % 2 /\ EndOf(g, c, k) = EndOf(g, c, i)
        BY DEF Same, S, n
      <4>2. QED BY <1>1, <4>1, Halves
    <3>7. Of(k) \in Partners(g, D, e, side)
      <4> HIDE DEF Of
      <4>1. QED BY <1>2, <3>2, <3>5, <3>6 DEF Partners
    <3>8. \A d \in Partners(g, D, e, side) : d \in Partners(g, C, e, side)
      BY <2>2 DEF Partners
    <3>9. One(Partners(g, C, e, side))
      BY <1>1, <2>2, <2>5, RegularMeans
    <3>10. QED BY <3>7, <3>8, <3>9 DEF One
  <2>6. Regular(g, D)
    <3>1. D \in SUBSET Edges
      <4> HIDE DEF D
      <4>1. QED BY <2>2
    <3> HIDE DEF D
    <3>2. QED BY <2>5, <3>1, RegularMeans
  <2> HIDE DEF D
  <2>7. QED BY <1>1, <2>2, <2>3, <2>6
<1>11. \A s \in 1 .. n : Cardinality(S(at[s - 1])) = 1
  <2> SUFFICES ASSUME NEW s \in 1 .. n PROVE Cardinality(S(at[s - 1])) = 1
    OBVIOUS
  <2>1. S(at[s - 1]) = {Across(at[s])}
    BY <1>9, <1>10
  <2> HIDE DEF S, at
  <2>2. QED BY <2>1, FS_Singleton
<1>12. \A s \in 1 .. n : at[s] = 0 <=> s = n
  <2> SUFFICES ASSUME NEW s \in 1 .. n PROVE at[s] = 0 <=> s = n
    OBVIOUS
  <2> HIDE DEF at, n
  <2>1. s = n \/ s \in 1 .. m - 1
    BY <1>1, <1>10
  <2>2. QED BY <1>1, <1>6, <1>10, <2>1
<1>13. \A i \in 1 .. n : c[i] \in Edges /\ (i > 1 => c[i - 1] < c[i])
  <2>1. /\ c \in [1 .. n -> C] /\ \A i, j \in 1 .. n : i < j => c[i] < c[j]
    BY AscendingIs, EdgesFinite
  <2> HIDE DEF c, n
  <2> SUFFICES ASSUME NEW i \in 1 .. n PROVE c[i] \in Edges /\ (i > 1 => c[i - 1] < c[i])
    OBVIOUS
  <2>2. i > 1 => i - 1 \in 1 .. n /\ i - 1 < i
    BY <1>1
  <2>3. QED BY <2>1, <2>2
<1>14. BitsEven(g, c, "u") /\ BitsEven(g, c, "v")
  BY <1>1, RegularIsEven DEF Sides
<1>15. QED BY <1>11, <1>12, <1>13, <1>14, VerifyMeans

\* cuckoo::verify accepts the edges of a single cycle and nothing else, whatever the graph.
THEOREM CyclesAccepted == Spec => []VerifyExact
<1>1. CoreInv => VerifyExact
  <2> SUFFICES ASSUME CoreInv, NEW C \in (SUBSET Edges) \ {{}}
               PROVE  Verify(graph, Ascending(C)) <=> C \in Cycles[graph]
    BY DEF VerifyExact
  <2>1. graph \in Graphs
    BY DEF CoreInv, Renamed
  <2>2. C \in Cycles[graph] <=> SingleCycle(graph, C)
    BY <2>1 DEF Cycles
  <2>3. QED BY <2>2, AcceptedIsCycle, CycleIsAccepted
<1>2. Init => PoolInv /\ LaterInv /\ CoreInv
  BY PoolInit, CoreInit DEF LaterInv, Init
<1>3. PoolInv /\ LaterInv /\ CoreInv /\ [Next]_vars => (PoolInv /\ LaterInv /\ CoreInv)'
  BY PoolNext, LaterNext, CoreNext
<1>4. QED BY <1>1, <1>2, <1>3, PTL DEF Spec

-----------------------------------------------------------------------------
(* Rows of a phase, each processed once *)

\* Row r has been processed in this phase.
Processed(r) ==
  IF Running
  THEN \E f \in Fiber : /\ FirstRow(f) <= r /\ r < EndRow(f)
                        /\ \E i \in 1 .. consumed : queue[i].fiber = f
                        /\ \A w \in Working : busy[w].fiber = f => r < busy[w].row
  ELSE pc \in {"recover", "report"}

\* A fiber begins at its first row; what follows on the trimming begins when it is over.
RowsInv ==
  /\ \A w \in Working : FirstRow(busy[w].fiber) <= busy[w].row
  /\ pc = "recover" => phase \in {Last1, Match}
  /\ pc = "report" => phase = Match

LEMMA FibersApart ==
  ASSUME NEW r \in RowIds, NEW f \in Fiber, NEW h \in Fiber,
         FirstRow(f) <= r, r < EndRow(f), FirstRow(h) <= r, r < EndRow(h)
  PROVE  f = h
<1>1. ASSUME NEW a \in Nat, NEW b \in Nat, NEW d \in Nat \ {0}, a <= b PROVE a \div d <= b \div d
  <2>1. a \div d \in Nat /\ (a \div d) * d <= a /\ b < (b \div d) * d + d /\ b \div d \in Nat
    BY Division
  <2>2. (b \div d + 1) * d = (b \div d) * d + d /\ (a \div d) * d \in Nat /\ (b \div d) * d \in Nat
    BY <2>1
  <2>3. (a \div d) * d < (b \div d + 1) * d
    BY <1>1, <2>1, <2>2
  <2>4. a \div d < b \div d + 1
    BY <2>1, <2>3, Less
  <2>5. QED BY <2>1, <2>4
<1>2. ASSUME NEW i \in Fiber, NEW j \in Fiber, i < j PROVE EndRow(i) <= FirstRow(j)
  <2>1. i \in Nat /\ j \in Nat /\ i + 1 <= j /\ Rows \in Nat /\ Fibers \in Nat \ {0}
    BY <1>2, SizesHold DEF Fiber, Sizes
  <2>2. (i + 1) * Rows \in Nat /\ j * Rows \in Nat /\ (i + 1) * Rows <= j * Rows
    BY <2>1
  <2>3. QED BY <1>1, <2>1, <2>2 DEF EndRow, FirstRow
<1>3. ASSUME NEW i \in Fiber PROVE FirstRow(i) \in Nat /\ EndRow(i) \in Nat
  <2>1. i \in Nat /\ Rows \in Nat /\ Fibers \in Nat \ {0}
    BY SizesHold DEF Fiber, Sizes
  <2>2. (i + 1) * Rows \in Nat /\ i * Rows \in Nat
    BY <2>1
  <2>3. QED BY <2>1, <2>2, Division DEF EndRow, FirstRow
<1>4. f \in Int /\ h \in Int /\ r \in Int
  BY DEF Fiber, RowIds
<1>5. ~(f < h)
  <2>1. f < h => EndRow(f) <= FirstRow(h)
    BY <1>2
  <2>2. QED BY <1>3, <1>4, <2>1
<1>6. ~(h < f)
  <2>1. h < f => EndRow(h) <= FirstRow(f)
    BY <1>2
  <2>2. QED BY <1>3, <1>4, <2>1
<1>7. QED BY <1>4, <1>5, <1>6

LEMMA RowOfFiber ==
  ASSUME NEW f \in Fiber, NEW r \in Nat, r < EndRow(f)
  PROVE  r \in RowIds
<1>1. f \in Nat /\ f + 1 <= Fibers /\ Rows \in Nat /\ Fibers \in Nat /\ Fibers > 0
  BY SizesHold DEF Fiber, Sizes
<1>2. (f + 1) * Rows \in Nat /\ (f + 1) * Rows <= Fibers * Rows
  BY <1>1
<1>3. EndRow(f) \in Nat /\ EndRow(f) * Fibers <= (f + 1) * Rows
  BY <1>1, <1>2, Division DEF EndRow
<1>4. EndRow(f) * Fibers < (Rows + 1) * Fibers
  <2>1. (Rows + 1) * Fibers = Fibers * Rows + Fibers /\ Fibers * Rows \in Nat
    BY <1>1
  <2>2. EndRow(f) * Fibers \in Nat
    BY <1>1, <1>3
  <2>3. QED BY <1>1, <1>2, <1>3, <2>1, <2>2
<1>5. EndRow(f) < Rows + 1
  BY <1>1, <1>3, <1>4, Less
<1>6. QED BY <1>1, <1>3, <1>5 DEF RowIds

\* A step processes the row that its fiber has got to, which had not been processed.
LEMMA StepProcesses ==
  ASSUME PoolInv, RowsInv, NEW w \in Workers, Step(w)
  PROVE  /\ busy[w].row \in RowIds /\ ~Processed(busy[w].row) /\ busy[w].phase = phase /\ Running
         /\ \A r \in RowIds : Processed(r)' <=> Processed(r) \/ r = busy[w].row
<1> DEFINE f == busy[w].fiber
           row == busy[w].row
<1>1. /\ busy[w] # Idle /\ busy' = [busy EXCEPT ![w].row = @ + 1] /\ row < EndRow(f)
      /\ UNCHANGED <<pc, phase, queue, consumed>>
  BY DEF Step, control, counters
<1>2. PoolType /\ Still /\ Running /\ Queued /\ Taken
  BY <1>1 DEF PoolInv, Barrier, Still, Working
<1>3. /\ busy[w] \in [fiber : Fiber, phase : Phases, row : Nat] /\ w \in Working
      /\ busy[w].phase = phase
  BY <1>1, <1>2 DEF PoolType, Working, Taken
<1>4. f \in Fiber /\ row \in Nat /\ row \in RowIds /\ FirstRow(f) <= row
  BY <1>1, <1>3, RowOfFiber DEF RowsInv
<1>5. /\ Working' = Working /\ Running'
      /\ \A x \in Working : busy'[x].fiber = busy[x].fiber
      /\ busy'[w].row = row + 1 /\ \A x \in Working \ {w} : busy'[x].row = busy[x].row
  <2> DEFINE new == [busy[w] EXCEPT !.row = @ + 1]
  <2>1. new \in [fiber : Fiber, phase : Phases, row : Nat] /\ new.fiber = f /\ new.row = row + 1
        /\ new.phase = busy[w].phase
    BY <1>3
  <2>2. busy' = [busy EXCEPT ![w] = new]
    BY <1>1, <1>2, <1>3 DEF PoolType
  <2>3. new # Idle
    BY <1>3, <2>1, SizesHold DEF Phases, Idle, Sizes
  <2>4. QED BY <1>1, <1>2, <2>1, <2>2, <2>3 DEF PoolType, Working, Running
<1>6. \A x \in Working \ {w} : busy[x].fiber # f
  BY <1>2, <1>3 DEF Taken
<1>7. \E i \in 1 .. consumed : queue[i].fiber = f
  BY <1>2, <1>3 DEF Taken
<1> HIDE DEF f, row
<1>8. ~Processed(row)
  <2>1. SUFFICES ASSUME NEW h \in Fiber, FirstRow(h) <= row, row < EndRow(h),
                        \A x \in Working : busy[x].fiber = h => row < busy[x].row
                 PROVE  FALSE
    BY <1>2 DEF Processed
  <2>2. h = f
    BY <1>1, <1>4, <2>1, FibersApart DEF f, row
  <2>3. row < row
    BY <1>3, <2>1, <2>2 DEF f, row
  <2>4. QED BY <1>4, <2>3
<1>9. ASSUME NEW r \in RowIds PROVE Processed(r)' <=> Processed(r) \/ r = row
  <2>1. Processed(r)' <=>
          \E h \in Fiber : /\ FirstRow(h) <= r /\ r < EndRow(h)
                           /\ \E i \in 1 .. consumed : queue[i].fiber = h
                           /\ \A x \in Working : busy[x].fiber = h => r < busy'[x].row
    BY <1>1, <1>5 DEF Processed
  <2>2. Processed(r) <=>
          \E h \in Fiber : /\ FirstRow(h) <= r /\ r < EndRow(h)
                           /\ \E i \in 1 .. consumed : queue[i].fiber = h
                           /\ \A x \in Working : busy[x].fiber = h => r < busy[x].row
    BY <1>2 DEF Processed
  <2>3. r \in Nat /\ row \in Nat
    BY <1>4 DEF RowIds
  <2>4. ASSUME r = row PROVE Processed(r)'
    <3>1. FirstRow(f) <= r /\ r < EndRow(f)
      BY <1>1, <1>4, <2>4 DEF f, row
    <3>2. \A x \in Working : busy[x].fiber = f => r < busy'[x].row
      BY <1>5, <1>6, <2>3, <2>4
    <3>3. QED BY <1>4, <1>7, <2>1, <3>1, <3>2
  <2>5. ASSUME Processed(r) PROVE Processed(r)'
    <3>1. PICK h \in Fiber : /\ FirstRow(h) <= r /\ r < EndRow(h)
                             /\ \E i \in 1 .. consumed : queue[i].fiber = h
                             /\ \A x \in Working : busy[x].fiber = h => r < busy[x].row
      BY <2>2, <2>5
    <3>2. ASSUME NEW x \in Working, busy[x].fiber = h PROVE r < busy'[x].row
      <4>1. r < busy[x].row
        BY <3>1, <3>2
      <4>2. CASE x # w
        BY <1>5, <4>1, <4>2
      <4>3. CASE x = w
        <5>1. r < row /\ busy'[x].row = row + 1
          BY <1>5, <4>1, <4>3 DEF row
        <5>2. QED BY <2>3, <5>1
      <4>4. QED BY <4>2, <4>3
    <3>3. QED BY <2>1, <3>1, <3>2
  <2>6. ASSUME Processed(r)', r # row PROVE Processed(r)
    <3>1. PICK h \in Fiber : /\ FirstRow(h) <= r /\ r < EndRow(h)
                             /\ \E i \in 1 .. consumed : queue[i].fiber = h
                             /\ \A x \in Working : busy[x].fiber = h => r < busy'[x].row
      BY <2>1, <2>6
    <3>2. ASSUME NEW x \in Working, busy[x].fiber = h PROVE r < busy[x].row
      <4>1. r < busy'[x].row
        BY <3>1, <3>2
      <4>2. CASE x # w
        BY <1>5, <4>1, <4>2
      <4>3. CASE x = w
        <5>1. r < row + 1 /\ busy[x].row = row
          BY <1>5, <4>1, <4>3 DEF row
        <5>2. QED BY <2>3, <2>6, <5>1
      <4>4. QED BY <4>2, <4>3
    <3>3. QED BY <2>2, <3>1, <3>2
  <2>7. QED BY <2>4, <2>5, <2>6
<1>10. QED BY <1>2, <1>3, <1>4, <1>8, <1>9 DEF row

\* What has been processed remains so while threads take up fibers and leave them.
LEMMA TakeProcesses ==
  ASSUME PoolInv, RowsInv, NEW w \in Workers, Take(w), Running, NEW r \in RowIds
  PROVE  Processed(r)' <=> Processed(r)
<1> DEFINE k == consumed + 1
           f == queue[k].fiber
<1>1. /\ busy[w] = Idle /\ consumed' = consumed + 1 /\ consumed < Len(queue)
      /\ UNCHANGED <<pc, phase, queue>>
      /\ busy' = [busy EXCEPT ![w] =
              [fiber |-> f, phase |-> queue[k].phase, row |-> FirstRow(f)]]
  BY DEF Take, Ready, control, buckets
<1>2. PoolType /\ Queued /\ Taken /\ Running'
  BY <1>1 DEF PoolInv, Barrier, Running
<1>3. /\ consumed \in Nat /\ Len(queue) \in Nat /\ k \in 1 .. Len(queue) /\ k \in Nat
      /\ f \in Fiber /\ queue[k].phase = phase /\ phase \in Phases
  BY <1>1, <1>2, ItemsTyped DEF PoolType, Queued
<1>4. \A i \in 1 .. consumed : queue[i].fiber # f
  <2> SUFFICES ASSUME NEW i \in 1 .. consumed PROVE queue[i].fiber # f
    OBVIOUS
  <2>1. i \in 1 .. Len(queue) /\ i < k
    BY <1>1, <1>3
  <2>2. queue[i].fiber < f /\ queue[i].fiber \in Int /\ f \in Int
    BY <1>2, <1>3, <2>1, ItemsTyped DEF Queued
  <2>3. QED BY <2>2
<1> HIDE DEF f
<1>5. /\ busy'[w].fiber = f /\ busy'[w].row = FirstRow(f) /\ busy'[w] # Idle
      /\ \A x \in Workers \ {w} : busy'[x] = busy[x]
  <2>1. phase # 0
    BY <1>3, SizesHold DEF Phases, Sizes
  <2>2. QED BY <1>1, <1>2, <1>3, <2>1 DEF PoolType, Idle
<1>6. w \notin Working /\ Working' = Working \cup {w}
  BY <1>1, <1>5 DEF Working
<1>7. \A x \in Working : busy[x].fiber # f
  BY <1>2, <1>4 DEF Taken
<1>8. Processed(r) <=>
          \E h \in Fiber : /\ FirstRow(h) <= r /\ r < EndRow(h)
                           /\ \E i \in 1 .. consumed : queue[i].fiber = h
                           /\ \A x \in Working : busy[x].fiber = h => r < busy[x].row
  BY DEF Processed
<1>9. Processed(r)' <=>
          \E h \in Fiber : /\ FirstRow(h) <= r /\ r < EndRow(h)
                           /\ \E i \in 1 .. k : queue[i].fiber = h
                           /\ \A x \in Working' : busy'[x].fiber = h => r < busy'[x].row
  BY <1>1, <1>2 DEF Processed
<1>10. ASSUME Processed(r) PROVE Processed(r)'
  <2>1. PICK h \in Fiber : /\ FirstRow(h) <= r /\ r < EndRow(h)
                           /\ \E i \in 1 .. consumed : queue[i].fiber = h
                           /\ \A x \in Working : busy[x].fiber = h => r < busy[x].row
    BY <1>8, <1>10
  <2>2. h # f /\ \E i \in 1 .. k : queue[i].fiber = h
    BY <1>3, <1>4, <2>1
  <2>3. \A x \in Working' : busy'[x].fiber = h => r < busy'[x].row
    BY <1>5, <1>6, <2>1, <2>2 DEF Working
  <2>4. QED BY <1>9, <2>1, <2>2, <2>3
<1>11. ASSUME Processed(r)' PROVE Processed(r)
  <2>1. PICK h \in Fiber : /\ FirstRow(h) <= r /\ r < EndRow(h)
                           /\ \E i \in 1 .. k : queue[i].fiber = h
                           /\ \A x \in Working' : busy'[x].fiber = h => r < busy'[x].row
    BY <1>9, <1>11
  <2>2. h # f
    <3>1. SUFFICES ASSUME h = f PROVE FALSE
      OBVIOUS
    <3>2. r < FirstRow(f) /\ FirstRow(f) <= r
      BY <1>5, <1>6, <2>1, <3>1
    <3>3. FirstRow(f) \in Nat /\ r \in Nat
      <4>1. f \in Nat /\ Rows \in Nat /\ Fibers \in Nat \ {0} /\ f * Rows \in Nat
        BY <1>3, SizesHold DEF Fiber, Sizes
      <4>2. QED BY <4>1, Division DEF FirstRow, RowIds
    <3>4. QED BY <3>2, <3>3
  <2>3. \E i \in 1 .. consumed : queue[i].fiber = h
    <3>1. PICK i \in 1 .. k : queue[i].fiber = h
      BY <2>1
    <3>2. i # k
      BY <2>2, <3>1 DEF f
    <3>3. QED BY <1>3, <3>1, <3>2
  <2>4. \A x \in Working : busy[x].fiber = h => r < busy[x].row
    BY <1>5, <1>6, <2>1 DEF Working
  <2>5. QED BY <1>8, <2>1, <2>3, <2>4
<1>12. QED BY <1>10, <1>11

LEMMA FinishProcesses ==
  ASSUME PoolInv, RowsInv, NEW w \in Workers, Finish(w), ~cancel, NEW r \in RowIds
  PROVE  Running /\ (Processed(r)' <=> Processed(r))
<1>1. /\ busy[w] # Idle /\ busy' = [busy EXCEPT ![w] = Idle]
      /\ busy[w].row = EndRow(busy[w].fiber)
      /\ UNCHANGED <<pc, phase, queue, consumed>>
  BY DEF Finish, control, buckets
<1>2. PoolType /\ Running /\ Running'
  BY <1>1 DEF PoolInv, Barrier, Still, Working, Running
<1>3. Working' = Working \ {w} /\ \A x \in Working' : busy'[x] = busy[x]
  BY <1>1, <1>2 DEF Working, PoolType
<1>4. Processed(r) <=>
          \E h \in Fiber : /\ FirstRow(h) <= r /\ r < EndRow(h)
                           /\ \E i \in 1 .. consumed : queue[i].fiber = h
                           /\ \A x \in Working : busy[x].fiber = h => r < busy[x].row
  BY <1>2 DEF Processed
<1>5. Processed(r)' <=>
          \E h \in Fiber : /\ FirstRow(h) <= r /\ r < EndRow(h)
                           /\ \E i \in 1 .. consumed : queue[i].fiber = h
                           /\ \A x \in Working' : busy'[x].fiber = h => r < busy'[x].row
  BY <1>1, <1>2 DEF Processed
<1>6. ASSUME NEW h \in Fiber, r < EndRow(h)
      PROVE (\A x \in Working' : busy'[x].fiber = h => r < busy'[x].row) <=>
            (\A x \in Working : busy[x].fiber = h => r < busy[x].row)
  BY <1>1, <1>3, <1>6
<1>7. QED BY <1>2, <1>4, <1>5, <1>6

\* When a phase is over every row has been processed.
LEMMA AllProcessed ==
  ASSUME PoolInv, pc = "wait", done
  PROVE  \A r \in RowIds : Processed(r)
<1>1. Working = {} /\ consumed = Fibers /\ Len(queue) = Fibers /\ sent = Fibers
  BY DoneMeansStill DEF Running
<1>2. \A f \in Fiber : \E i \in 1 .. consumed : queue[i].fiber = f
  <2> SUFFICES ASSUME NEW f \in Fiber PROVE f + 1 \in 1 .. consumed /\ queue[f + 1].fiber = f
    OBVIOUS
  <2>1. Fibers \in Nat /\ f \in Nat /\ f + 1 \in 1 .. Len(queue) /\ f + 1 \in 1 .. consumed
    BY <1>1, SizesHold DEF Fiber, Sizes
  <2>2. /\ queue[f + 1].fiber \in Int /\ (f + 1) - 1 <= queue[f + 1].fiber
        /\ queue[f + 1].fiber + Len(queue) + 1 <= sent + (f + 1)
    BY <2>1, ItemsTyped DEF PoolInv, Barrier, Running, Queued
  <2>3. QED BY <1>1, <2>1, <2>2
<1>3. ASSUME NEW r \in RowIds PROVE Processed(r)
  <2>1. PICK f \in Fiber : FirstRow(f) <= r /\ r < EndRow(f)
    BY EveryRowHasFiber
  <2>2. QED BY <1>1, <1>2, <2>1 DEF Processed, Running
<1>4. QED BY <1>3

LEMMA RowsNext == ASSUME PoolInv, RowsInv, [Next]_vars PROVE RowsInv'
<1>1. ASSUME NEW w \in Workers, Take(w) PROVE RowsInv'
  <2> DEFINE k == consumed + 1
             f == queue[k].fiber
  <2>1. /\ consumed < Len(queue) /\ UNCHANGED <<pc, phase, queue>>
        /\ busy' = [busy EXCEPT ![w] = [fiber |-> f, phase |-> queue[k].phase, row |-> FirstRow(f)]]
    BY <1>1 DEF Take, Ready, control
  <2>2. k \in 1 .. Len(queue) /\ f \in Fiber /\ FirstRow(f) \in Int
    <3>1. consumed \in Nat /\ Len(queue) \in Nat
      BY DEF PoolInv, PoolType
    <3>2. k \in 1 .. Len(queue)
      BY <2>1, <3>1
    <3>3. f \in Fiber
      BY <3>2, ItemsTyped DEF PoolInv
    <3> HIDE DEF f
    <3>4. f \in Nat /\ Rows \in Nat /\ Fibers \in Nat \ {0} /\ f * Rows \in Nat
      BY <3>3, SizesHold DEF Fiber, Sizes
    <3>5. QED BY <3>2, <3>3, <3>4, Division DEF FirstRow
  <2>3. busy'[w].fiber = f /\ busy'[w].row = FirstRow(f) /\ \A x \in Workers \ {w} : busy'[x] = busy[x]
    BY <2>1 DEF PoolInv, PoolType
  <2> HIDE DEF f, k
  <2>4. \A x \in Working' : FirstRow(busy'[x].fiber) <= busy'[x].row
    BY <2>2, <2>3 DEF RowsInv, Working
  <2>5. QED BY <2>1, <2>4 DEF RowsInv
<1>2. ASSUME NEW w \in Workers, Step(w) PROVE RowsInv'
  <2>1. /\ busy[w] # Idle /\ busy' = [busy EXCEPT ![w].row = @ + 1]
        /\ UNCHANGED <<pc, phase>>
    BY <1>2 DEF Step, control
  <2>2. w \in Working /\ busy[w] \in [fiber : Fiber, phase : Phases, row : Nat]
        /\ FirstRow(busy[w].fiber) <= busy[w].row
    BY <2>1 DEF Working, PoolInv, PoolType, RowsInv
  <2>3. FirstRow(busy[w].fiber) \in Int
    <3> DEFINE f == busy[w].fiber
    <3>1. f \in Fiber
      BY <2>2
    <3> HIDE DEF f
    <3>2. f \in Nat /\ Rows \in Nat /\ Fibers \in Nat \ {0} /\ f * Rows \in Nat
      BY <3>1, SizesHold DEF Fiber, Sizes
    <3>3. FirstRow(f) \in Int
      BY <3>2, Division DEF FirstRow
    <3>4. QED BY <3>3 DEF f
  <2>4. busy'[w].fiber = busy[w].fiber /\ busy'[w].row = busy[w].row + 1
        /\ \A x \in Workers \ {w} : busy'[x] = busy[x]
    BY <2>1, <2>2 DEF PoolInv, PoolType
  <2>5. FirstRow(busy'[w].fiber) <= busy'[w].row
    BY <2>2, <2>3, <2>4
  <2>6. \A x \in Working' : FirstRow(busy'[x].fiber) <= busy'[x].row
    BY <2>4, <2>5 DEF RowsInv, Working
  <2>7. QED BY <2>1, <2>6 DEF RowsInv
<1>3. ASSUME NEW w \in Workers, Finish(w) PROVE RowsInv'
  <2>1. /\ busy' = [busy EXCEPT ![w] = Idle] /\ UNCHANGED <<pc, phase>>
    BY <1>3 DEF Finish, control
  <2>2. busy'[w] = Idle /\ \A x \in Workers \ {w} : busy'[x] = busy[x]
    BY <2>1 DEF PoolInv, PoolType
  <2>3. QED BY <2>1, <2>2 DEF RowsInv, Working
<1>4. ASSUME UNCHANGED busy,
             \/ UNCHANGED <<pc, phase>>
             \/ pc' \notin {"recover", "report"}
             \/ pc' = "recover" /\ phase' \in {Last1, Match}
             \/ pc' = "report" /\ phase' = Match
      PROVE  RowsInv'
  BY <1>4 DEF RowsInv, Working
<1>5. CASE UNCHANGED vars
  BY <1>4, <1>5 DEF vars, control
<1>6. CASE Cancel \/ \E w \in Workers : Leave(w)
  BY <1>4, <1>6 DEF Cancel, Leave, control
<1>7. CASE Joined
  <2>1. UNCHANGED busy
    BY <1>7 DEF Joined
  <2>2. \/ pc' = "report" /\ phase' = Match
        \/ pc' = "recover" /\ phase' = Last1
        \/ pc' \in {"close", "begin"}
    BY <1>7 DEF Joined
  <2>3. QED BY <1>4, <2>1, <2>2
<1>8. CASE Recover
  <2>1. UNCHANGED busy /\ pc = "recover" /\ (pc' \in {"close", "begin"} \/ UNCHANGED <<pc, phase>>)
    BY <1>8 DEF Recover, ReadSlot
  <2>2. QED BY <1>4, <2>1
<1>9. CASE Report
  <2>1. UNCHANGED busy /\ pc = "report" /\ UNCHANGED phase /\ pc' \in {"close", "recover"}
    BY <1>9 DEF Report
  <2>2. QED BY <1>4, <2>1 DEF RowsInv
<1>10. CASE Attempt \/ InitPool \/ CreateThreads \/ Begin \/ Dispatch \/ Join \/ Stop \/ Stopped \/ Closed
  <2>1. pc' \notin {"recover", "report"} /\ UNCHANGED busy
    BY <1>10 DEF Attempt, InitPool, CreateThreads, Begin, Dispatch, Join, Stop, Stopped, Closed,
       control
  <2>2. QED BY <1>4, <2>1
<1>11. QED BY <1>1, <1>2, <1>3, <1>5, <1>6, <1>7, <1>8, <1>9, <1>10 DEF Next, Main, Work

\* Row r has been through phase X.
Done(X, r) == phase > X \/ (phase = X /\ Processed(r))
Live == {"init", "begin", "dispatch", "wait", "recover", "report"}

\* Only the processing of a row changes which rows have been through a phase.
LEMMA DoneKept ==
  ASSUME PoolInv, RowsInv, NEW X \in Phases, NEW r \in RowIds, ~cancel, pc' \in Live,
         \/ InitPool \/ CreateThreads \/ Begin \/ Dispatch \/ Join \/ Joined \/ Report
         \/ Recover /\ X # Match
         \/ UNCHANGED vars \/ Cancel \/ \E w \in Workers : Take(w) \/ Finish(w)
  PROVE  Done(X, r)' <=> Done(X, r)
<1>0. phase \in Nat /\ X \in Nat /\ X <= Match /\ phase <= Match /\ Match = Last1 + 1 /\ Last1 \in Nat
  BY SizesHold DEF PoolInv, PoolType, Phases, Sizes
<1>1. CASE InitPool \/ CreateThreads
  <2>1. pc = "init" /\ pc' = "begin" /\ phase' = phase
    BY <1>1 DEF InitPool, CreateThreads, Live
  <2>2. QED BY <2>1 DEF Done, Processed, Running
<1>2. CASE Begin
  <2>1. pc = "begin" /\ pc' = "dispatch" /\ phase' = phase /\ consumed' = 0
    BY <1>2 DEF Begin
  <2>2. QED BY <2>1 DEF Done, Processed, Running
<1>3. CASE Dispatch \/ Join
  <2>1. Running /\ Running' /\ UNCHANGED <<phase, busy, consumed>>
    BY <1>3 DEF Dispatch, Join, Running, control
  <2>2. Working' = Working
    BY <2>1 DEF Working
  <2>3. \A i \in 1 .. consumed : queue'[i] = queue[i]
    <3>1. CASE Join
      BY <3>1 DEF Join
    <3>2. CASE Dispatch /\ queue' = queue
      BY <3>2
    <3>3. CASE Dispatch /\ Enqueue
      <4>1. queue' = Append(queue, [fiber |-> sent, phase |-> phase])
        BY <3>3 DEF Enqueue
      <4>2. \A i \in 1 .. consumed : i \in 1 .. Len(queue)
        BY <2>1 DEF PoolInv, PoolType, Barrier, Queued
      <4>3. QED BY <4>1, <4>2 DEF PoolInv, PoolType
    <3>4. QED BY <1>3, <3>1, <3>2, <3>3 DEF Dispatch, EnqueueFails
  <2>4. Processed(r)' <=> Processed(r)
    BY <2>1, <2>2, <2>3 DEF Processed
  <2>5. QED BY <2>1, <2>4 DEF Done
<1>4. CASE Joined
  <2>1. pc = "wait" /\ done
    BY <1>4 DEF Joined
  <2>2. Processed(r)
    BY <2>1, AllProcessed
  <2>3. \/ phase = Match /\ pc' = "report" /\ phase' = phase
        \/ phase = Last1 /\ pc' = "recover" /\ phase' = phase
        \/ phase \notin {Last1, Match} /\ pc' = "begin" /\ phase' = phase + 1
    BY <1>4 DEF Joined, Live, After
  <2>4. ~Running' /\ (Processed(r)' <=> pc' \in {"recover", "report"})
    BY <2>3 DEF Processed, Running
  <2>5. QED BY <1>0, <2>2, <2>3, <2>4 DEF Done
<1>5. CASE Report
  <2>1. pc = "report" /\ pc' = "recover" /\ phase' = phase
    BY <1>5 DEF Report, Live
  <2>2. QED BY <2>1 DEF Done, Processed, Running
<1>6. CASE Recover /\ X # Match
  <2>1. /\ pc = "recover" /\ phase \in {Last1, Match}
        /\ \/ pc' = "begin" /\ phase' = Match
           \/ UNCHANGED <<pc, phase>>
    BY <1>6 DEF Recover, ReadSlot, RowsInv, Live
  <2>2. Processed(r)
    BY <2>1 DEF Processed, Running
  <2>3. UNCHANGED pc => Processed(r)'
    BY <2>1 DEF Processed, Running
  <2>4. QED BY <1>0, <1>6, <2>1, <2>2, <2>3 DEF Done
<1>7. CASE UNCHANGED vars \/ Cancel
  <2>1. UNCHANGED <<pc, phase, queue, consumed, busy>>
    BY <1>7 DEF vars, Cancel, control, counters
  <2>2. QED BY <2>1 DEF Done, Processed, Running, Working
<1>8. ASSUME NEW w \in Workers, Take(w) PROVE Done(X, r)' <=> Done(X, r)
  <2>1. consumed < Len(queue) /\ phase' = phase
    BY <1>8 DEF Take, control
  <2>2. Running
    BY <2>1 DEF PoolInv, PoolType, Barrier, Still
  <2>3. QED BY <1>8, <2>1, <2>2, TakeProcesses DEF Done
<1>9. ASSUME NEW w \in Workers, Finish(w) PROVE Done(X, r)' <=> Done(X, r)
  <2>1. phase' = phase
    BY <1>9 DEF Finish, control
  <2>2. QED BY <1>9, <2>1, FinishProcesses DEF Done
<1>10. QED BY <1>1, <1>2, <1>3, <1>4, <1>5, <1>6, <1>7, <1>8, <1>9

LEMMA DoneStep ==
  ASSUME PoolInv, RowsInv, NEW X \in Phases, NEW r \in RowIds, NEW w \in Workers, Step(w)
  PROVE  /\ Done(X, r)' <=> Done(X, r) \/ (phase = X /\ r = busy[w].row)
         /\ ~(phase = X /\ Done(X, busy[w].row))
<1>1. phase' = phase /\ phase \in Nat /\ X \in Nat
  <2>1. phase' = phase
    BY DEF Step, control
  <2>2. QED BY <2>1, SizesHold DEF PoolInv, PoolType, Phases, Sizes
<1>2. ~Processed(busy[w].row) /\ (Processed(r)' <=> Processed(r) \/ r = busy[w].row)
  BY StepProcesses
<1>3. Done(X, r)' <=> phase > X \/ (phase = X /\ Processed(r)')
  BY <1>1 DEF Done
<1>4. Done(X, r) <=> phase > X \/ (phase = X /\ Processed(r))
  BY DEF Done
<1>5. ~(phase = X /\ Done(X, busy[w].row))
  BY <1>1, <1>2 DEF Done
<1> HIDE DEF Done
<1>6. QED BY <1>2, <1>3, <1>4, <1>5

-----------------------------------------------------------------------------
(* The names of nodes, and how they are undone *)

Tables == [Sides -> [1 .. 2 -> [RowIds -> Seq(Nat)]]]

\* The phases in which the nodes of a side are renamed.
First(side) == 2 * Compress + (IF side = "v" THEN 3 ELSE 4)
Second(side) == IF side = "v" THEN Last1 - 1 ELSE Last1

LEMMA PhasesOfNames ==
  /\ \A s \in Sides : /\ First(s) \in Phases /\ Second(s) \in Phases
                      /\ 1 < First(s) /\ First(s) < Second(s) /\ Second(s) < Match
  /\ \A ph \in Phases : Side(ph) \in Sides /\ Stage(ph) \in 1 .. 2
  /\ \A ph \in Phases \ {1, Match} : Renames(ph) =>
       IF Stage(ph) = 1 THEN ph = First(Side(ph)) ELSE ph = Second(Side(ph))
  /\ \A ph \in Phases \ {1, Match}, s \in Sides : ph \in {First(s), Second(s)} =>
       Renames(ph) /\ Side(ph) = s
<1>1. /\ Rounds \in Nat /\ Compress \in Nat /\ Compress + 1 <= Rounds
      /\ Last1 = 2 * Rounds + 4 /\ Match = Last1 + 1 /\ Last1 \in Nat
  BY SolverAssumption DEF SolverAssumption, Last1, Match
<1>2. \A ph \in Phases : ph \in Nat /\ 1 <= ph /\ ph <= Match
  BY <1>1 DEF Phases
<1>3. \A s \in Sides : /\ First(s) \in Phases /\ Second(s) \in Phases
                       /\ 1 < First(s) /\ First(s) < Second(s) /\ Second(s) < Match
  BY <1>1 DEF First, Second, Phases, Sides
<1>4. \A ph \in Phases : Side(ph) \in Sides /\ Stage(ph) \in 1 .. 2
  BY DEF Side, Stage, Sides
<1>5. ASSUME NEW ph \in Phases \ {1, Match}, Renames(ph)
      PROVE  IF Stage(ph) = 1 THEN ph = First(Side(ph)) ELSE ph = Second(Side(ph))
  <2>1. ph \in Nat /\ ph <= Last1
    BY <1>1, <1>2
  <2>2. CASE ph > Last1 - 2
    BY <1>1, <2>1, <2>2 DEF Stage, Side, Second
  <2>3. CASE ~(ph > Last1 - 2)
    <3>1. ph > 2 /\ (ph - 3) \div 2 = Compress
      BY <1>5, <2>3 DEF Renames
    <3>2. QED BY <1>1, <2>1, <2>3, <3>1 DEF Stage, Side, First
  <2>4. QED BY <2>2, <2>3
<1>6. ASSUME NEW ph \in Phases \ {1, Match}, NEW s \in Sides, ph \in {First(s), Second(s)}
      PROVE  Renames(ph) /\ Side(ph) = s
  <2>1. CASE s = "v"
    BY <1>1, <1>6, <2>1 DEF First, Second, Renames, Side
  <2>2. CASE s = "u"
    BY <1>1, <1>6, <2>2 DEF First, Second, Renames, Side
  <2>3. QED BY <2>1, <2>2 DEF Sides
<1>7. QED BY <1>3, <1>4, <1>5, <1>6

\* What a name stands for: itself, before its row has been renamed, and afterwards what is
\* found in the tables.
Naming(e, s) ==
  \A r \in RowIds : Row(graph[e][s]) = r =>
    IF Done(Second(s), r)
    THEN \E m \in Nat : /\ Row(m) = r /\ renamed[s][2][r][Place(names[e][s])] = m
                        /\ renamed[s][1][r][Place(m)] = graph[e][s]
    ELSE IF Done(First(s), r) THEN renamed[s][1][r][Place(names[e][s])] = graph[e][s]
    ELSE names[e][s] = graph[e][s]

NamingInv ==
  /\ renamed \in Tables
  /\ ~cancel /\ pc \in Live => \A e \in alive, s \in Sides : Naming(e, s)

\* What the renaming of a row does.
LEMMA RenameMeans ==
  ASSUME Renamed, NEW side \in Sides, NEW r \in RowIds, NEW stage \in 1 .. 2,
         TrimRename(side, r, stage), renamed \in Tables
  PROVE  /\ alive' \subseteq alive /\ renamed' \in Tables
         /\ \A s \in Sides, i \in 1 .. 2, q \in RowIds : s # side \/ i # stage \/ q # r =>
              renamed'[s][i][q] = renamed[s][i][q]
         /\ \A e \in alive', s \in Sides : s # side \/ Row(names[e][s]) # r =>
              names'[e][s] = names[e][s]
         /\ \A e \in alive' : Row(names[e][side]) = r =>
              renamed'[side][stage][r][Place(names'[e][side])] = names[e][side]
<1> DEFINE K == Kept(Column(side, r), side)
           S == {names[e][side] : e \in K}
           order == SetToSeq(S)
           Number(n) == CHOOSE i \in 1 .. Len(order) : order[i] = n
           Named(e) == r * RowSize + Number(names[e][side]) - 1
<1>1. /\ alive' = alive \ (Column(side, r) \ K)
      /\ renamed' = [renamed EXCEPT ![side][stage][r] = order]
      /\ names' = [e \in Edges |-> IF e \in K THEN [names[e] EXCEPT ![side] = Named(e)] ELSE names[e]]
  BY DEF TrimRename
<1>2. /\ K \subseteq Column(side, r) /\ Column(side, r) \subseteq alive /\ alive \subseteq Edges
      /\ \A e \in alive : e \in Column(side, r) <=> Row(names[e][side]) = r
  BY DEF Kept, Column, Renamed
<1>3. \A e \in Edges, s \in Sides : names[e] \in [u : Nat, v : Nat] /\ names[e][s] \in Nat
  BY DEF Renamed, Sides
<1>4. S \in SUBSET Nat /\ (\A n \in S : Row(n) = r) /\ r \in Nat
  BY <1>2, <1>3 DEF RowIds
<1> HIDE DEF K, S
<1>5. /\ \A n \in S : /\ Place(r * RowSize + Number(n) - 1) = Number(n)
                      /\ order[Number(n)] = n
      /\ order \in Seq(Nat)
  BY <1>4, Numbering, ZenonT(60)
<1> HIDE DEF Number, order
<1>6. \A e \in K : order[Place(Named(e))] = names[e][side]
  BY <1>5 DEF S
<1> HIDE DEF Named
<1>7. ASSUME NEW e \in Edges
      PROVE  /\ e \in K => names'[e][side] = Named(e)
             /\ \A s \in Sides : s # side \/ e \notin K => names'[e][s] = names[e][s]
  BY <1>1, <1>3 DEF Sides
<1>8. renamed' \in Tables
  BY <1>1, <1>5 DEF Tables
<1>9. \A s \in Sides, i \in 1 .. 2, q \in RowIds : s # side \/ i # stage \/ q # r =>
        renamed'[s][i][q] = renamed[s][i][q]
  BY <1>1 DEF Tables
<1>10. renamed'[side][stage][r] = order
  BY <1>1 DEF Tables
<1>11. QED BY <1>1, <1>2, <1>6, <1>7, <1>8, <1>9, <1>10

LEMMA NamingSame ==
  ASSUME NEW e \in Edges, NEW s \in Sides, Naming(e, s),
         UNCHANGED graph, names'[e][s] = names[e][s],
         NEW r \in RowIds, Row(graph[e][s]) = r,
         \A i \in 1 .. 2 : renamed'[s][i][r] = renamed[s][i][r],
         \A X \in {First(s), Second(s)} : Done(X, r)' <=> Done(X, r)
  PROVE  Naming(e, s)'
<1>1. /\ Done(First(s), r)' <=> Done(First(s), r)
      /\ Done(Second(s), r)' <=> Done(Second(s), r)
      /\ renamed'[s][1][r] = renamed[s][1][r]
      /\ renamed'[s][2][r] = renamed[s][2][r]
  OBVIOUS
<1>2. QED BY <1>1 DEF Naming

\* Rows of edges.
LEMMA EndsInRows ==
  ASSUME Renamed
  PROVE  \A e \in Edges, s \in Sides :
           /\ Row(graph[e][s]) \in RowIds /\ Row(names[e][s]) = Row(graph[e][s])
           /\ graph[e][s] \in Nodes /\ names[e][s] \in Nodes
<1> SUFFICES ASSUME NEW e \in Edges, NEW s \in Sides
             PROVE  /\ Row(graph[e][s]) \in RowIds /\ Row(names[e][s]) = Row(graph[e][s])
                    /\ graph[e][s] \in Nodes /\ names[e][s] \in Nodes
  OBVIOUS
<1>1. graph[e] \in Ends /\ names[e] \in [u : Nat, v : Nat]
  BY NodesTyped DEF Renamed
<1>2. graph[e][s] \in Nodes /\ names[e][s] \in Nat /\ Row(names[e][s]) = Row(graph[e][s])
  BY <1>1 DEF Renamed, Ends, Sides
<1>3. Row(graph[e][s]) \in RowIds
  BY <1>2, NodesTyped
<1>4. names[e][s] \in Nodes
  <2> DEFINE n == names[e][s]
             q == n \div RowSize
  <2>1. n \in Nat /\ RowSize \in Nat /\ RowSize > 0 /\ Rows \in Nat /\ q \in 0 .. Rows - 1
    BY <1>2, <1>3, SizesHold DEF Sizes, Row, RowIds
  <2>2. n < q * RowSize + RowSize
    BY <2>1, Division
  <2> HIDE DEF n, q
  <2>3. (q + 1) * RowSize <= Rows * RowSize /\ (q + 1) * RowSize = q * RowSize + RowSize
        /\ q * RowSize \in Nat /\ Rows * RowSize \in Nat
    BY <2>1
  <2>4. n \in 0 .. Rows * RowSize - 1
    BY <2>1, <2>2, <2>3
  <2>5. QED BY <2>4 DEF n, Nodes
<1>5. QED BY <1>2, <1>3, <1>4

LEMMA NamingStep ==
  ASSUME PoolInv, RowsInv, CoreInv, NamingInv, NEW w \in Workers, Step(w)
  PROVE  NamingInv'
<1> DEFINE row == busy[w].row
<1>1. /\ ProcessRow(phase, row) /\ row \in RowIds /\ Running
      /\ UNCHANGED <<pc, phase, cancel, graph>>
  BY StepProcesses DEF Step, control
<1>2. pc \in Live /\ renamed \in Tables /\ Renamed /\ phase \in Phases /\ alive \subseteq Edges
  BY <1>1 DEF Running, Live, NamingInv, CoreInv, PoolInv, PoolType, Renamed
<1>3. ASSUME NEW X \in Phases, NEW r \in RowIds
      PROVE  /\ Done(X, r)' <=> Done(X, r) \/ (phase = X /\ r = row)
             /\ ~(phase = X /\ Done(X, row))
  BY <1>3, DoneStep
<1> HIDE DEF row
<1>4. CASE phase = 1
  <2>1. names' = names /\ renamed' = renamed /\ names = graph /\ alive' \subseteq Edges
    BY <1>1, <1>2, <1>4 DEF ProcessRow, GenUnodes, Renamed, RowEdges
  <2>2. ASSUME NEW e \in alive', NEW s \in Sides PROVE Naming(e, s)'
    <3>1. \A r \in RowIds : ~Done(First(s), r)' /\ ~Done(Second(s), r)'
      BY <1>1, <1>4, PhasesOfNames DEF Done, Phases
    <3>2. QED BY <1>1, <2>1, <3>1 DEF Naming
  <2>3. QED BY <1>2, <2>1, <2>2 DEF NamingInv
<1>5. CASE phase # 1 /\ (phase = Match \/ ~Renames(phase))
  <2>1. names' = names /\ renamed' = renamed /\ alive' \subseteq alive
    BY <1>1, <1>2, <1>5 DEF ProcessRow, TrimEdges, MatchRow, buckets
  <2>2. ASSUME NEW e \in alive', NEW s \in Sides, ~cancel, NEW r \in RowIds,
               Row(graph[e][s]) = r
        PROVE  Naming(e, s)'
    <3>1. Naming(e, s) /\ e \in Edges
      BY <1>2, <2>1, <2>2, EndsInRows DEF NamingInv
    <3>2. First(s) \in Phases /\ Second(s) \in Phases /\ phase # First(s) /\ phase # Second(s)
      <4>1. First(s) \in Phases /\ Second(s) \in Phases /\ First(s) # Match /\ Second(s) # Match
        BY PhasesOfNames, SizesHold DEF Phases, Sizes
      <4>2. QED BY <1>2, <1>5, <4>1, PhasesOfNames
    <3>3. \A X \in {First(s), Second(s)} : Done(X, r)' <=> Done(X, r)
      BY <1>3, <3>1, <3>2
    <3>4. QED BY <1>1, <2>1, <2>2, <3>1, <3>3, NamingSame
  <2>3. ASSUME NEW e \in alive', NEW s \in Sides, ~cancel PROVE Naming(e, s)'
    <3>1. Row(graph[e][s]) \in RowIds
      BY <1>2, <2>1, <2>3, EndsInRows
    <3>2. QED BY <2>2, <2>3, <3>1
  <2>4. QED BY <1>1, <1>2, <2>1, <2>3 DEF NamingInv
<1>6. CASE phase # 1 /\ phase # Match /\ Renames(phase)
  <2> DEFINE side == Side(phase)
             stage == Stage(phase)
  <2>1. /\ TrimRename(side, row, stage) /\ side \in Sides /\ stage \in 1 .. 2
        /\ phase = IF stage = 1 THEN First(side) ELSE Second(side)
        /\ \A s \in Sides : s # side => phase # First(s) /\ phase # Second(s)
    BY <1>1, <1>2, <1>6, PhasesOfNames DEF ProcessRow
  <2> HIDE DEF side, stage
  <2>2. /\ alive' \subseteq alive /\ renamed' \in Tables
        /\ \A s \in Sides, i \in 1 .. 2, q \in RowIds : s # side \/ i # stage \/ q # row =>
             renamed'[s][i][q] = renamed[s][i][q]
        /\ \A e \in alive', s \in Sides : s # side \/ Row(names[e][s]) # row =>
             names'[e][s] = names[e][s]
        /\ \A e \in alive' : Row(names[e][side]) = row =>
             renamed'[side][stage][row][Place(names'[e][side])] = names[e][side]
    BY <1>1, <1>2, <2>1, RenameMeans
  <2>3. ASSUME NEW e \in alive', NEW s \in Sides, ~cancel, NEW r \in RowIds,
               Row(graph[e][s]) = r
        PROVE  Naming(e, s)'
    <3>1. Naming(e, s) /\ e \in Edges /\ Row(names[e][s]) = r /\ names[e][s] \in Nat
      BY <1>2, <2>2, <2>3, EndsInRows, NodesTyped DEF NamingInv
    <3>2. /\ First(s) \in Phases /\ Second(s) \in Phases /\ First(s) \in Nat /\ Second(s) \in Nat
          /\ First(s) < Second(s)
      BY PhasesOfNames DEF Phases
    <3>3. CASE s # side \/ r # row
      <4>1. phase \in {First(s), Second(s)} => r # row
        BY <2>1, <3>3
      <4>2. \A X \in {First(s), Second(s)} : Done(X, r)' <=> Done(X, r)
        BY <1>3, <3>2, <4>1
      <4>3. \A i \in 1 .. 2 : renamed'[s][i][r] = renamed[s][i][r]
        BY <2>2, <3>3
      <4>4. names'[e][s] = names[e][s]
        BY <2>2, <3>1, <3>3
      <4>5. QED BY <1>1, <2>3, <3>1, <4>2, <4>3, <4>4, NamingSame
    <3>4. CASE s = side /\ r = row
      <4>1. renamed'[s][stage][r][Place(names'[e][s])] = names[e][s]
        BY <2>2, <3>1, <3>4
      <4>2. CASE stage = 1
        <5>1. phase = First(s) /\ phase \in Nat /\ ~(phase > Second(s)) /\ phase # Second(s)
          BY <2>1, <3>2, <3>4, <4>2
        <5>2. ~Done(Second(s), r)
          BY <5>1 DEF Done
        <5>3. ~Done(First(s), r) /\ Done(First(s), r)' /\ ~Done(Second(s), r)'
          BY <1>3, <3>2, <3>4, <5>1, <5>2
        <5>4. names[e][s] = graph[e][s]
          BY <2>3, <3>1, <5>2, <5>3 DEF Naming
        <5>5. QED BY <1>1, <2>3, <4>1, <4>2, <5>3, <5>4 DEF Naming
      <4>3. CASE stage = 2
        <5>1. phase = Second(s) /\ First(s) < phase
          BY <2>1, <3>2, <3>4, <4>3
        <5>2. Done(First(s), r)
          BY <3>2, <5>1 DEF Done
        <5>3. ~Done(Second(s), r) /\ Done(Second(s), r)'
          BY <1>3, <3>2, <3>4, <5>1
        <5>4. renamed[s][1][r][Place(names[e][s])] = graph[e][s]
          BY <2>3, <3>1, <5>2, <5>3 DEF Naming
        <5>5. renamed'[s][1][r] = renamed[s][1][r]
          BY <2>2, <4>3
        <5>6. QED BY <1>1, <2>3, <3>1, <4>1, <4>3, <5>3, <5>4, <5>5 DEF Naming
      <4>4. QED BY <2>1, <4>2, <4>3
    <3>5. QED BY <3>3, <3>4
  <2>4. ASSUME NEW e \in alive', NEW s \in Sides, ~cancel PROVE Naming(e, s)'
    <3>1. Row(graph[e][s]) \in RowIds
      BY <1>2, <2>2, <2>4, EndsInRows
    <3>2. QED BY <2>3, <2>4, <3>1
  <2>5. QED BY <1>1, <1>2, <2>2, <2>4 DEF NamingInv
<1>7. QED BY <1>4, <1>5, <1>6

LEMMA NamingNext ==
  ASSUME PoolInv, RowsInv, CoreInv, NamingInv, [Next]_vars
  PROVE  NamingInv'
<1>1. CASE Attempt
  <2>1. pc = "idle" /\ phase' = phase /\ alive' = alive /\ renamed' = renamed
        /\ \E g \in Graphs : graph' = g /\ names' = g
    BY <1>1 DEF Attempt
  <2>2. phase' = 1 /\ alive' \subseteq Edges /\ names' = graph'
    BY <2>1 DEF CoreInv, Renamed
  <2>3. ASSUME NEW e \in alive', NEW s \in Sides PROVE Naming(e, s)'
    <3>1. \A X \in {First(s), Second(s)} : ~(phase' > X) /\ phase' # X
      BY <2>2, PhasesOfNames DEF Phases
    <3>2. \A r \in RowIds : ~Done(First(s), r)' /\ ~Done(Second(s), r)'
      BY <3>1 DEF Done
    <3>3. QED BY <2>2, <3>2 DEF Naming
  <2>4. QED BY <2>1, <2>3 DEF NamingInv
<1>2. CASE Closed
  <2>1. renamed' = NoRenames /\ alive' = {}
    BY <1>2 DEF Closed, Renew
  <2>2. renamed' \in Tables
    BY <2>1 DEF NoRenames, Tables
  <2>3. QED BY <2>1, <2>2 DEF NamingInv
<1>3. ASSUME NEW w \in Workers, Step(w) PROVE NamingInv'
  BY <1>3, NamingStep
<1>4. CASE \/ InitPool \/ CreateThreads \/ Begin \/ Dispatch \/ Join \/ Joined \/ Report
           \/ Recover \/ Stop \/ Stopped
           \/ UNCHANGED vars \/ Cancel \/ \E w \in Workers : Take(w) \/ Finish(w) \/ Leave(w)
  <2>1. UNCHANGED <<graph, buckets>> /\ (cancel => cancel')
    BY <1>4 DEF InitPool, CreateThreads, Begin, Dispatch, Join, Joined, Report, Recover, Stop,
       Stopped, vars, Cancel, Take, Finish, Leave
  <2>2. pc' \in Live => pc \in Live /\ ~Stop /\ ~Stopped /\ \A w \in Workers : ~Leave(w)
    <3> SUFFICES ASSUME pc' \in Live
                 PROVE pc \in Live /\ ~Stop /\ ~Stopped /\ \A w \in Workers : ~Leave(w)
      OBVIOUS
    <3>1. ~Stop /\ ~Stopped
      BY DEF Stop, Stopped, Live
    <3>2. ASSUME NEW w \in Workers, Leave(w) PROVE FALSE
      <4>1. UNCHANGED pc /\ pc \in Ending
        BY <3>2, Unset DEF Leave, control
      <4>2. QED BY <4>1 DEF Ending, Live
    <3>3. ASSUME InitPool \/ CreateThreads \/ Begin \/ Dispatch \/ Join \/ Joined \/ Report \/ Recover
          PROVE  pc \in Live
      <4>1. pc \in {"init", "begin", "dispatch", "wait", "recover", "report"}
        BY <3>3 DEF InitPool, CreateThreads, Begin, Dispatch, Join, Joined, Report, Recover
      <4>2. QED BY <4>1 DEF Live
    <3>4. ASSUME UNCHANGED vars \/ Cancel \/ \E w \in Workers : Take(w) \/ Finish(w)
          PROVE  pc \in Live
      <4>1. UNCHANGED pc
        BY <3>4 DEF vars, Cancel, Take, Finish, control
      <4>2. QED BY <4>1
    <3>5. QED BY <1>4, <3>1, <3>2, <3>3, <3>4
  <2>3. ASSUME pc' \in Live, ~cancel, NEW e \in alive, NEW s \in Sides, NEW r \in RowIds,
               Row(graph[e][s]) = r
        PROVE  Naming(e, s)'
    <3>1. Naming(e, s) /\ e \in Edges
      BY <2>2, <2>3, EndsInRows DEF NamingInv, CoreInv, Renamed
    <3>2. First(s) \in Phases /\ Second(s) \in Phases /\ First(s) # Match /\ Second(s) # Match
      BY PhasesOfNames, SizesHold DEF Phases, Sizes
    <3>3. ASSUME NEW X \in {First(s), Second(s)} PROVE Done(X, r)' <=> Done(X, r)
      <4>1. X \in Phases /\ X # Match
        BY <3>2
      <4>2. \/ InitPool \/ CreateThreads \/ Begin \/ Dispatch \/ Join \/ Joined \/ Report
            \/ Recover \/ UNCHANGED vars \/ Cancel \/ \E w \in Workers : Take(w) \/ Finish(w)
        BY <1>4, <2>2, <2>3
      <4>3. QED BY <2>3, <3>1, <4>1, <4>2, DoneKept
    <3>4. QED BY <2>1, <2>3, <3>1, <3>3, NamingSame DEF buckets
  <2>4. ASSUME pc' \in Live, ~cancel, NEW e \in alive, NEW s \in Sides PROVE Naming(e, s)'
    <3>1. Row(graph[e][s]) \in RowIds
      BY EndsInRows DEF CoreInv, Renamed
    <3>2. QED BY <2>3, <2>4, <3>1
  <2>5. QED BY <2>1, <2>2, <2>4 DEF NamingInv, buckets
<1>5. QED BY <1>1, <1>2, <1>3, <1>4 DEF Next, Main, Work

\* When cycles are looked for every name can be undone.
LEMMA NamesUndone ==
  ASSUME CoreInv, RowsInv, NamingInv, pc = "recover", ~cancel
  PROVE  \A e \in alive, s \in Sides : Original(names[e][s], s) = graph[e][s]
<1> SUFFICES ASSUME NEW e \in alive, NEW s \in Sides
             PROVE  Original(names[e][s], s) = graph[e][s]
  OBVIOUS
<1> DEFINE r == Row(graph[e][s])
<1>1. Naming(e, s) /\ r \in RowIds /\ Row(names[e][s]) = r
  BY EndsInRows DEF NamingInv, CoreInv, Renamed, Live
<1>2. Processed(r) /\ phase \in {Last1, Match}
  BY DEF Processed, Running, RowsInv
<1>3. Done(Second(s), r)
  <2>1. Last1 \in Nat /\ Match = Last1 + 1 /\ Second(s) \in {Last1 - 1, Last1}
    BY SizesHold DEF Sizes, Second
  <2>2. QED BY <1>2, <2>1 DEF Done
<1>4. PICK m \in Nat : /\ Row(m) = r /\ renamed[s][2][r][Place(names[e][s])] = m
                       /\ renamed[s][1][r][Place(m)] = graph[e][s]
  BY <1>1, <1>3 DEF Naming
<1>5. QED BY <1>1, <1>4 DEF Original

-----------------------------------------------------------------------------
(* The forest of edges, and the paths in it *)

Linked == Keys \cup {Nil}
Ends2(e) == {<<"u", names[e].u>>, <<"v", names[e].v>>}
Joins(e, x, y) == {x, y} = Ends2(e)

\* A link goes along an edge that is left after the trimming; before that there are none.
LinkInv ==
  /\ link \in [Linked -> Linked] /\ link[Nil] = Nil /\ left \subseteq alive
  /\ \A k \in Keys : link[k] # Nil => \E e \in alive : Joins(e, k, link[k])
  /\ phase # Match /\ pc \in {"idle", "init", "begin", "dispatch", "wait"} =>
       left = {} /\ \A k \in Keys : link[k] = Nil

Runs(us) == us \in Seq(Keys) /\ Len(us) > 0 /\ \A i \in 2 .. Len(us) : us[i] = link[us[i - 1]]

LEMMA NilApart == Nil \notin Keys
BY DEF Nil, Keys, Sides

LEMMA PathIs ==
  ASSUME link \in [Linked -> Linked], link[Nil] = Nil, NEW k \in Keys
  PROVE  Runs(Path(k)) /\ Path(k)[1] = k
<1> DEFINE Body(a) == [i \in 1 .. MaxPath |-> IF i = 1 THEN k ELSE link[a[i - 1]]]
           w == CHOOSE a : a = Body(a)
           N == {j \in 1 .. MaxPath : w[j] # Nil}
           m == Cardinality(N)
<1>1. MaxPath \in Nat /\ MaxPath > 0 /\ MaxPath - 1 \in Nat /\ k \in Linked /\ k # Nil
  BY NilApart, SolverAssumption DEF SolverAssumption, Linked
<1>2. PICK at \in [0 .. MaxPath - 1 -> Linked] : Follows(at, MaxPath - 1, k, link)
  BY <1>1, Iterates
<1>3. w = Body(w)
  <2> DEFINE a == [i \in 1 .. MaxPath |-> at[i - 1]]
  <2>1. ASSUME NEW i \in 1 .. MaxPath PROVE a[i] = IF i = 1 THEN k ELSE link[a[i - 1]]
    <3>1. CASE i = 1
      BY <1>2, <3>1 DEF Follows
    <3>2. CASE i # 1
      <4>1. i - 1 \in 1 .. MaxPath - 1 /\ i - 1 \in 1 .. MaxPath
        BY <1>1, <3>2
      <4>2. QED BY <1>2, <3>2, <4>1 DEF Follows
    <3>3. QED BY <3>1, <3>2
  <2>2. a = Body(a)
    <3> HIDE DEF a
    <3>1. a = [i \in 1 .. MaxPath |-> a[i]]
      BY DEF a
    <3>2. QED BY <2>1, <3>1
  <2> HIDE DEF Body, a
  <2>3. QED BY <2>2
<1> HIDE DEF w
<1>4. w[1] = k /\ \A i \in 2 .. MaxPath : w[i] = link[w[i - 1]]
  BY <1>1, <1>3
<1>5. \A i \in 1 .. MaxPath : w[i] \in Linked
  <2> DEFINE T == {i \in 1 .. MaxPath : w[i] \notin Linked}
  <2>1. SUFFICES ASSUME T # {} PROVE FALSE
    OBVIOUS
  <2>2. PICK x \in T : \A y \in T : x <= y
    <3>1. T \in SUBSET Nat
      OBVIOUS
    <3> HIDE DEF T
    <3>2. QED BY <2>1, <3>1, LeastOf
  <2>3. x \in 2 .. MaxPath /\ x - 1 \in 1 .. MaxPath /\ ~(x <= x - 1)
    BY <1>1, <1>4
  <2>4. w[x - 1] \in Linked
    BY <2>2, <2>3
  <2>5. QED BY <1>4, <2>3, <2>4
<1>6. \A i \in 2 .. MaxPath : i - 1 \in 1 .. MaxPath /\ (w[i] \in Keys => w[i - 1] \in Keys)
  BY <1>1, <1>4, <1>5, NilApart DEF Linked
<1>7. N \in SUBSET Nat /\ IsFiniteSet(N) /\ m \in Nat
  <2>1. IsFiniteSet(1 .. MaxPath) /\ N \in SUBSET (1 .. MaxPath) /\ N \in SUBSET Nat
    BY SMTT(20), <1>1, FS_Interval
  <2> HIDE DEF N
  <2>2. QED BY <2>1, FS_Subset, FS_CardinalityType
<1>8. PICK p \in 1 .. MaxPath : N = 1 .. p
  <2> DEFINE T == {i \in 1 .. MaxPath : w[i] = Nil}
  <2>1. CASE T = {}
    <3>1. N = 1 .. MaxPath
      BY <2>1
    <3>2. QED BY <1>1, <3>1
  <2>2. CASE T # {}
    <3>1. PICK x \in T : \A y \in T : x <= y
      <4>1. T \in SUBSET Nat
        OBVIOUS
      <4> HIDE DEF T
      <4>2. QED BY <2>2, <4>1, LeastOf
    <3>2. x \in 2 .. MaxPath /\ x - 1 \in 1 .. MaxPath
      BY <1>1, <1>4
    <3>3. \A i \in 1 .. x - 1 : i \in N
      <4>1. \A i \in 1 .. x - 1 : i \in 1 .. MaxPath /\ ~(x <= i)
        BY <1>1, <3>2
      <4>2. QED BY <3>1, <4>1
    <3>4. \A i \in 1 .. MaxPath : x <= i => w[i] = Nil
      <4> DEFINE U == {i \in 1 .. MaxPath : x <= i /\ w[i] # Nil}
      <4>1. SUFFICES ASSUME U # {} PROVE FALSE
        OBVIOUS
      <4>2. PICK y \in U : \A z \in U : y <= z
        <5>1. U \in SUBSET Nat
          OBVIOUS
        <5> HIDE DEF U
        <5>2. QED BY <4>1, <5>1, LeastOf
      <4>3. y # x /\ y \in 2 .. MaxPath /\ y - 1 \in 1 .. MaxPath /\ x <= y - 1 /\ ~(y <= y - 1)
        BY <1>1, <3>1, <3>2, <4>2
      <4>4. w[y - 1] = Nil
        BY <4>2, <4>3
      <4>5. QED BY <1>4, <4>2, <4>3, <4>4
    <3>5. N = 1 .. x - 1
      BY <3>2, <3>3, <3>4
    <3>6. QED BY <3>2, <3>5
  <2>3. QED BY <2>1, <2>2
<1>9. m = p /\ p \in Nat /\ p > 0
  <2> HIDE DEF N
  <2>1. QED BY <1>1, <1>8, FS_Interval
<1>10. Path(k) = [i \in 1 .. m |-> w[i]]
  BY DEF Path, w
<1> HIDE DEF m, N
<1>11. \A i \in 1 .. p : w[i] \in Keys /\ i \in 1 .. MaxPath
  BY <1>1, <1>5, <1>8 DEF N, Linked
<1> DEFINE us == [i \in 1 .. p |-> w[i]]
<1>12. us \in Seq(Keys) /\ Len(us) = p /\ \A i \in 1 .. p : us[i] = w[i]
  BY <1>9, <1>11
<1> HIDE DEF us
<1>13. \A i \in 2 .. p : us[i] = link[us[i - 1]]
  <2> SUFFICES ASSUME NEW i \in 2 .. p PROVE us[i] = link[us[i - 1]]
    OBVIOUS
  <2>1. i \in 1 .. p /\ i - 1 \in 1 .. p /\ i \in 2 .. MaxPath
    BY <1>1, <1>8, <1>9
  <2>2. QED BY <1>4, <1>12, <2>1
<1>14. us[1] = k
  BY <1>4, <1>9, <1>12
<1>15. QED BY <1>9, <1>10, <1>12, <1>13, <1>14 DEF Runs, us

\* Of two paths to roots the one does not go on where the other ends.
LEMMA NotDeeper ==
  ASSUME NEW us, NEW vs, Runs(us), Runs(vs), link[us[Len(us)]] = Nil,
         NEW i \in 1 .. Len(us), NEW j \in 1 .. Len(vs), us[i] = vs[j]
  PROVE  ~(Len(us) - i < Len(vs) - j)
<1>1. SUFFICES ASSUME Len(us) - i < Len(vs) - j PROVE FALSE
  OBVIOUS
<1> DEFINE d == Len(us) - i
           T == {t \in 0 .. d : us[i + t] # vs[j + t]}
<1>2. Len(us) \in Nat /\ Len(vs) \in Nat /\ i \in Nat /\ j \in Nat /\ d \in Nat /\ j + d < Len(vs)
  BY <1>1 DEF Runs
<1>3. T = {}
  <2>1. SUFFICES ASSUME T # {} PROVE FALSE
    OBVIOUS
  <2>2. PICK x \in T : \A y \in T : x <= y
    <3>1. T \in SUBSET Nat
      BY <1>2
    <3> HIDE DEF T
    <3>2. QED BY <2>1, <3>1, LeastOf
  <2>3. x \in 0 .. d /\ us[i + x] # vs[j + x] /\ x # 0
    BY SMTT(20), <1>2
  <2>4. x - 1 \in 0 .. d /\ ~(x <= x - 1) /\ i + x \in 2 .. Len(us) /\ j + x \in 2 .. Len(vs)
        /\ (i + x) - 1 = i + (x - 1) /\ (j + x) - 1 = j + (x - 1)
    BY <1>2, <2>3
  <2>5. us[i + (x - 1)] = vs[j + (x - 1)]
    BY <2>2, <2>4
  <2>6. us[i + x] = link[us[(i + x) - 1]] /\ vs[j + x] = link[vs[(j + x) - 1]]
    BY <2>4 DEF Runs
  <2>7. QED BY <2>3, <2>4, <2>5, <2>6
<1>4. us[i + d] = vs[j + d] /\ i + d = Len(us)
  <2>1. d \in 0 .. d /\ i + d = Len(us)
    BY <1>2
  <2> HIDE DEF d
  <2>2. QED BY <1>3, <2>1
<1>5. j + d + 1 \in 2 .. Len(vs) /\ (j + d + 1) - 1 = j + d
  BY <1>2
<1>6. vs[j + d + 1] \in Keys /\ vs[j + d + 1] = link[vs[j + d]]
  <2> HIDE DEF d
  <2>1. j + d + 1 \in 1 .. Len(vs)
    BY <1>5
  <2>2. QED BY <1>5, <2>1 DEF Runs
<1>7. QED BY <1>4, <1>6, NilApart

\* The path ends at a root.
Rooted(us) == Runs(us) /\ link[us[Len(us)]] = Nil

LEMMA SameDepth ==
  ASSUME NEW us, NEW vs, Rooted(us), Rooted(vs)
  PROVE  \A i \in 1 .. Len(us), j \in 1 .. Len(vs) : us[i] = vs[j] => Len(us) - i = Len(vs) - j
<1> SUFFICES ASSUME NEW i \in 1 .. Len(us), NEW j \in 1 .. Len(vs), us[i] = vs[j]
             PROVE  Len(us) - i = Len(vs) - j
  OBVIOUS
<1>1. Len(us) \in Nat /\ Len(vs) \in Nat /\ i \in Nat /\ j \in Nat
  BY DEF Rooted, Runs
<1>2. ~(Len(us) - i < Len(vs) - j) /\ ~(Len(vs) - j < Len(us) - i)
  BY NotDeeper DEF Rooted
<1>3. QED BY <1>1, <1>2

\* A path that is turned around goes along the same edges, and from its first node to the
\* other end of the new edge.
LEMMA TurnedLinks ==
  ASSUME LinkInv, NEW us, Runs(us), NEW y \in Keys, NEW e \in alive, Joins(e, us[1], y)
  PROVE  /\ Turned(us, y) \in [Linked -> Linked] /\ Turned(us, y)[Nil] = Nil
         /\ \A k \in Keys : Turned(us, y)[k] # Nil => \E d \in alive : Joins(d, k, Turned(us, y)[k])
<1>1. /\ us \in Seq(Keys) /\ Len(us) \in Nat /\ \A i \in 1 .. Len(us) : us[i] \in Keys
      /\ \A i \in 2 .. Len(us) : us[i] = link[us[i - 1]]
  BY DEF Runs
<1> DEFINE Before(n) == us[CHOOSE i \in 1 .. Len(us) - 1 : us[i + 1] = n]
<1>2. ASSUME NEW n, \E i \in 2 .. Len(us) : us[i] = n
      PROVE  n \in Keys /\ Before(n) \in Keys /\ link[Before(n)] = n
  <2>1. PICK i \in 2 .. Len(us) : us[i] = n
    BY <1>2
  <2>2. i - 1 \in 1 .. Len(us) - 1 /\ us[(i - 1) + 1] = n
    BY <1>1, <2>1
  <2> DEFINE c == CHOOSE x \in 1 .. Len(us) - 1 : us[x + 1] = n
  <2>3. c \in 1 .. Len(us) - 1 /\ us[c + 1] = n
    BY <2>2
  <2> HIDE DEF c
  <2>4. c + 1 \in 2 .. Len(us) /\ (c + 1) - 1 = c /\ c \in 1 .. Len(us) /\ i \in 1 .. Len(us)
    BY <1>1, <2>1, <2>3
  <2>5. n = link[us[c]] /\ us[c] \in Keys /\ n \in Keys
    BY <1>1, <2>1, <2>3, <2>4
  <2>6. QED BY <2>5 DEF c
<1>3. DOMAIN link = Linked /\ link[Nil] = Nil /\ \A k \in Linked : link[k] \in Linked
  BY DEF LinkInv
<1> HIDE DEF Before
<1>4. Turned(us, y) = [n \in Linked |-> IF n = us[1] THEN y
                         ELSE IF \E i \in 2 .. Len(us) : us[i] = n THEN Before(n) ELSE link[n]]
  BY <1>3 DEF Turned, Before
<1>5. us[1] \in Keys
  BY <1>1 DEF Runs
<1>6. Turned(us, y) \in [Linked -> Linked]
  BY <1>2, <1>3, <1>4 DEF Linked
<1>7. Turned(us, y)[Nil] = Nil
  BY <1>1, <1>2, <1>3, <1>4, <1>5, NilApart DEF Linked
<1>8. ASSUME NEW k \in Keys, Turned(us, y)[k] # Nil
      PROVE  \E d \in alive : Joins(d, k, Turned(us, y)[k])
  <2>1. k \in Linked
    BY DEF Linked
  <2>2. CASE k = us[1]
    <3>1. Turned(us, y)[k] = y
      BY <1>4, <2>1, <2>2
    <3>2. QED BY <2>2, <3>1
  <2>3. CASE k # us[1] /\ \E i \in 2 .. Len(us) : us[i] = k
    <3>1. Turned(us, y)[k] = Before(k) /\ Before(k) \in Keys /\ link[Before(k)] = k
      BY <1>2, <1>4, <2>1, <2>3
    <3>2. link[Before(k)] # Nil
      BY <3>1, NilApart
    <3>3. PICK d \in alive : Joins(d, Before(k), link[Before(k)])
      BY <3>1, <3>2 DEF LinkInv
    <3>4. Joins(d, k, Before(k))
      BY <3>1, <3>3 DEF Joins
    <3>5. QED BY <3>1, <3>4
  <2>4. CASE k # us[1] /\ ~\E i \in 2 .. Len(us) : us[i] = k
    <3>1. Turned(us, y)[k] = link[k]
      BY <1>4, <2>1, <2>4
    <3>2. QED BY <1>8, <3>1 DEF LinkInv
  <2>5. QED BY <2>2, <2>3, <2>4
<1>9. QED BY <1>6, <1>7, <1>8

LEMMA EndsAreKeys ==
  ASSUME Renamed, NEW e \in alive
  PROVE  <<"u", names[e].u>> \in Keys /\ <<"v", names[e].v>> \in Keys
<1>1. e \in Edges /\ "u" \in Sides /\ "v" \in Sides
  BY DEF Renamed, Sides
<1>2. names[e]["u"] \in Nodes /\ names[e]["v"] \in Nodes
  BY <1>1, EndsInRows
<1>3. QED BY <1>1, <1>2 DEF Keys

LEMMA LinkRead ==
  ASSUME LinkInv, Renamed, NEW e \in left, ReadSlot(e), UNCHANGED <<alive, names>>, pc = "recover"
  PROVE  LinkInv'
<1> DEFINE us == Path(<<"u", names[e].u>>)
           vs == Path(<<"v", names[e].v>>)
<1>1. e \in alive /\ left' \subseteq alive' /\ alive' = alive /\ names' = names
  BY DEF LinkInv, ReadSlot
<1>2. /\ <<"u", names[e].u>> \in Keys /\ <<"v", names[e].v>> \in Keys
      /\ link \in [Linked -> Linked] /\ link[Nil] = Nil
  BY <1>1, EndsAreKeys DEF LinkInv
<1>3. Runs(us) /\ us[1] = <<"u", names[e].u>> /\ Runs(vs) /\ vs[1] = <<"v", names[e].v>>
  BY <1>2, PathIs
<1>4. \/ link' = link
      \/ link' = Turned(us, vs[1])
      \/ link' = Turned(vs, us[1])
  BY DEF ReadSlot
<1>5. pc' \in {"recover", "begin"} /\ (pc' = "begin" => phase' = Match)
  BY DEF ReadSlot
<1> HIDE DEF us, vs
<1>6. Joins(e, us[1], vs[1]) /\ Joins(e, vs[1], us[1]) /\ us[1] \in Keys /\ vs[1] \in Keys
  BY <1>2, <1>3 DEF Joins, Ends2
<1>7. /\ link' \in [Linked -> Linked] /\ link'[Nil] = Nil
      /\ \A k \in Keys : link'[k] # Nil => \E d \in alive : Joins(d, k, link'[k])
  <2>1. CASE link' = link
    BY <2>1 DEF LinkInv
  <2>2. CASE link' = Turned(us, vs[1])
    BY <1>1, <1>3, <1>6, <2>2, TurnedLinks
  <2>3. CASE link' = Turned(vs, us[1])
    BY <1>1, <1>3, <1>6, <2>3, TurnedLinks
  <2>4. QED BY <1>4, <2>1, <2>2, <2>3
<1>8. \A k \in Keys : link'[k] # Nil => \E d \in alive' : Joins(d, k, link[k])'
  BY <1>1, <1>7 DEF Joins, Ends2
<1>9. QED BY <1>1, <1>5, <1>7, <1>8 DEF LinkInv

LEMMA LinkNext == ASSUME PoolInv, CoreInv, LinkInv, [Next]_vars PROVE LinkInv'
<1>1. CASE Recover /\ ~UNCHANGED recovery
  <2>1. /\ pc = "recover" /\ UNCHANGED buckets
        /\ \E e \in left : ReadSlot(e)
    BY <1>1 DEF Recover
  <2>2. QED BY <2>1, LinkRead DEF CoreInv, buckets
<1>2. CASE Closed
  <2>1. link' = [k \in Keys \cup {Nil} |-> Nil] /\ left' = {}
    BY <1>2 DEF Closed, Renew
  <2>2. /\ link' \in [Linked -> Linked] /\ link'[Nil] = Nil /\ left' \subseteq alive'
        /\ \A k \in Keys : link'[k] = Nil
    BY <2>1 DEF Linked
  <2>3. QED BY <2>1, <2>2 DEF LinkInv
<1>3. ASSUME UNCHANGED link, \A k \in Keys : link[k] = Nil, left' \subseteq alive',
             left' = {} \/ pc' \notin {"idle", "init", "begin", "dispatch", "wait"}
      PROVE  LinkInv'
  BY <1>3 DEF LinkInv
<1>4. ASSUME UNCHANGED <<link, alive, names>>, left' \subseteq left,
             phase' # Match /\ pc' \in {"idle", "init", "begin", "dispatch", "wait"} =>
             phase # Match /\ pc \in {"idle", "init", "begin", "dispatch", "wait"}
      PROVE  LinkInv'
  <2>1. \A k \in Keys : link'[k] # Nil => \E d \in alive' : Joins(d, k, link[k])'
    BY <1>4 DEF LinkInv, Joins, Ends2
  <2>2. QED BY <1>4, <2>1 DEF LinkInv
<1>5. CASE Attempt
  <2>1. pc = "idle" /\ UNCHANGED <<link, left, phase>>
    BY <1>5 DEF Attempt, recovery
  <2>2. phase # Match
    BY <2>1, SizesHold DEF CoreInv, Renamed, Sizes
  <2>3. QED BY <1>3, <2>1, <2>2 DEF LinkInv
<1>6. ASSUME NEW w \in Workers, Step(w) PROVE LinkInv'
  <2>1. /\ UNCHANGED <<pc, phase, link, left>> /\ ProcessRow(busy[w].phase, busy[w].row) /\ busy[w] # Idle
    BY <1>6 DEF Step, control, recovery
  <2>2. busy[w].phase = phase /\ pc \in {"dispatch", "wait"}
    BY <2>1 DEF PoolInv, Barrier, Still, Taken, Working, Running
  <2>3. CASE phase = Match
    <3>1. UNCHANGED <<alive, names>>
      <4>1. Match # 1
        BY SizesHold DEF Sizes
      <4>2. QED BY <2>1, <2>2, <2>3, <4>1 DEF ProcessRow, MatchRow, buckets
    <3>2. QED BY <1>4, <2>1, <3>1
  <2>4. CASE phase # Match
    BY <1>3, <2>1, <2>2, <2>4 DEF LinkInv
  <2>5. QED BY <2>3, <2>4
<1>7. CASE Joined
  <2>1. /\ pc = "wait" /\ UNCHANGED <<link, alive, names>>
        /\ \/ phase = Match /\ pc' = "report" /\ left' = left
           \/ phase = Last1 /\ left' = alive /\ pc' \in {"close", "recover"}
           \/ phase \notin {Last1, Match} /\ left' = left
    BY <1>7 DEF Joined, buckets
  <2>2. Last1 # Match
    BY SizesHold DEF Sizes
  <2>3. CASE phase = Match
    BY <1>4, <2>1, <2>2, <2>3
  <2>4. CASE phase # Match
    BY <1>3, <2>1, <2>2, <2>4 DEF LinkInv
  <2>5. QED BY <2>3, <2>4
<1>8. CASE \/ InitPool \/ CreateThreads \/ Begin \/ Dispatch \/ Join \/ Report
           \/ (Recover /\ UNCHANGED recovery) \/ Stop \/ Stopped
           \/ UNCHANGED vars \/ Cancel \/ \E w \in Workers : Take(w) \/ Finish(w) \/ Leave(w)
  <2>1. UNCHANGED <<link, left, alive, names, phase>>
    <3>1. CASE Recover /\ UNCHANGED recovery
      <4>1. UNCHANGED <<link, left, alive, names>> /\ pc = "recover"
        BY <3>1 DEF Recover, buckets, recovery
      <4>2. \A e \in left : ~ReadSlot(e)
        BY <4>1 DEF ReadSlot
      <4>3. QED BY <3>1, <4>1, <4>2 DEF Recover
    <3>2. QED BY <1>8, <3>1 DEF InitPool, CreateThreads, Begin, Dispatch, Join, Report, Stop,
       Stopped, vars, Cancel, Take, Finish, Leave, buckets, recovery, control
  <2>2. pc' \in {"idle", "init", "begin", "dispatch", "wait"} =>
        pc \in {"idle", "init", "begin", "dispatch", "wait"}
    <3>1. CASE InitPool \/ CreateThreads \/ Begin \/ Dispatch \/ Join
      BY <3>1 DEF InitPool, CreateThreads, Begin, Dispatch, Join
    <3>2. CASE Report \/ Stop \/ Stopped
      BY <3>2 DEF Report, Stop, Stopped
    <3>3. CASE Recover /\ UNCHANGED recovery
      <4>1. \A e \in left : ~ReadSlot(e)
        BY <3>3 DEF ReadSlot, recovery
      <4>2. QED BY <3>3, <4>1 DEF Recover
    <3>4. CASE UNCHANGED vars \/ Cancel \/ \E w \in Workers : Take(w) \/ Finish(w) \/ Leave(w)
      BY <3>4 DEF vars, Cancel, Take, Finish, Leave, control
    <3>5. QED BY <1>8, <3>1, <3>2, <3>3, <3>4
  <2>3. QED BY <1>4, <2>1, <2>2
<1>9. QED BY <1>1, <1>2, <1>5, <1>6, <1>7, <1>8 DEF Next, Main, Work

-----------------------------------------------------------------------------
(* Rings of edges, and the loops that paths close *)

LEMMA RegularIn ==
  ASSUME NEW g, NEW C, IsFiniteSet(C)
  PROVE  Regular(g, C) <=> \A e \in C, side \in Sides : One(Partners(g, C, e, side))
<1>1. ASSUME NEW e \in C, NEW side \in Sides
      PROVE  Cardinality({d \in C \ {e} : g[d][side] = g[e][side]}) = 1 <=>
             One(Partners(g, C, e, side))
  <2>1. Partners(g, C, e, side) = {d \in C \ {e} : g[d][side] = g[e][side]}
    BY DEF Partners
  <2>2. IsFiniteSet(Partners(g, C, e, side))
    <3>1. Partners(g, C, e, side) \in SUBSET C
      BY DEF Partners
    <3>2. QED BY <3>1, FS_Subset
  <2>3. QED BY <2>1, <2>2, OneMeans
<1>2. QED BY <1>1 DEF Regular

\* Edges that follow each other from node to node, the last to the first, are one cycle.
Around(I, nxt, prv) ==
  /\ nxt \in [I -> I] /\ prv \in [I -> I]
  /\ \A i \in I : prv[nxt[i]] = i /\ nxt[prv[i]] = i /\ nxt[i] # i
  /\ \A D \in SUBSET I : D # {} /\ (\A i \in D : nxt[i] \in D) => D = I
\* M[i] is the node in which the edge i meets the one before it.
Meets(h, I, nxt, M, X) ==
  /\ M \in [I -> Sides \X X] /\ \A i, j \in I : M[i] = M[j] => i = j
  /\ \A i \in I : /\ M[i][1] # M[nxt[i]][1] /\ h[i][M[i][1]] = M[i][2]
                   /\ h[i][M[nxt[i]][1]] = M[nxt[i]][2]

LEMMA Ring ==
  ASSUME NEW I, IsFiniteSet(I), I # {}, NEW nxt, NEW prv, Around(I, nxt, prv),
         NEW X, NEW M, NEW h, Meets(h, I, nxt, M, X)
  PROVE  SingleCycle(h, I)
<1> SUFFICES ASSUME nxt \in [I -> I], prv \in [I -> I],
                    \A i \in I : prv[nxt[i]] = i /\ nxt[prv[i]] = i /\ nxt[i] # i,
                    \A D \in SUBSET I : D # {} /\ (\A i \in D : nxt[i] \in D) => D = I,
                    M \in [I -> Sides \X X], \A i, j \in I : M[i] = M[j] => i = j,
                    \A i \in I : /\ M[i][1] # M[nxt[i]][1] /\ h[i][M[i][1]] = M[i][2]
                                 /\ h[i][M[nxt[i]][1]] = M[nxt[i]][2]
             PROVE  SingleCycle(h, I)
  BY DEF Around, Meets
<1>1. ASSUME NEW i \in I
      PROVE  M[i] = <<M[i][1], M[i][2]>> /\ M[i][1] \in Sides /\ nxt[i] \in I /\ prv[i] \in I
  OBVIOUS
<1>2. ASSUME NEW i \in I, NEW side \in Sides
      PROVE  M[i] = <<side, h[i][side]>> \/ M[nxt[i]] = <<side, h[i][side]>>
  <2>1. side = M[i][1] \/ side = M[nxt[i]][1]
    BY <1>1 DEF Sides
  <2>2. QED BY <1>1, <2>1
<1>3. ASSUME NEW i \in I, NEW d \in I \ {i}, h[d][M[i][1]] = M[i][2]
      PROVE  d = prv[i]
  <2> DEFINE side == M[i][1]
  <2>0. side \in Sides /\ d \in I
    BY <1>1
  <2>1. M[d] = M[i] \/ M[nxt[d]] = M[i]
    <3>1. M[i] = <<side, h[d][side]>>
      BY <1>1, <1>3
    <3> HIDE DEF side
    <3>2. M[d] = <<side, h[d][side]>> \/ M[nxt[d]] = <<side, h[d][side]>>
      BY <1>2, <2>0
    <3>3. QED BY <3>1, <3>2
  <2>2. d = i \/ nxt[d] = i
    BY <1>1, <2>1
  <2>3. QED BY <1>3, <2>2
<1>4. ASSUME NEW i \in I, NEW d \in I \ {i}, h[d][M[nxt[i]][1]] = M[nxt[i]][2]
      PROVE  d = nxt[i]
  <2>1. nxt[i] \in I
    OBVIOUS
  <2> DEFINE side == M[nxt[i]][1]
  <2>0. side \in Sides /\ d \in I
    BY <1>1, <2>1
  <2>2. M[d] = M[nxt[i]] \/ M[nxt[d]] = M[nxt[i]]
    <3>1. M[nxt[i]] = <<side, h[d][side]>>
      BY <1>1, <1>4, <2>1
    <3> HIDE DEF side
    <3>2. M[d] = <<side, h[d][side]>> \/ M[nxt[d]] = <<side, h[d][side]>>
      BY <1>2, <2>0
    <3>3. QED BY <3>1, <3>2
  <2>3. d = nxt[i] \/ nxt[d] = nxt[i]
    BY <1>1, <2>1, <2>2
  <2>4. nxt[d] = nxt[i] => d = i
    OBVIOUS
  <2>5. QED BY <1>4, <2>3, <2>4
<1>5. ASSUME NEW i \in I, NEW side \in Sides PROVE One(Partners(h, I, i, side))
  <2>1. CASE side = M[i][1]
    <3>1. prv[i] \in I \ {i} /\ nxt[prv[i]] = i
      OBVIOUS
    <3>2. h[prv[i]][M[nxt[prv[i]]][1]] = M[nxt[prv[i]]][2]
      BY <3>1
    <3>3. h[prv[i]][side] = h[i][side] /\ h[i][side] = M[i][2]
      BY <2>1, <3>1, <3>2
    <3>4. Partners(h, I, i, side) = {prv[i]}
      BY <1>3, <2>1, <3>1, <3>3 DEF Partners
    <3>5. QED BY <3>4 DEF One
  <2>2. CASE side = M[nxt[i]][1]
    <3>1. nxt[i] \in I \ {i}
      OBVIOUS
    <3>2. h[nxt[i]][side] = h[i][side] /\ h[i][side] = M[nxt[i]][2]
      BY <2>2, <3>1
    <3>3. Partners(h, I, i, side) = {nxt[i]}
      BY <1>4, <2>2, <3>1, <3>2 DEF Partners
    <3>4. QED BY <3>3 DEF One
  <2>3. side = M[i][1] \/ side = M[nxt[i]][1]
    BY <1>1 DEF Sides
  <2>4. QED BY <2>1, <2>2, <2>3
<1>6. ASSUME NEW D \in (SUBSET I) \ {{}, I}, Regular(h, D) PROVE FALSE
  <2>1. IsFiniteSet(D)
    BY FS_Subset
  <2>2. ASSUME NEW i \in D PROVE nxt[i] \in D
    <3> DEFINE side == M[nxt[i]][1]
    <3>1. i \in I /\ side \in Sides /\ h[i][side] = M[nxt[i]][2]
      BY <1>1
    <3> HIDE DEF side
    <3>2. One(Partners(h, D, i, side))
      BY <1>6, <2>1, <3>1, RegularIn
    <3>3. PICK d \in D \ {i} : h[d][side] = h[i][side]
      BY <3>2 DEF One, Partners
    <3>4. d = nxt[i]
      BY <1>4, <3>1, <3>3 DEF side
    <3>5. QED BY <3>3, <3>4
  <2>3. QED BY <2>2
<1>7. Regular(h, I)
  BY <1>5, RegularIn
<1>8. QED BY <1>6, <1>7 DEF SingleCycle

\* The order of the edges in a loop: down the first path from where the paths meet, then up
\* the second one.
RingNext(a, b) ==
  [j \in 1 .. a + b - 1 |-> IF j = 1 THEN IF b > 1 THEN a + 1 ELSE a
                            ELSE IF j <= a THEN j - 1
                            ELSE IF j < a + b - 1 THEN j + 1 ELSE a]
RingPrev(a, b) ==
  [j \in 1 .. a + b - 1 |-> IF j < a THEN j + 1
                            ELSE IF j = a THEN IF b > 1 THEN a + b - 1 ELSE 1
                            ELSE IF j = a + 1 THEN 1 ELSE j - 1]

LEMMA RingOrder ==
  ASSUME NEW a \in Nat \ {0}, NEW b \in Nat \ {0}, a + b - 1 > 1
  PROVE  Around(1 .. a + b - 1, RingNext(a, b), RingPrev(a, b))
<1> DEFINE L == a + b - 1
           I == 1 .. L
           nxt == RingNext(a, b)
           prv == RingPrev(a, b)
           Nxt(j) == IF j = 1 THEN IF b > 1 THEN a + 1 ELSE a
                     ELSE IF j <= a THEN j - 1 ELSE IF j < L THEN j + 1 ELSE a
           Prv(j) == IF j < a THEN j + 1 ELSE IF j = a THEN IF b > 1 THEN L ELSE 1
                     ELSE IF j = a + 1 THEN 1 ELSE j - 1
<1>1. L \in Nat /\ L > 1 /\ a \in Nat /\ b \in Nat /\ a >= 1 /\ b >= 1 /\ L = a + b - 1
  OBVIOUS
<1>2. nxt = [j \in I |-> Nxt(j)] /\ prv = [j \in I |-> Prv(j)]
  BY DEF RingNext, RingPrev
<1> HIDE DEF L
<1>3. \A j \in I : Nxt(j) \in I /\ Prv(j) \in I
  BY <1>1
<1>4. \A j \in I : Prv(Nxt(j)) = j /\ Nxt(Prv(j)) = j /\ Nxt(j) # j
  BY <1>1
<1> HIDE DEF Nxt, Prv, nxt, prv
<1>5. /\ nxt \in [I -> I] /\ prv \in [I -> I] /\ \A j \in I : nxt[j] = Nxt(j) /\ prv[j] = Prv(j)
  BY <1>2, <1>3
<1>6. \A i \in I : prv[nxt[i]] = i /\ nxt[prv[i]] = i /\ nxt[i] # i
  BY <1>3, <1>4, <1>5
<1>7. ASSUME NEW D \in SUBSET I, D # {}, \A i \in D : nxt[i] \in D
      PROVE  D = I
  <2>1. \A i \in D : Nxt(i) \in D
    BY <1>5, <1>7
  <2>2. 1 \in D
    <3>1. D \in SUBSET Nat
      BY <1>1
    <3>2. PICK x \in D : \A y \in D : x <= y
      BY <1>7, <3>1, LeastOf
    <3>3. CASE x <= a
      <4>1. x # 1 => Nxt(x) = x - 1 /\ ~(x <= x - 1)
        BY <1>1, <3>1, <3>3 DEF Nxt
      <4>2. QED BY <2>1, <3>2, <4>1
    <3>4. CASE ~(x <= a)
      <4> DEFINE T == {t \in x .. L : t \notin D}
      <4>1. T = {}
        <5>1. SUFFICES ASSUME T # {} PROVE FALSE
          OBVIOUS
        <5>2. PICK t \in T : \A y \in T : t <= y
          <6>1. T \in SUBSET Nat
            BY <1>1, <3>1
          <6> HIDE DEF T
          <6>2. QED BY <5>1, <6>1, LeastOf
        <5>3. x \in I /\ t \in x .. L /\ t # x /\ t - 1 \in x .. L /\ ~(t <= t - 1)
          BY <1>1, <3>1, <3>2, <5>2
        <5>4. t - 1 \in D
          BY <5>2, <5>3
        <5>5. Nxt(t - 1) = t
          BY <1>1, <3>4, <5>3 DEF Nxt
        <5>6. QED BY <2>1, <5>2, <5>4, <5>5
      <4>2. L \in D /\ L > a /\ L # 1
        BY <1>1, <3>4, <4>1
      <4>3. Nxt(L) = a
        BY <1>1, <4>2 DEF Nxt
      <4>4. a \in D /\ ~(x <= a)
        BY <2>1, <3>4, <4>2, <4>3
      <4>5. QED BY <3>2, <4>4
    <3>5. QED BY <3>3, <3>4
  <2>3. \A t \in a + 1 .. L : t \in D
    <3> DEFINE T == {t \in a + 1 .. L : t \notin D}
    <3>1. SUFFICES ASSUME T # {} PROVE FALSE
      OBVIOUS
    <3>2. PICK t \in T : \A y \in T : t <= y
      <4>1. T \in SUBSET Nat
        BY <1>1
      <4> HIDE DEF T
      <4>2. QED BY <3>1, <4>1, LeastOf
    <3>3. CASE t = a + 1
      <4>1. Nxt(1) = t
        BY <1>1, <3>2, <3>3 DEF Nxt
      <4>2. QED BY <2>1, <2>2, <3>2, <4>1
    <3>4. CASE t # a + 1
      <4>1. t - 1 \in a + 1 .. L /\ ~(t <= t - 1) /\ Nxt(t - 1) = t
        BY <1>1, <3>2, <3>4 DEF Nxt
      <4>2. t - 1 \in D
        BY <3>2, <4>1
      <4>3. QED BY <2>1, <3>2, <4>1, <4>2
    <3>5. QED BY <3>3, <3>4
  <2>4. a \in D
    <3>1. CASE b > 1
      <4>1. L \in a + 1 .. L /\ Nxt(L) = a
        BY <1>1, <3>1 DEF Nxt
      <4>2. QED BY <2>1, <2>3, <4>1
    <3>2. CASE ~(b > 1)
      <4>1. Nxt(1) = a
        BY <3>2 DEF Nxt
      <4>2. QED BY <2>1, <2>2, <4>1
    <3>3. QED BY <3>1, <3>2
  <2>5. \A t \in 1 .. a : t \in D
    <3> DEFINE T == {d \in 0 .. a - 1 : a - d \notin D}
    <3>1. T = {}
      <4>1. SUFFICES ASSUME T # {} PROVE FALSE
        OBVIOUS
      <4>2. PICK d \in T : \A y \in T : d <= y
        <5>1. T \in SUBSET Nat
          BY <1>1
        <5> HIDE DEF T
        <5>2. QED BY <4>1, <5>1, LeastOf
      <4>3. d # 0 /\ d - 1 \in 0 .. a - 1 /\ ~(d <= d - 1)
        BY <1>1, <2>4, <4>2
      <4>4. a - (d - 1) \in D
        BY <4>2, <4>3
      <4>5. Nxt(a - (d - 1)) = a - d
        BY <1>1, <4>2, <4>3 DEF Nxt
      <4>6. QED BY <2>1, <4>2, <4>4, <4>5
    <3>2. ASSUME NEW t \in 1 .. a PROVE t \in D
      <4>1. a - t \in 0 .. a - 1 /\ a - (a - t) = t
        BY <1>1
      <4>2. QED BY <3>1, <4>1
    <3>3. QED BY <3>2
  <2>6. \A t \in I : t \in D
    BY <1>1, <2>3, <2>5
  <2>7. QED BY <1>7, <2>6
<1>8. QED BY <1>5, <1>6, <1>7 DEF L, nxt, prv, Around

-----------------------------------------------------------------------------
(* The loop that two paths close with the edge between them *)

InPieces(E, x, A, B, L) ==
  /\ L \in Seq(E) /\ Len(L) = 1 + Len(A) + Len(B) /\ L[1] = x
  /\ \A j \in 2 .. 1 + Len(A) : L[j] = A[j - 1]
  /\ \A j \in 2 + Len(A) .. 1 + Len(A) + Len(B) : L[j] = B[j - 1 - Len(A)]

LEMMA Three ==
  ASSUME NEW E, NEW x \in E, NEW A \in Seq(E), NEW B \in Seq(E)
  PROVE  InPieces(E, x, A, B, <<x>> \o A \o B)
<1>1. <<x>> \in Seq(E) /\ Len(<<x>>) = 1 /\ <<x>>[1] = x /\ Len(A) \in Nat /\ Len(B) \in Nat
  OBVIOUS
<1> DEFINE K == <<x>> \o A
<1>2. /\ K \in Seq(E) /\ Len(K) = 1 + Len(A) /\ K[1] = x
      /\ \A j \in 2 .. 1 + Len(A) : K[j] = A[j - 1]
  OBVIOUS
<1> HIDE DEF K
<1> DEFINE L == K \o B
<1>3. /\ L \in Seq(E) /\ Len(L) = Len(K) + Len(B)
      /\ \A j \in 1 .. Len(K) : L[j] = K[j]
      /\ \A j \in Len(K) + 1 .. Len(K) + Len(B) : L[j] = B[j - Len(K)]
  BY SMTT(20), <1>2
<1> HIDE DEF L
<1>4. L[1] = x /\ \A j \in 2 .. 1 + Len(A) : L[j] = A[j - 1]
  BY <1>1, <1>2, <1>3
<1>5. \A j \in 2 + Len(A) .. 1 + Len(A) + Len(B) : L[j] = B[j - 1 - Len(A)]
  <2> SUFFICES ASSUME NEW j \in 2 + Len(A) .. 1 + Len(A) + Len(B) PROVE L[j] = B[j - 1 - Len(A)]
    OBVIOUS
  <2>1. j \in Len(K) + 1 .. Len(K) + Len(B) /\ j - Len(K) = j - 1 - Len(A)
    BY <1>1, <1>2
  <2>2. QED BY <1>3, <2>1
<1>6. QED BY <1>1, <1>2, <1>3, <1>4, <1>5 DEF K, L, InPieces

\* The paths meet at a and b, for the first time.
Meet(us, vs, a, b) ==
  /\ a \in 1 .. Len(us) /\ b \in 1 .. Len(vs) /\ us[a] = vs[b]
  /\ \A i \in 1 .. a, j \in 1 .. b : us[i] = vs[j] => i = a /\ j = b

Along(us, m) == [i \in 1 .. m |-> Edge(us[i], us[i + 1])]
LoopTo(us, vs, a, b) == <<Edge(us[1], vs[1])>> \o Along(us, a - 1) \o Along(vs, b - 1)

LEMMA LoopIs ==
  ASSUME NEW us, NEW vs, Rooted(us), Rooted(vs),
         us[Len(us)] = vs[Len(vs)]
  PROVE  \E a, b \in Nat : Meet(us, vs, a, b) /\ Loop(us, vs) = LoopTo(us, vs, a, b)
<1>0. \A i \in 1 .. Len(us), j \in 1 .. Len(vs) : us[i] = vs[j] => Len(us) - i = Len(vs) - j
  BY SameDepth
<1> DEFINE min == IF Len(us) < Len(vs) THEN Len(us) ELSE Len(vs)
           p == Len(us) - min
           q == Len(vs) - min
           First1(i) == /\ us[p + i] = vs[q + i]
                        /\ \A j \in 1 .. i - 1 : us[p + j] # vs[q + j]
           k == CHOOSE i \in 1 .. min : First1(i)
           T == {i \in 1 .. min : us[p + i] = vs[q + i]}
<1>1. /\ Len(us) \in Nat /\ Len(vs) \in Nat /\ Len(us) > 0 /\ Len(vs) > 0
  BY DEF Rooted, Runs
<1>2. /\ min \in Nat /\ min > 0 /\ p \in Nat /\ q \in Nat
      /\ p + min = Len(us) /\ q + min = Len(vs)
  BY <1>1
<1> HIDE DEF min, p, q
<1>3. min \in T
  <2>1. us[p + min] = vs[q + min] /\ min \in 1 .. min
    BY <1>2
  <2>2. QED BY <2>1
<1>4. PICK x \in T : \A y \in T : x <= y
  <2>1. T \in SUBSET Nat
    BY <1>2
  <2> HIDE DEF T
  <2>2. QED BY <1>3, <2>1, LeastOf
<1>5. First1(x) /\ x \in 1 .. min
  <2>1. x \in 1 .. min /\ us[p + x] = vs[q + x]
    BY <1>4
  <2>2. ASSUME NEW j \in 1 .. x - 1 PROVE us[p + j] # vs[q + j]
    <3>1. j \in 1 .. min /\ ~(x <= j)
      BY <1>2, <2>1
    <3>2. j \notin T
      BY <1>4, <3>1
    <3>3. QED BY <3>1, <3>2
  <2>3. QED BY <2>1, <2>2
<1>6. k \in 1 .. min /\ First1(k)
  BY <1>5
<1>7. Loop(us, vs) = <<Edge(us[1], vs[1])>> \o Along(us, p + k - 1) \o Along(vs, q + k - 1)
  BY DEF Loop, Along, min, p, q
<1> HIDE DEF k, T
<1> PICK a, b \in Nat : a = p + k /\ b = q + k
  BY <1>2, <1>6
<1>8. a \in 1 .. Len(us) /\ b \in 1 .. Len(vs) /\ us[a] = vs[b] /\ a \in Nat /\ b \in Nat
  BY <1>1, <1>2, <1>6
<1>9. ASSUME NEW i \in 1 .. a, NEW j \in 1 .. b, us[i] = vs[j]
      PROVE  i = a /\ j = b
  <2>1. i \in 1 .. Len(us) /\ j \in 1 .. Len(vs)
    BY <1>1, <1>8
  <2>2. Len(us) - i = Len(vs) - j
    BY <1>9, <1>0, <2>1
  <2>3. i - p \in 1 .. k /\ i - p = j - q /\ p + (i - p) = i /\ q + (i - p) = j
    <3>1. /\ k \in Nat /\ i \in Nat /\ j \in Nat /\ i > 0 /\ j > 0 /\ i <= p + k /\ j <= q + k
          /\ (p + min) - i = (q + min) - j
      BY <1>1, <1>2, <1>6, <2>1, <2>2
    <3>2. p = 0 \/ q = 0
      BY <1>1 DEF p, q, min
    <3>3. i - p = j - q
      BY <1>2, <3>1
    <3>4. i - p \in Int /\ i - p <= k /\ p + (i - p) = i /\ q + (i - p) = j /\ i - p > 0
      BY <1>2, <3>1, <3>2, <3>3
    <3>5. QED BY <3>1, <3>3, <3>4
  <2>4. ~(i - p \in 1 .. k - 1)
    BY <1>6, <1>9, <2>3
  <2>5. i - p = k
    BY <1>6, <2>3, <2>4
  <2>6. QED BY <1>2, <1>6, <2>3, <2>5
<1>10. Meet(us, vs, a, b)
  BY <1>8, <1>9 DEF Meet
<1>11. Loop(us, vs) = LoopTo(us, vs, a, b)
  <2>1. p + k - 1 = a - 1 /\ q + k - 1 = b - 1
    BY <1>2, <1>6
  <2>2. QED BY <1>7, <2>1 DEF LoopTo
<1>12. QED BY <1>8, <1>10, <1>11

GoesAround(L, us, vs, a, b) ==
  /\ Len(L) = a + b - 1 /\ L \in Seq({Edge(x, y) : x \in Keys, y \in Keys})
  /\ L[1] = Edge(us[1], vs[1])
  /\ \A j \in 2 .. a : L[j] = Edge(us[j - 1], us[j])
  /\ \A j \in a + 1 .. a + b - 1 : L[j] = Edge(vs[j - a], vs[j - a + 1])

LEMMA LoopEdges ==
  ASSUME NEW us, NEW vs, Runs(us), Runs(vs), NEW a \in Nat, NEW b \in Nat, Meet(us, vs, a, b)
  PROVE  GoesAround(LoopTo(us, vs, a, b), us, vs, a, b)
<1> DEFINE A == Along(us, a - 1)
           B == Along(vs, b - 1)
           E == {Edge(x, y) : x \in Keys, y \in Keys}
           L == LoopTo(us, vs, a, b)
<1>1. /\ a \in 1 .. Len(us) /\ b \in 1 .. Len(vs) /\ a - 1 \in Nat /\ b - 1 \in Nat
      /\ \A i \in 1 .. Len(us) : us[i] \in Keys
      /\ \A i \in 1 .. Len(vs) : vs[i] \in Keys
      /\ Len(us) \in Nat /\ Len(vs) \in Nat
  BY DEF Meet, Runs
<1>2. \A x, y \in Keys : Edge(x, y) \in E
  OBVIOUS
<1> HIDE DEF E
<1>3. Edge(us[1], vs[1]) \in E
  BY <1>1, <1>2
<1>4. \A i \in 1 .. a - 1 : Edge(us[i], us[i + 1]) \in E
  BY <1>1, <1>2
<1>5. \A i \in 1 .. b - 1 : Edge(vs[i], vs[i + 1]) \in E
  BY <1>1, <1>2
<1>6. A \in Seq(E) /\ Len(A) = a - 1
  BY <1>1, <1>4 DEF Along
<1>7. B \in Seq(E) /\ Len(B) = b - 1
  BY <1>1, <1>5 DEF Along
<1>8. L = <<Edge(us[1], vs[1])>> \o A \o B
  BY DEF LoopTo
<1>9. /\ \A i \in 1 .. a - 1 : A[i] = Edge(us[i], us[i + 1])
      /\ \A i \in 1 .. b - 1 : B[i] = Edge(vs[i], vs[i + 1])
  BY DEF Along
<1> HIDE DEF A, B, L
<1>10. /\ L \in Seq(E) /\ Len(L) = 1 + Len(A) + Len(B) /\ L[1] = Edge(us[1], vs[1])
       /\ \A j \in 2 .. 1 + Len(A) : L[j] = A[j - 1]
       /\ \A j \in 2 + Len(A) .. 1 + Len(A) + Len(B) : L[j] = B[j - 1 - Len(A)]
  <2>1. InPieces(E, Edge(us[1], vs[1]), A, B, <<Edge(us[1], vs[1])>> \o A \o B)
    BY <1>3, <1>6, <1>7, Three, Zenon
  <2>2. QED BY <1>8, <2>1 DEF InPieces
<1>11. ASSUME NEW j \in 2 .. a PROVE L[j] = Edge(us[j - 1], us[j])
  <2>1. j \in 2 .. 1 + Len(A) /\ j - 1 \in 1 .. a - 1 /\ (j - 1) + 1 = j
    BY <1>1, <1>6
  <2>2. QED BY <1>9, <1>10, <2>1
<1>12. ASSUME NEW j \in a + 1 .. a + b - 1 PROVE L[j] = Edge(vs[j - a], vs[j - a + 1])
  <2>1. j \in 2 + Len(A) .. 1 + Len(A) + Len(B) /\ j - 1 - Len(A) = j - a /\ j - a \in 1 .. b - 1
    BY <1>1, <1>6, <1>7
  <2>2. QED BY <1>9, <1>10, <2>1
<1>13. QED BY <1>1, <1>6, <1>7, <1>10, <1>11, <1>12 DEF E, L, GoesAround

\* A node under its first name.
Node(x) == <<x[1], Original(x[2], x[1])>>
Undone == \A e \in alive, s \in Sides : Original(names[e][s], s) = graph[e][s]

LEMMA EdgeOf ==
  ASSUME Renamed, Undone, NEW d \in alive, NEW x \in Keys, NEW y \in Keys, Joins(d, x, y)
  PROVE  /\ Edge(x, y) = graph[d] /\ x[1] # y[1] /\ x \in Ends2(d) /\ y \in Ends2(d)
         /\ graph[d][Node(x)[1]] = Node(x)[2] /\ graph[d][Node(y)[1]] = Node(y)[2]
<1> DEFINE U == <<"u", names[d].u>>
           V == <<"v", names[d].v>>
<1>1. \/ x = U /\ y = V
      \/ x = V /\ y = U
  <2>1. {x, y} = {U, V} /\ U # V
    BY DEF Joins, Ends2
  <2> HIDE DEF U, V
  <2>2. QED BY <2>1
<1>2. U[1] = "u" /\ V[1] = "v" /\ U[2] = names[d]["u"] /\ V[2] = names[d]["v"]
  OBVIOUS
<1>3. "u" \in Sides /\ "v" \in Sides /\ d \in Edges
  BY DEF Sides, Renamed
<1>4. Original(names[d]["u"], "u") = graph[d]["u"] /\ Original(names[d]["v"], "v") = graph[d]["v"]
  BY <1>3 DEF Undone
<1>5. graph[d] = [u |-> graph[d]["u"], v |-> graph[d]["v"]]
  <2>1. graph[d] \in Ends
    BY <1>3, NodesTyped DEF Renamed
  <2>2. QED BY <2>1 DEF Ends
<1>6. x \in Ends2(d) /\ y \in Ends2(d)
  BY DEF Joins
<1> HIDE DEF U, V
<1>7. Edge(x, y) = [u |-> Original(names[d]["u"], "u"), v |-> Original(names[d]["v"], "v")]
  BY <1>1, <1>2 DEF Edge
<1>8. Node(U) = <<"u", graph[d]["u"]>> /\ Node(V) = <<"v", graph[d]["v"]>>
  BY <1>2, <1>4 DEF Node
<1>9. QED BY <1>1, <1>2, <1>4, <1>5, <1>6, <1>7, <1>8

\* Different names stand for different nodes.
LEMMA NodesApart ==
  ASSUME Renamed, Undone, NEW d \in alive, NEW e \in alive, NEW x \in Ends2(d), NEW y \in Ends2(e),
         Node(x) = Node(y)
  PROVE  x = y
<1>1. PICK s \in Sides : x = <<s, names[d][s]>>
  BY DEF Ends2, Sides
<1>2. PICK t \in Sides : y = <<t, names[e][t]>>
  BY DEF Ends2, Sides
<1>3. Node(x) = <<s, graph[d][s]>> /\ Node(y) = <<t, graph[e][t]>>
  BY <1>1, <1>2 DEF Node, Undone
<1>4. s = t /\ graph[d][s] = graph[e][s]
  <2>1. <<s, graph[d][s]>> = <<t, graph[e][t]>>
    BY <1>3
  <2>2. s = t /\ graph[d][s] = graph[e][t]
    BY <2>1
  <2>3. QED BY <2>2
<1>5. names[d][s] = names[e][s]
  BY <1>4 DEF Renamed
<1>6. QED BY <1>1, <1>2, <1>4, <1>5

LEMMA LoopIsCycle ==
  ASSUME Renamed, Undone, LinkInv, NEW us, NEW vs,
         Rooted(us), Rooted(vs), us[Len(us)] = vs[Len(vs)],
         NEW e \in alive, Joins(e, us[1], vs[1]), Len(Loop(us, vs)) > 1
  PROVE  /\ Loop(us, vs) \in Seq({graph[d] : d \in alive})
         /\ SingleCycle(Loop(us, vs), 1 .. Len(Loop(us, vs)))
<1>16. Runs(us) /\ Runs(vs)
  BY DEF Rooted
<1>0. /\ \A i, j \in 1 .. Len(us) : us[i] = us[j] => Len(us) - i = Len(us) - j
      /\ \A i, j \in 1 .. Len(vs) : vs[i] = vs[j] => Len(vs) - i = Len(vs) - j
  BY SameDepth
<1>1. PICK a \in Nat, b \in Nat : Meet(us, vs, a, b) /\ Loop(us, vs) = LoopTo(us, vs, a, b)
  BY LoopIs, Zenon
<1> DEFINE L == Loop(us, vs)
           n == a + b - 1
           I == 1 .. n
           nxt == RingNext(a, b)
           prv == RingPrev(a, b)
           W(j) == IF j <= a THEN us[j] ELSE vs[j - a]
<1>2. /\ Len(L) = n /\ L \in Seq({Edge(x, y) : x \in Keys, y \in Keys})
      /\ L[1] = Edge(us[1], vs[1])
      /\ \A j \in 2 .. a : L[j] = Edge(us[j - 1], us[j])
      /\ \A j \in a + 1 .. n : L[j] = Edge(vs[j - a], vs[j - a + 1])
  <2>1. GoesAround(LoopTo(us, vs, a, b), us, vs, a, b)
    BY <1>1, <1>16, LoopEdges
  <2>2. QED BY <1>1, <2>1 DEF GoesAround
<1>3. /\ a \in 1 .. Len(us) /\ b \in 1 .. Len(vs) /\ us[a] = vs[b] /\ n > 1 /\ n \in Nat
      /\ \A i \in 1 .. a, j \in 1 .. b : us[i] = vs[j] => i = a /\ j = b
      /\ \A i \in 1 .. Len(us) : us[i] \in Keys
      /\ \A i \in 1 .. Len(vs) : vs[i] \in Keys
      /\ Len(us) \in Nat /\ Len(vs) \in Nat
      /\ \A i \in 2 .. Len(us) : us[i] = link[us[i - 1]]
      /\ \A i \in 2 .. Len(vs) : vs[i] = link[vs[i - 1]]
  BY <1>1, <1>2, <1>16 DEF Meet, Runs
<1>17. /\ a \in Nat /\ b \in Nat /\ a >= 1 /\ b >= 1 /\ a <= Len(us) /\ b <= Len(vs)
       /\ Len(us) \in Nat /\ Len(vs) \in Nat /\ n > 1
  BY <1>3
<1>4. Around(I, nxt, prv)
  <2>1. a \in Nat \ {0} /\ b \in Nat \ {0}
    BY <1>3
  <2>2. QED BY <1>3, <2>1, RingOrder, Zenon
<1> HIDE DEF L
<1>5. ASSUME NEW k \in Keys, link[k] # Nil PROVE \E d \in alive : Joins(d, k, link[k])
  BY <1>5 DEF LinkInv
<1>6. ASSUME NEW j \in I
      PROVE  \E d \in alive : \E x, y \in Keys :
               Joins(d, x, y) /\ L[j] = Edge(x, y) /\ {x, y} = {W(j), W(nxt[j])}
  <2> DEFINE to == nxt[j]
  <2>1. to = IF j = 1 THEN IF b > 1 THEN a + 1 ELSE a
             ELSE IF j <= a THEN j - 1 ELSE IF j < n THEN j + 1 ELSE a
    BY DEF RingNext
  <2> HIDE DEF to
  <2>2. CASE j = 1
    <3>1. W(j) = us[1]
      BY <1>3, <2>2
    <3>2. W(to) = vs[1]
      BY <1>3, <2>1, <2>2
    <3>3. us[1] \in Keys /\ vs[1] \in Keys
      BY <1>3
    <3>4. QED BY <1>2, <2>2, <3>1, <3>2, <3>3 DEF to
  <2>3. CASE j # 1 /\ j <= a
    <3>1. W(j) = us[j] /\ W(to) = us[j - 1] /\ j \in 2 .. a
      BY <1>3, <2>1, <2>3
    <3>2. j \in 2 .. Len(us) /\ j \in 1 .. Len(us) /\ j - 1 \in 1 .. Len(us)
      BY <1>17, <2>3
    <3>3. us[j - 1] \in Keys /\ us[j] \in Keys /\ us[j] = link[us[j - 1]] /\ us[j] # Nil
      BY <1>3, <3>2, NilApart
    <3>4. PICK d \in alive : Joins(d, us[j - 1], us[j])
      BY <1>5, <3>3
    <3>5. L[j] = Edge(us[j - 1], us[j]) /\ {us[j - 1], us[j]} = {W(j), W(to)}
      BY <1>2, <3>1
    <3> HIDE DEF W
    <3>6. QED BY <3>3, <3>4, <3>5 DEF to
  <2>4. CASE ~(j <= a)
    <3>1. W(j) = vs[j - a] /\ W(to) = vs[j - a + 1] /\ j \in a + 1 .. n
      <4>1. W(j) = vs[j - a] /\ j \in a + 1 .. n
        BY <1>3, <2>4
      <4>2. CASE j < n
        BY <1>3, <2>1, <2>4, <4>2
      <4>3. CASE j = n
        <5>1. to = a /\ W(to) = us[a] /\ j - a + 1 = b
          BY <1>3, <2>1, <2>4, <4>3
        <5>2. QED BY <1>3, <4>1, <5>1
      <4>4. QED BY <1>3, <4>1, <4>2, <4>3
    <3>2. j - a + 1 \in 2 .. Len(vs) /\ j - a \in 1 .. Len(vs) /\ j - a + 1 \in 1 .. Len(vs)
          /\ (j - a + 1) - 1 = j - a
      BY <1>3, <2>4
    <3>3. vs[j - a] \in Keys /\ vs[j - a + 1] \in Keys /\ vs[j - a + 1] = link[vs[j - a]]
          /\ vs[j - a + 1] # Nil
      BY <1>3, <3>2, NilApart
    <3>4. PICK d \in alive : Joins(d, vs[j - a], vs[j - a + 1])
      BY <1>5, <3>3
    <3>5. L[j] = Edge(vs[j - a], vs[j - a + 1]) /\ {vs[j - a], vs[j - a + 1]} = {W(j), W(to)}
      BY <1>2, <3>1
    <3> DEFINE x == vs[j - a]
               y == vs[j - a + 1]
    <3>6. x \in Keys /\ y \in Keys /\ Joins(d, x, y) /\ L[j] = Edge(x, y) /\ {x, y} = {W(j), W(to)}
      BY <3>3, <3>4, <3>5
    <3> HIDE DEF W, x, y
    <3>7. QED BY <3>6 DEF to
  <2>5. QED BY <1>3, <2>2, <2>3, <2>4
<1>7. ASSUME NEW i \in I, NEW j \in I, W(i) = W(j) PROVE i = j
  <2>1. ASSUME NEW k \in 1 .. a, NEW m \in 1 .. a, us[k] = us[m] PROVE k = m
    <3>1. k \in 1 .. Len(us) /\ m \in 1 .. Len(us)
      BY <1>3
    <3>2. Len(us) - k = Len(us) - m
      BY <1>0, <2>1, <3>1
    <3>3. QED BY <1>3, <3>2
  <2>2. ASSUME NEW k \in 1 .. b, NEW m \in 1 .. b, vs[k] = vs[m] PROVE k = m
    <3>1. k \in 1 .. Len(vs) /\ m \in 1 .. Len(vs)
      BY <1>3
    <3>2. Len(vs) - k = Len(vs) - m
      BY <1>0, <2>2, <3>1
    <3>3. QED BY <1>3, <3>2
  <2>3. CASE i <= a /\ j <= a
    BY <1>7, <2>1, <2>3
  <2>4. CASE ~(i <= a) /\ ~(j <= a)
    <3>1. i - a \in 1 .. b /\ j - a \in 1 .. b /\ vs[i - a] = vs[j - a]
      BY <1>3, <1>7, <2>4
    <3>2. i - a = j - a
      BY <2>2, <3>1
    <3>3. QED BY <1>3, <3>2
  <2>5. CASE i <= a /\ ~(j <= a)
    <3>1. i \in 1 .. a /\ j - a \in 1 .. b /\ j - a # b /\ us[i] = vs[j - a]
      BY <1>3, <1>7, <2>5
    <3>2. QED BY <1>3, <3>1
  <2>6. CASE ~(i <= a) /\ j <= a
    <3>1. j \in 1 .. a /\ i - a \in 1 .. b /\ i - a # b /\ us[j] = vs[i - a]
      BY <1>3, <1>7, <2>6
    <3>2. QED BY <1>3, <3>1
  <2>7. QED BY <2>3, <2>4, <2>5, <2>6
<1> HIDE DEF W, nxt, prv
<1>8. ASSUME NEW j \in I
      PROVE  /\ nxt[j] \in I
             /\ \E d \in alive :
                  /\ L[j] = graph[d] /\ W(j)[1] # W(nxt[j])[1]
                  /\ W(j) \in Ends2(d) /\ W(nxt[j]) \in Ends2(d)
                  /\ L[j][Node(W(j))[1]] = Node(W(j))[2]
                  /\ L[j][Node(W(nxt[j]))[1]] = Node(W(nxt[j]))[2]
  <2>1. PICK d \in alive : \E x, y \in Keys :
               Joins(d, x, y) /\ L[j] = Edge(x, y) /\ {x, y} = {W(j), W(nxt[j])}
    BY <1>6
  <2>2. PICK x \in Keys, y \in Keys :
               Joins(d, x, y) /\ L[j] = Edge(x, y) /\ {x, y} = {W(j), W(nxt[j])}
    BY <2>1
  <2>3. /\ L[j] = graph[d] /\ x[1] # y[1] /\ x \in Ends2(d) /\ y \in Ends2(d)
        /\ L[j][Node(x)[1]] = Node(x)[2] /\ L[j][Node(y)[1]] = Node(y)[2]
    BY <2>2, EdgeOf
  <2>4. \/ W(j) = x /\ W(nxt[j]) = y
        \/ W(j) = y /\ W(nxt[j]) = x
    BY <2>2, <2>3
  <2>5. nxt[j] \in I
    BY <1>4 DEF Around
  <2>6. CASE W(j) = x /\ W(nxt[j]) = y
    BY <2>3, <2>5, <2>6
  <2>7. CASE W(j) = y /\ W(nxt[j]) = x
    BY <2>3, <2>5, <2>7
  <2>8. QED BY <2>4, <2>6, <2>7
<1> DEFINE X == {Node(W(j))[2] : j \in I}
           M == [j \in I |-> Node(W(j))]
<1>9. M \in [I -> Sides \X X]
  <2>1. ASSUME NEW j \in I PROVE Node(W(j)) \in Sides \X X
    <3>1. PICK d \in alive : W(j) \in Ends2(d)
      BY <1>8
    <3>2. W(j)[1] \in Sides
      BY <3>1 DEF Ends2, Sides
    <3>3. QED BY <3>2 DEF Node
  <2>2. QED BY <2>1
<1>10. \A i, j \in I : M[i] = M[j] => i = j
  <2> SUFFICES ASSUME NEW i \in I, NEW j \in I, Node(W(i)) = Node(W(j)) PROVE i = j
    OBVIOUS
  <2>1. PICK c \in alive : W(i) \in Ends2(c)
    BY <1>8
  <2>2. PICK d \in alive : W(j) \in Ends2(d)
    BY <1>8
  <2>3. W(i) = W(j)
    BY <2>1, <2>2, NodesApart
  <2>4. QED BY <1>7, <2>3
<1>11. \A j \in I : /\ M[j][1] # M[nxt[j]][1] /\ L[j][M[j][1]] = M[j][2]
                    /\ L[j][M[nxt[j]][1]] = M[nxt[j]][2]
  <2> SUFFICES ASSUME NEW j \in I
               PROVE  /\ M[j][1] # M[nxt[j]][1] /\ L[j][M[j][1]] = M[j][2]
                      /\ L[j][M[nxt[j]][1]] = M[nxt[j]][2]
    OBVIOUS
  <2>1. nxt[j] \in I /\ M[j] = Node(W(j)) /\ M[nxt[j]] = Node(W(nxt[j]))
    BY <1>8
  <2>2. Node(W(j))[1] = W(j)[1] /\ Node(W(nxt[j]))[1] = W(nxt[j])[1]
    BY DEF Node
  <2> HIDE DEF M
  <2>3. QED BY <1>8, <2>1, <2>2
<1>12. IsFiniteSet(I) /\ I # {}
  <2>1. 1 \in Int /\ n \in Int /\ 1 \in I
    BY <1>3
  <2>2. QED BY <2>1, FS_Interval
<1> HIDE DEF M, X, I, n
<1>13. SingleCycle(L, I)
  <2>1. Meets(L, I, nxt, M, X)
    BY <1>9, <1>10, <1>11 DEF Meets
  <2>2. QED BY <1>4, <1>12, <2>1, Ring
<1>14. L \in Seq({graph[d] : d \in alive})
  <2>1. \A j \in I : L[j] \in {graph[d] : d \in alive}
    BY <1>8
  <2>2. Len(L) = n /\ L \in Seq({Edge(x, y) : x \in Keys, y \in Keys})
    BY <1>2
  <2>3. L = [j \in 1 .. n |-> L[j]] /\ n \in Nat
    BY <1>3, <2>2
  <2>4. QED BY <2>1, <2>3 DEF I
<1>15. QED BY <1>2, <1>13, <1>14 DEF L, I, n

-----------------------------------------------------------------------------
(* The edges of the cycle, found again *)

LEMMA Lengths ==
  /\ MaxPath \in Nat /\ Shortest \in Nat /\ Longest \in Nat /\ MinLength \in Nat
  /\ MaxLength \in Nat /\ Garbage \in Nat
  /\ 4 <= Shortest /\ Longest <= MaxPath /\ MinLength % 2 = 0
<1>1. /\ MaxPath \in Nat /\ Shortest \in Nat /\ Longest \in Nat /\ MinLength \in Nat
      /\ MaxLength \in Nat /\ Garbage \in Nat
  BY SolverAssumption DEF SolverAssumption
<1>2. QED BY <1>1, SolverAssumption DEF SolverAssumption

LEMMA GreatestOf ==
  ASSUME NEW b \in Nat, NEW T \in SUBSET (0 .. b), T # {}
  PROVE  Max(T) \in T
<1> DEFINE U == {b - y : y \in T}
<1>1. U \in SUBSET Nat /\ U # {}
  <2>1. \A y \in T : y \in 0 .. b
    OBVIOUS
  <2>2. \A y \in T : b - y \in Nat
    BY <2>1
  <2>3. QED BY <2>2
<1>2. PICK u \in U : \A v \in U : u <= v
  <2> HIDE DEF U
  <2>1. QED BY <1>1, LeastOf
<1>3. PICK x \in T : u = b - x
  BY <1>2
<1>4. \A y \in T : x >= y
  <2> SUFFICES ASSUME NEW y \in T PROVE x >= y
    OBVIOUS
  <2>1. b - y \in U
    OBVIOUS
  <2>2. b - x <= b - y /\ x \in Int /\ y \in Int
    BY <1>2, <1>3, <2>1
  <2>3. QED BY <2>2
<1>5. QED BY <1>3, <1>4 DEF Max

CycleOK ==
  /\ cycle \in Seq({graph[d] : d \in Edges}) /\ Len(cycle) \in Shortest .. Longest
  /\ SingleCycle(cycle, 1 .. Len(cycle))

\* The edges of the cycle that are in row r have been found.
FoundIn(r) ==
  \A j \in 1 .. Len(cycle) : \A e \in RowEdges(r) : graph[e] = cycle[j] =>
    solution[j] \in Edges /\ graph[solution[j]] = cycle[j]

MatchInv ==
  /\ solution \in [1 .. MaxPath -> Nat]
  /\ ~cancel /\ pc \in Live /\ phase = Match =>
       CycleOK /\ \A r \in RowIds : Done(Match, r) => FoundIn(r)

LEMMA MatchStep ==
  ASSUME PoolInv, RowsInv, CoreInv, MatchInv, NEW w \in Workers, Step(w)
  PROVE  MatchInv'
<1> DEFINE row == busy[w].row
<1>1. /\ row \in RowIds /\ busy[w].phase = phase /\ Running
      /\ ProcessRow(busy[w].phase, row) /\ UNCHANGED <<pc, phase, graph, cycle, cancel>>
  BY StepProcesses DEF Step, control, recovery
<1>2. Match # 1 /\ Edges = 0 .. Rows * RowSize - 1 /\ Rows * RowSize - 1 \in Nat
  <2>1. Rows * RowSize \in Nat /\ Rows * RowSize > 0
    BY SolverAssumption DEF SolverAssumption
  <2>2. QED BY <2>1, SizesHold DEF Sizes, Edges, Nodes
<1>3. CASE phase # Match
  <2>1. UNCHANGED solution
    BY <1>1, <1>3 DEF ProcessRow, GenUnodes, TrimRename, TrimEdges
  <2>2. QED BY <1>1, <1>3, <2>1 DEF MatchInv
<1>4. CASE phase = Match
  <2> DEFINE T(j) == {e \in RowEdges(row) : graph[e] = cycle[j]}
  <2>1. /\ solution' = [j \in 1 .. MaxPath |->
                    IF j <= Len(cycle) /\ \E e \in RowEdges(row) : graph[e] = cycle[j]
                    THEN Max(T(j)) ELSE solution[j]]
    BY <1>1, <1>2, <1>4 DEF ProcessRow, MatchRow
  <2>2. ASSUME NEW j, \E e \in RowEdges(row) : graph[e] = cycle[j]
        PROVE  Max(T(j)) \in Edges /\ Max(T(j)) \in Nat /\ graph[Max(T(j))] = cycle[j]
    <3>1. T(j) \in SUBSET (0 .. Rows * RowSize - 1) /\ T(j) # {}
      BY <1>2, <2>2 DEF RowEdges
    <3>2. Max(T(j)) \in T(j)
      <4> HIDE DEF T
      <4>1. QED BY <1>2, <3>1, GreatestOf
    <3>3. QED BY <1>2, <3>2 DEF RowEdges
  <2> HIDE DEF T
  <2>3. solution' \in [1 .. MaxPath -> Nat]
    BY <2>1, <2>2 DEF MatchInv
  <2>4. SUFFICES ASSUME ~cancel, pc \in Live
                 PROVE  CycleOK' /\ \A r \in RowIds : Done(Match, r)' => FoundIn(r)'
    BY <1>1, <2>3 DEF MatchInv
  <2>5. CycleOK /\ \A r \in RowIds : Done(Match, r) => FoundIn(r)
    BY <1>4, <2>4 DEF MatchInv
  <2>6. CycleOK'
    BY <1>1, <2>5 DEF CycleOK
  <2>7. Len(cycle) <= MaxPath /\ Len(cycle) \in Nat /\ MaxPath \in Nat
    BY <2>5, Lengths DEF CycleOK
  <2>8. ASSUME NEW r \in RowIds, Done(Match, r)' PROVE FoundIn(r)'
    <3>1. Done(Match, r) \/ r = row
      <4>1. Match \in Phases
        BY SizesHold DEF Phases, Sizes
      <4>2. QED BY <2>8, <4>1, DoneStep
    <3>2. ASSUME NEW j \in 1 .. Len(cycle), NEW e \in RowEdges(r), graph[e] = cycle[j]
          PROVE  solution'[j] \in Edges /\ graph[solution'[j]] = cycle[j]
      <4>1. j \in 1 .. MaxPath /\ j <= Len(cycle)
        BY <2>7
      <4>2. CASE \E d \in RowEdges(row) : graph[d] = cycle[j]
        BY <2>1, <2>2, <4>1, <4>2
      <4>3. CASE ~\E d \in RowEdges(row) : graph[d] = cycle[j]
        <5>1. solution'[j] = solution[j]
          BY <2>1, <4>1, <4>3
        <5>2. FoundIn(r)
          BY <2>5, <3>1, <3>2, <4>3
        <5>3. QED BY <3>2, <5>1, <5>2 DEF FoundIn
      <4>4. QED BY <4>2, <4>3
    <3>3. QED BY <1>1, <3>2 DEF FoundIn
  <2>9. QED BY <2>6, <2>8
<1>5. QED BY <1>3, <1>4

LEMMA CycleRead ==
  ASSUME CoreInv, RowsInv, NamingInv, LinkInv, pc = "recover", ~cancel,
         NEW e \in left, ReadSlot(e), UNCHANGED <<graph, solution, cancel>>, MatchInv
  PROVE  MatchInv'
<1> DEFINE us == Path(<<"u", names[e].u>>)
           vs == Path(<<"v", names[e].v>>)
<1>1. /\ e \in alive /\ Renamed /\ Undone
  BY NamesUndone DEF LinkInv, CoreInv, Undone
<1>2. /\ <<"u", names[e].u>> \in Keys /\ <<"v", names[e].v>> \in Keys
      /\ link \in [Linked -> Linked] /\ link[Nil] = Nil
  BY <1>1, EndsAreKeys DEF LinkInv
<1>3. Runs(us) /\ us[1] = <<"u", names[e].u>> /\ Runs(vs) /\ vs[1] = <<"v", names[e].v>>
  BY <1>2, PathIs
<1>4. \/ UNCHANGED <<cycle, pc, phase>>
      \/ /\ ~TooLong(us) /\ ~TooLong(vs) /\ Last(us) = Last(vs) /\ Admissible(Len(Loop(us, vs)))
         /\ cycle' = Loop(us, vs) /\ pc' = "begin" /\ phase' = Match
  BY DEF ReadSlot
<1>5. Joins(e, us[1], vs[1])
  BY <1>2, <1>3 DEF Joins, Ends2
<1> HIDE DEF us, vs
<1>6. CASE UNCHANGED <<cycle, pc, phase>>
  <2>1. \A r : Done(Match, r)' <=> Done(Match, r)
    BY <1>6 DEF Done, Processed, Running
  <2>2. QED BY <1>6, <2>1 DEF MatchInv, CycleOK, FoundIn
<1>7. CASE /\ ~TooLong(us) /\ ~TooLong(vs) /\ Last(us) = Last(vs) /\ Admissible(Len(Loop(us, vs)))
           /\ cycle' = Loop(us, vs) /\ pc' = "begin" /\ phase' = Match
  <2>1. Rooted(us) /\ Rooted(vs) /\ us[Len(us)] = vs[Len(vs)]
    BY <1>3, <1>7 DEF Rooted, TooLong, Last
  <2>2. Len(Loop(us, vs)) \in Shortest .. Longest /\ Len(Loop(us, vs)) > 1
    <3>1. Len(Loop(us, vs)) \in Shortest .. Longest
      BY <1>7 DEF Admissible
    <3>2. QED BY <3>1, Lengths
  <2>3. /\ Loop(us, vs) \in Seq({graph[d] : d \in alive})
        /\ SingleCycle(Loop(us, vs), 1 .. Len(Loop(us, vs)))
    BY <1>1, <1>5, <2>1, <2>2, LoopIsCycle
  <2>4. cycle' \in Seq({graph'[d] : d \in Edges})
    <3>1. alive \subseteq Edges
      BY <1>1 DEF Renamed
    <3> DEFINE A == {graph[d] : d \in alive}
               B == {graph[d] : d \in Edges}
    <3>2. A \subseteq B
      BY <3>1
    <3>3. cycle' \in Seq(A)
      BY <1>7, <2>3
    <3> HIDE DEF A, B
    <3>4. cycle' \in Seq(B)
      BY <3>2, <3>3
    <3>5. QED BY <3>4 DEF B
  <2>5. CycleOK'
    BY <1>7, <2>2, <2>3, <2>4 DEF CycleOK
  <2>6. \A r : ~Done(Match, r)'
    <3>1. Match \in Nat
      BY SizesHold DEF Sizes
    <3>2. QED BY <1>7, <3>1 DEF Done, Processed, Running
  <2>7. QED BY <2>5, <2>6 DEF MatchInv
<1>8. QED BY <1>4, <1>6, <1>7

LEMMA MatchNext ==
  ASSUME PoolInv, RowsInv, CoreInv, NamingInv, LinkInv, MatchInv, [Next]_vars
  PROVE  MatchInv'
<1>0. /\ Match \in Nat /\ Last1 \in Nat /\ Match = Last1 + 1 /\ Match # 1 /\ Match \in Phases
      /\ phase \in Nat /\ phase <= Match
  BY SizesHold DEF Sizes, Phases, PoolInv, PoolType
<1>1. CASE Attempt
  <2>1. phase = 1 /\ UNCHANGED <<phase, solution>>
    BY <1>1 DEF Attempt, CoreInv, Renamed
  <2>2. QED BY <1>0, <2>1 DEF MatchInv
<1>2. CASE Closed
  <2>1. phase' = 1 /\ solution' = [j \in 1 .. MaxPath |-> Garbage] /\ Garbage \in Nat
    BY <1>2, Lengths DEF Closed, Renew
  <2>2. QED BY <1>0, <2>1 DEF MatchInv
<1>3. ASSUME UNCHANGED <<graph, cycle, solution>>,
             ~cancel' /\ pc' \in Live /\ phase' = Match =>
               /\ ~cancel /\ pc \in Live /\ phase = Match
               /\ \A r \in RowIds : Done(Match, r)' => Done(Match, r)
      PROVE  MatchInv'
  BY <1>3 DEF MatchInv, CycleOK, FoundIn
<1>4. CASE Recover
  <2>1. CASE cancel \/ left = {}
    <3>1. UNCHANGED <<graph, cycle, solution>> /\ pc' = "close"
      BY <1>4, <2>1 DEF Recover, recovery
    <3>2. QED BY <1>3, <3>1 DEF Live
  <2>2. CASE ~(cancel \/ left = {})
    <3>1. PICK e \in left : ReadSlot(e)
      BY <1>4, <2>2 DEF Recover
    <3>2. pc = "recover" /\ UNCHANGED <<graph, solution, cancel>>
      BY <1>4 DEF Recover
    <3>3. QED BY <2>2, <3>1, <3>2, CycleRead
  <2>3. QED BY <2>1, <2>2
<1>5. ASSUME NEW w \in Workers, Step(w) PROVE MatchInv'
  BY <1>5, MatchStep
<1>6. CASE \/ Stop \/ Stopped \/ \E w \in Workers : Leave(w)
  <2>1. UNCHANGED <<graph, cycle, solution>>
    BY <1>6 DEF Stop, Stopped, Leave, recovery
  <2>2. pc' \notin Live \/ (UNCHANGED <<pc, phase, cancel, queue, consumed, busy>>)
    <3>1. CASE Stop \/ Stopped
      BY <3>1 DEF Stop, Stopped, Live
    <3>2. CASE \E w \in Workers : Leave(w)
      BY <3>2 DEF Leave, control
    <3>3. QED BY <1>6, <3>1, <3>2
  <2>3. UNCHANGED <<pc, phase, cancel, queue, consumed, busy>> =>
        \A r : Done(Match, r)' <=> Done(Match, r)
    BY DEF Done, Processed, Running, Working
  <2>4. QED BY <1>3, <2>1, <2>2, <2>3
<1>7. CASE \/ InitPool \/ CreateThreads \/ Begin \/ Dispatch \/ Join \/ Joined \/ Report
           \/ UNCHANGED vars \/ Cancel \/ \E w \in Workers : Take(w) \/ Finish(w)
  <2>1. UNCHANGED <<graph, cycle, solution>>
    <3>1. CASE InitPool \/ CreateThreads \/ Begin \/ Dispatch \/ Join
      BY <3>1 DEF InitPool, CreateThreads, Begin, Dispatch, Join, recovery
    <3>2. CASE Joined \/ Report \/ UNCHANGED vars \/ Cancel
      BY <3>2 DEF Joined, Report, vars, Cancel, recovery
    <3>3. CASE \E w \in Workers : Take(w) \/ Finish(w)
      BY <3>3 DEF Take, Finish, recovery
    <3>4. QED BY <1>7, <3>1, <3>2, <3>3
  <2>2. SUFFICES ASSUME ~cancel', pc' \in Live, phase' = Match
                 PROVE  /\ ~cancel /\ pc \in Live /\ phase = Match
                        /\ \A r \in RowIds : Done(Match, r)' => Done(Match, r)
    BY <1>3, <2>1
  <2>3. ~cancel
    <3>1. CASE InitPool \/ CreateThreads \/ Begin \/ Dispatch \/ Join
      BY <2>2, <3>1 DEF InitPool, CreateThreads, Begin, Dispatch, Join
    <3>2. CASE Joined \/ Report \/ UNCHANGED vars \/ Cancel
      BY <2>2, <3>2 DEF Joined, Report, vars, Cancel
    <3>3. CASE \E w \in Workers : Take(w) \/ Finish(w)
      BY <2>2, <3>3 DEF Take, Finish
    <3>4. QED BY <1>7, <3>1, <3>2, <3>3
  <2>4. pc \in Live
    <3>1. CASE InitPool \/ CreateThreads \/ Begin \/ Dispatch \/ Join
      BY <3>1 DEF InitPool, CreateThreads, Begin, Dispatch, Join, Live
    <3>2. CASE Joined \/ Report \/ UNCHANGED vars \/ Cancel
      BY <2>2, <3>2 DEF Joined, Report, vars, Cancel, control, Live
    <3>3. CASE \E w \in Workers : Take(w) \/ Finish(w)
      BY <2>2, <3>3 DEF Take, Finish, control
    <3>4. QED BY <1>7, <3>1, <3>2, <3>3
  <2>5. phase = Match
    <3>1. CASE InitPool \/ CreateThreads \/ Begin \/ Dispatch \/ Join
      BY <2>2, <3>1 DEF InitPool, CreateThreads, Begin, Dispatch, Join, control
    <3>2. CASE Report \/ UNCHANGED vars \/ Cancel
      BY <2>2, <3>2 DEF Report, vars, Cancel, control
    <3>3. CASE \E w \in Workers : Take(w) \/ Finish(w)
      BY <2>2, <3>3 DEF Take, Finish, control
    <3>4. CASE Joined
      <4>1. phase \notin {Match, Last1} => phase' = phase + 1
        BY <2>3, <3>4 DEF Joined, After
      <4>2. phase = Last1 => phase' = phase
        BY <1>0, <3>4 DEF Joined
      <4>3. QED BY <1>0, <2>2, <4>1, <4>2
    <3>5. QED BY <1>7, <3>1, <3>2, <3>3, <3>4
  <2>6. \A r \in RowIds : Done(Match, r)' <=> Done(Match, r)
    BY <1>0, <1>7, <2>2, <2>3, DoneKept
  <2>7. QED BY <2>3, <2>4, <2>5, <2>6
<1>8. QED BY <1>1, <1>2, <1>4, <1>5, <1>6, <1>7 DEF Next, Main, Work

-----------------------------------------------------------------------------
(* What is written to the target *)

\* Edges of the graph with the ends of those of a cycle are a cycle.
LEMMA CarriedOver ==
  ASSUME NEW h, NEW I, IsFiniteSet(I), NEW S \in [I -> Edges], NEW g,
         \A i, j \in I : S[i] = S[j] => i = j, \A i \in I : g[S[i]] = h[i], SingleCycle(h, I)
  PROVE  SingleCycle(g, {S[i] : i \in I})
<1> DEFINE C == {S[i] : i \in I}
           Img(T) == {S[i] : i \in T}
<1>1. ASSUME NEW T \in SUBSET I PROVE Regular(g, Img(T)) <=> Regular(h, T)
  <2>1. IsFiniteSet(T) /\ IsFiniteSet(Img(T))
    <3>1. Img(T) \in SUBSET Edges
      OBVIOUS
    <3> HIDE DEF Img
    <3>2. QED BY <3>1, FS_Subset, EdgesFinite
  <2>2. ASSUME NEW i \in T, NEW side \in Sides
        PROVE  One(Partners(g, Img(T), S[i], side)) <=> One(Partners(h, T, i, side))
    <3>1. Partners(g, Img(T), S[i], side) = Img(Partners(h, T, i, side))
      BY DEF Partners
    <3>2. Partners(h, T, i, side) \in SUBSET I
      BY DEF Partners
    <3>3. ASSUME NEW P \in SUBSET I PROVE One(Img(P)) <=> One(P)
      <4>1. ASSUME One(P) PROVE One(Img(P))
        <5>1. PICK x \in P : P = {x}
          BY <4>1 DEF One
        <5>2. Img(P) = {S[x]}
          BY <5>1
        <5>3. QED BY <5>2 DEF One
      <4>2. ASSUME One(Img(P)) PROVE One(P)
        <5>1. PICK y \in Img(P) : Img(P) = {y}
          BY <4>2 DEF One
        <5>2. PICK x \in P : y = S[x]
          BY <5>1
        <5>3. \A z \in P : S[z] \in Img(P)
          OBVIOUS
        <5>4. P = {x}
          BY <5>1, <5>2, <5>3
        <5>5. QED BY <5>4 DEF One
      <4>3. QED BY <4>1, <4>2
    <3> HIDE DEF Img
    <3>4. QED BY <3>1, <3>2, <3>3
  <2>3. Regular(h, T) <=> \A i \in T, side \in Sides : One(Partners(h, T, i, side))
    BY <2>1, RegularIn
  <2>4. Regular(g, Img(T)) <=> \A e \in Img(T), side \in Sides : One(Partners(g, Img(T), e, side))
    <3> HIDE DEF Img
    <3>1. QED BY <2>1, RegularIn
  <2>5. QED BY <2>2, <2>3, <2>4
<1>2. C # {} /\ Regular(g, C)
  <2>1. I # {} /\ Regular(h, I) /\ C = Img(I)
    BY DEF SingleCycle
  <2> HIDE DEF C
  <2>2. Regular(g, Img(I))
    BY <1>1, <2>1
  <2>3. QED BY <2>1, <2>2
<1>3. ASSUME NEW D \in (SUBSET C) \ {{}, C}, Regular(g, D) PROVE FALSE
  <2> DEFINE T == {i \in I : S[i] \in D}
  <2>1. D = Img(T) /\ T \in SUBSET I /\ T # {} /\ T # I
    OBVIOUS
  <2> HIDE DEF T
  <2>2. Regular(h, T)
    BY <1>1, <1>3, <2>1
  <2>3. QED BY <2>1, <2>2 DEF SingleCycle
<1>4. QED BY <1>2, <1>3 DEF SingleCycle

\* A cycle with two edges between the same nodes is no longer than these.
LEMMA CycleIsSimple ==
  ASSUME NEW h, NEW n \in Nat, n > 2, SingleCycle(h, 1 .. n)
  PROVE  \A i, j \in 1 .. n : h[i] = h[j] => i = j
<1> SUFFICES ASSUME NEW i \in 1 .. n, NEW j \in 1 .. n, h[i] = h[j], i # j PROVE FALSE
  OBVIOUS
<1> DEFINE D == {i, j}
<1>1. IsFiniteSet(D)
  <2>1. IsFiniteSet(1 .. n) /\ D \in SUBSET (1 .. n)
    BY FS_Interval
  <2>2. QED BY <2>1, FS_Subset
<1>2. ASSUME NEW e \in D, NEW side \in Sides PROVE One(Partners(h, D, e, side))
  <2>1. CASE e = i
    <3>1. Partners(h, D, e, side) = {j}
      BY <2>1 DEF Partners
    <3>2. QED BY <3>1 DEF One
  <2>2. CASE e = j
    <3>1. Partners(h, D, e, side) = {i}
      BY <2>2 DEF Partners
    <3>2. QED BY <3>1 DEF One
  <2>3. QED BY <2>1, <2>2
<1>3. D # {} /\ D \in SUBSET (1 .. n)
  OBVIOUS
<1>4. D # 1 .. n
  <2>1. 1 \in 1 .. n /\ 2 \in 1 .. n /\ 3 \in 1 .. n
    OBVIOUS
  <2>2. ASSUME \A x \in 1 .. n : x = i \/ x = j PROVE FALSE
    <3>1. (1 = i \/ 1 = j) /\ (2 = i \/ 2 = j) /\ (3 = i \/ 3 = j)
      BY <2>1, <2>2
    <3>2. QED BY <3>1
  <2>3. QED BY <2>2
<1> HIDE DEF D
<1>5. Regular(h, D)
  BY <1>1, <1>2, RegularIn
<1>6. QED BY <1>3, <1>4, <1>5 DEF SingleCycle

LEMMA CycleIsEven ==
  ASSUME NEW h, NEW n \in Nat, SingleCycle(h, 1 .. n)
  PROVE  n % 2 = 0
<1> DEFINE I == 1 .. n
           Q(i) == Partners(h, I, i, "u")
           q == [i \in I |-> CHOOSE d \in Q(i) : TRUE]
<1>1. IsFiniteSet(I) /\ Cardinality(I) = n
  BY FS_Interval
<1>2. \A i \in I : One(Q(i))
  <2>1. Regular(h, I)
    BY DEF SingleCycle
  <2> HIDE DEF I
  <2>2. QED BY <1>1, <2>1, RegularIn DEF Sides
<1>3. ASSUME NEW i \in I PROVE q[i] \in I /\ q[i] # i /\ Q(i) = {q[i]}
  <2>1. PICK x \in Q(i) : Q(i) = {x}
    BY <1>2 DEF One
  <2>2. q[i] = x
    BY <2>1
  <2>3. x \in I /\ x # i
    BY DEF Partners
  <2>4. QED BY <2>1, <2>2, <2>3
<1>4. ASSUME NEW i \in I PROVE q[q[i]] = i
  <2>1. i \in Q(q[i])
    <3>1. q[i] \in Q(i) /\ q[i] \in I /\ q[i] # i
      BY <1>3
    <3> HIDE DEF q
    <3>2. h[q[i]]["u"] = h[i]["u"]
      BY <3>1 DEF Partners
    <3>3. QED BY <3>1, <3>2 DEF Partners
  <2> HIDE DEF q, Q
  <2>2. QED BY <1>3, <2>1
<1>5. q \in [I -> I]
  <2>1. \A i \in I : q[i] \in I
    BY <1>3
  <2>2. q = [i \in I |-> q[i]]
    OBVIOUS
  <2> HIDE DEF q
  <2>3. QED BY <2>1, <2>2
<1> HIDE DEF q, I
<1>6. QED BY <1>1, <1>3, <1>4, <1>5, PairsAreEven

\* What is sorted is the set of its elements in ascending order.
LEMMA SortedIs ==
  ASSUME NEW n \in Nat, NEW s \in [1 .. n -> Nat], \A i, j \in 1 .. n : s[i] = s[j] => i = j
  PROVE  Sorted(s) = Ascending({s[i] : i \in 1 .. n}) /\ Cardinality({s[i] : i \in 1 .. n}) = n
<1> DEFINE I == 1 .. n
           C == {s[i] : i \in I}
           Under(x) == {i \in I : s[i] < x}
           UpTo(x) == {i \in I : s[i] <= x}
           Below(x) == {y \in C : y < x}
<1>1. Len(s) = n /\ IsFiniteSet(I) /\ Cardinality(I) = n
  BY FS_Interval
<1>2. ASSUME NEW T \in SUBSET I
      PROVE  IsFiniteSet({s[i] : i \in T}) /\ Cardinality({s[i] : i \in T}) = Cardinality(T)
  <2> DEFINE U == {s[i] : i \in T}
             f == [i \in T |-> s[i]]
  <2>1. IsFiniteSet(T)
    BY <1>1, FS_Subset
  <2>2. f \in Bijection(T, U)
    <3>1. f \in [T -> U] /\ (\A a, b \in T : f[a] = f[b] => a = b) /\ \A u \in U : \E t \in T : f[t] = u
      OBVIOUS
    <3>2. DOMAIN f = T
      OBVIOUS
    <3> HIDE DEF f, U
    <3>3. QED BY <3>1, <3>2 DEF Bijection, Injection, Surjection, IsInjective
  <2> HIDE DEF f, U
  <2>3. ExistsBijection(T, U)
    BY <2>2 DEF ExistsBijection
  <2>4. QED BY <2>1, <2>3, FS_Bijection DEF U
<1>3. IsFiniteSet(C) /\ Cardinality(C) = n /\ C \in SUBSET Nat
  <2>1. C \in SUBSET Nat
    OBVIOUS
  <2>2. I \in SUBSET I
    OBVIOUS
  <2>3. QED BY <1>1, <1>2, <2>1, <2>2
<1>4. ASSUME NEW x \in C
      PROVE  /\ Cardinality(Under(x)) = Cardinality(Below(x)) /\ Cardinality(Below(x)) \in Nat
             /\ Cardinality(UpTo(x)) = Cardinality(Below(x)) + 1
  <2>1. PICK k \in I : s[k] = x
    OBVIOUS
  <2>2. Below(x) = {s[i] : i \in Under(x)} /\ Under(x) \in SUBSET I
    OBVIOUS
  <2>3. UpTo(x) = Under(x) \cup {k} /\ k \notin Under(x)
    <3>1. x \in Nat /\ \A i \in I : s[i] \in Nat
      OBVIOUS
    <3>2. \A i \in I : s[i] <= x <=> s[i] < x \/ i = k
      BY <2>1, <3>1
    <3>3. QED BY <2>1, <3>1, <3>2
  <2> HIDE DEF Under, UpTo, Below
  <2>4. Cardinality(Under(x)) = Cardinality(Below(x))
    BY <1>2, <2>2
  <2>5. IsFiniteSet(Under(x)) /\ Cardinality(Under(x)) \in Nat
    BY <1>1, <2>2, FS_Subset, FS_CardinalityType
  <2>6. Cardinality(UpTo(x)) = Cardinality(Under(x)) + 1
    BY <2>3, <2>5, FS_AddElement
  <2>7. QED BY <2>4, <2>5, <2>6
<1>5. ASSUME NEW k \in I
      PROVE  (CHOOSE x \in C : Cardinality(Under(x)) < k /\ k <= Cardinality(UpTo(x)))
           = (CHOOSE x \in C : Cardinality(Below(x)) = k - 1)
  <2> DEFINE P(x) == Cardinality(Under(x)) < k /\ k <= Cardinality(UpTo(x))
             R(x) == Cardinality(Below(x)) = k - 1
  <2>1. ASSUME NEW x \in C PROVE P(x) <=> R(x)
    <3>1. k \in Int
      OBVIOUS
    <3> HIDE DEF Under, UpTo, Below, C
    <3>2. QED BY <1>4, <3>1
  <2> HIDE DEF P, R, C
  <2>2. (CHOOSE x \in C : P(x)) = (CHOOSE x \in C : R(x))
    BY <2>1, Zenon
  <2>3. QED BY <2>2 DEF P, R
<1>6. Sorted(s) = [k \in I |-> CHOOSE x \in C : Cardinality(Under(x)) < k /\ k <= Cardinality(UpTo(x))]
  BY <1>1 DEF Sorted
<1>7. Ascending(C) = [k \in I |-> CHOOSE x \in C : Cardinality(Below(x)) = k - 1]
  <2> HIDE DEF C
  <2>1. QED BY <1>3 DEF Ascending
<1> HIDE DEF Under, UpTo, Below, C
<1>8. Sorted(s) = Ascending(C)
  BY <1>5, <1>6, <1>7
<1>9. QED BY <1>3, <1>8 DEF C

LEMMA SumsBack ==
  ASSUME NEW n \in Nat, NEW f \in [1 .. n -> Nat]
  PROVE  Sums(Deltas(f)) = f /\ Deltas(f) \in Seq(Int) /\ Len(Deltas(f)) = n
<1> DEFINE d == Deltas(f)
           Body(a) == [i \in 1 .. n |-> IF i = 1 THEN d[1] ELSE a[i - 1] + d[i]]
           w == CHOOSE a : a = Body(a)
<1>1. Len(f) = n /\ \A i \in 1 .. n : f[i] \in Nat
  OBVIOUS
<1>2. /\ d \in [1 .. n -> Int] /\ \A i \in 1 .. n : d[i] = IF i = 1 THEN f[1] ELSE f[i] - f[i - 1]
  <2>1. \A i \in 1 .. n : i = 1 \/ i - 1 \in 1 .. n
    OBVIOUS
  <2>2. QED BY <1>1, <2>1 DEF Deltas
<1>3. d \in Seq(Int) /\ Len(d) = n
  BY <1>2
<1> HIDE DEF d
<1>4. \A i \in 1 .. n : f[i] = IF i = 1 THEN d[1] ELSE f[i - 1] + d[i]
  <2>1. \A i \in 1 .. n : i = 1 \/ i - 1 \in 1 .. n
    OBVIOUS
  <2>2. QED BY <1>1, <1>2, <2>1
<1>5. f = Body(f)
  <2>1. f = [i \in 1 .. n |-> f[i]]
    OBVIOUS
  <2>2. QED BY <1>4, <2>1
<1>6. w = Body(w)
  <2> HIDE DEF Body
  <2>1. QED BY <1>5
<1>7. Sums(d) = w
  BY <1>3 DEF Sums
<1> HIDE DEF w
<1>8. \A i \in 1 .. n : w[i] = IF i = 1 THEN d[1] ELSE w[i - 1] + d[i]
  BY <1>6
<1> DEFINE T == {i \in 1 .. n : w[i] # f[i]}
<1>9. T = {}
  <2>1. SUFFICES ASSUME T # {} PROVE FALSE
    OBVIOUS
  <2>2. PICK x \in T : \A y \in T : x <= y
    <3>1. T \in SUBSET Nat
      OBVIOUS
    <3> HIDE DEF T
    <3>2. QED BY <2>1, <3>1, LeastOf
  <2>3. x # 1 /\ x - 1 \in 1 .. n /\ ~(x <= x - 1)
    BY <1>4, <1>8, <2>2
  <2>4. w[x - 1] = f[x - 1]
    BY <2>2, <2>3
  <2>5. QED BY <1>4, <1>8, <2>2, <2>3, <2>4
<1>10. w = f
  <2>1. w = [i \in 1 .. n |-> w[i]] /\ f = [i \in 1 .. n |-> f[i]]
    <3>1. DOMAIN w = 1 .. n /\ w = Body(w)
      BY <1>6
    <3>2. QED BY <3>1
  <2>2. QED BY <1>9, <2>1
<1>11. QED BY <1>3, <1>7, <1>10 DEF d

-----------------------------------------------------------------------------
(* What is reported is accepted *)

LEMMA ReportAccepted ==
  ASSUME CoreInv, RowsInv, MatchInv, pc = "report", ~cancel, Len(cycle) \in MinLength .. MaxLength
  PROVE  /\ Accepts(graph, Encoded(Sorted(SubSeq(solution, 1, Len(cycle)))))
         /\ Encoded(Sorted(SubSeq(solution, 1, Len(cycle)))) # None
<1> DEFINE n == Len(cycle)
           I == 1 .. n
           s == SubSeq(solution, 1, n)
           C == {s[i] : i \in I}
           c == Ascending(C)
<1>1. /\ CycleOK /\ \A r \in RowIds : FoundIn(r)
  <2>1. phase = Match /\ pc \in Live
    BY DEF RowsInv, Live
  <2>2. \A r : Done(Match, r)
    BY <2>1 DEF Done, Processed, Running
  <2>3. QED BY <2>1, <2>2 DEF MatchInv
<1>2. /\ n \in Nat /\ n > 2 /\ n <= MaxPath /\ MaxPath \in Nat /\ n >= MinLength /\ MinLength \in Nat
      /\ MinLength % 2 = 0
  BY <1>1, Lengths DEF CycleOK
<1>3. s = [i \in I |-> solution[i]] /\ s \in [I -> Nat]
  <2>1. solution \in [1 .. MaxPath -> Nat]
    BY DEF MatchInv
  <2>2. solution \in Seq(Nat) /\ Len(solution) = MaxPath
    BY <1>2, <2>1
  <2>3. SubSeq(solution, 1, n) = [i \in 1 .. n |-> solution[i]]
    <3> HIDE DEF n
    <3>1. SubSeq(solution, 1, n) = [i \in 1 .. 1 + n - 1 |-> solution[i + 1 - 1]]
      BY <1>2, <2>2
    <3>2. QED BY <1>2, <3>1
  <2>4. \A i \in 1 .. n : solution[i] \in Nat
    <3>1. \A i \in 1 .. n : i \in 1 .. MaxPath
      BY <1>2
    <3>2. QED BY <2>1, <3>1
  <2>5. QED BY <2>3, <2>4
<1>4. SingleCycle(cycle, I)
  BY <1>1 DEF CycleOK
<1>5. ASSUME NEW i \in I PROVE s[i] \in Edges /\ graph[s[i]] = cycle[i]
  <2>1. cycle[i] \in {graph[d] : d \in Edges}
    BY <1>1 DEF CycleOK
  <2>2. PICK d \in Edges : graph[d] = cycle[i]
    BY <2>1
  <2>3. Row(d) \in RowIds /\ d \in RowEdges(Row(d))
    BY <2>2, NodesTyped DEF RowEdges
  <2>4. QED BY <1>1, <1>3, <2>2, <2>3 DEF FoundIn
<1> HIDE DEF s
<1>6. \A i, j \in I : cycle[i] = cycle[j] => i = j
  BY <1>2, <1>4, CycleIsSimple
<1>7. s \in [I -> Edges] /\ \A i, j \in I : s[i] = s[j] => i = j
  BY <1>3, <1>5, <1>6
<1>8. IsFiniteSet(I)
  BY <1>2, FS_Interval
<1>9. SingleCycle(graph, C) /\ C \in SUBSET Edges
  <2>1. \A i \in I : graph[s[i]] = cycle[i]
    BY <1>5
  <2> HIDE DEF I
  <2>2. SingleCycle(graph, C)
    BY <1>4, <1>7, <1>8, <2>1, CarriedOver
  <2>3. QED BY <1>7, <2>2
<1>10. Verify(graph, c)
  <2> HIDE DEF C
  <2>1. QED BY <1>9, CycleIsAccepted
<1>11. Sorted(s) = c /\ Cardinality(C) = n
  BY <1>2, <1>3, <1>7, SortedIs
<1>12. c \in [I -> Nat]
  <2>1. C \in SUBSET Nat /\ IsFiniteSet(C)
    BY <1>9, EdgesFinite
  <2> HIDE DEF C
  <2>2. c \in [1 .. Cardinality(C) -> C]
    BY <2>1, AscendingIs
  <2>3. QED BY <1>11, <2>1, <2>2
<1> HIDE DEF c, C
<1>13. Sums(Deltas(c)) = c /\ Deltas(c) \in Seq(Int) /\ Len(Deltas(c)) = n /\ Len(c) = n
  BY <1>2, <1>12, SumsBack
<1>14. 2 * ((n - MinLength) \div 2) + MinLength = n
  <2>1. n % 2 = 0
    BY <1>2, <1>4, CycleIsEven
  <2> HIDE DEF n
  <2>2. QED BY <1>2, <2>1
<1> HIDE DEF n
<1>15. SubSeq(Deltas(c), 1, n) = Deltas(c)
  BY <1>2, <1>13
<1>16. /\ Encoded(c).length = (n - MinLength) \div 2 /\ Encoded(c).solution = Deltas(c)
  BY <1>13 DEF Encoded
<1>17. Accepts(graph, Encoded(c))
  BY <1>10, <1>13, <1>14, <1>15, <1>16 DEF Accepts
<1>18. Encoded(c) # None
  <2>1. None.solution = <<>>
    BY DEF None
  <2>2. Len(Deltas(c)) # Len(<<>>)
    BY <1>2, <1>13
  <2>3. QED BY <1>16, <2>1, <2>2
<1>19. QED BY <1>11, <1>17, <1>18 DEF s, n

Reported == {"close", "closing", "closed", "done"}
AnswerInv == answer # None => pc \in Reported /\ (~cancel => Accepts(graph, answer))

LEMMA AnswerNext ==
  ASSUME CoreInv, RowsInv, MatchInv, AnswerInv, [Next]_vars
  PROVE  AnswerInv'
<1>1. CASE Report
  <2>1. graph' = graph /\ cancel' = cancel /\ pc = "report"
    BY <1>1 DEF Report
  <2>2. answer = None
    BY <2>1 DEF AnswerInv, Reported
  <2>3. CASE ~(Len(cycle) <= room /\ Len(cycle) \in MinLength .. MaxLength)
    BY <1>1, <2>2, <2>3 DEF Report, AnswerInv
  <2>4. CASE Len(cycle) <= room /\ Len(cycle) \in MinLength .. MaxLength
    <3>1. answer' = Encoded(Sorted(SubSeq(solution, 1, Len(cycle)))) /\ pc' = "close"
      BY <1>1, <2>4 DEF Report
    <3>2. ~cancel => Accepts(graph, answer')
      BY <2>1, <2>4, <3>1, ReportAccepted
    <3>3. QED BY <2>1, <3>1, <3>2 DEF AnswerInv, Reported
  <2>5. QED BY <2>3, <2>4
<1>2. ASSUME answer' = answer \/ answer' = None,
             answer # None => graph' = graph /\ pc' \in Reported /\ (~cancel' => ~cancel)
      PROVE  AnswerInv'
  BY <1>2 DEF AnswerInv
<1>3. CASE Attempt \/ InitPool \/ CreateThreads \/ Begin \/ Dispatch \/ Join \/ Joined \/ Recover
  <2>1. UNCHANGED answer /\ pc \notin Reported
    <3>1. CASE Attempt \/ InitPool \/ CreateThreads \/ Begin
      BY <3>1 DEF Attempt, InitPool, CreateThreads, Begin, Reported
    <3>2. CASE Dispatch \/ Join \/ Joined \/ Recover
      BY <3>2 DEF Dispatch, Join, Joined, Recover, Reported
    <3>3. QED BY <1>3, <3>1, <3>2
  <2>2. answer = None
    BY <2>1 DEF AnswerInv
  <2>3. QED BY <1>2, <2>1, <2>2
<1>4. CASE Stop \/ Stopped
  <2>1. UNCHANGED <<answer, graph, cancel>> /\ (pc \in Reported => pc' \in Reported)
    BY <1>4 DEF Stop, Stopped, Reported
  <2>2. QED BY <1>2, <2>1 DEF AnswerInv
<1>5. CASE Closed
  <2>1. UNCHANGED <<graph, cancel>> /\ (answer' = None \/ (answer' = answer /\ pc' = "done"))
    BY <1>5 DEF Closed
  <2>2. CASE answer' = None
    BY <2>2 DEF AnswerInv
  <2>3. CASE answer' = answer /\ pc' = "done"
    BY <1>2, <2>1, <2>3 DEF Reported
  <2>4. QED BY <2>1, <2>2, <2>3
<1>6. CASE UNCHANGED vars \/ Cancel \/ \E w \in Workers : Work(w)
  <2>1. UNCHANGED <<answer, graph, pc>> /\ (~cancel' => ~cancel)
    <3>1. CASE UNCHANGED vars \/ Cancel
      BY <3>1 DEF vars, Cancel, control
    <3>2. ASSUME NEW w \in Workers, Take(w) \/ Step(w)
          PROVE  UNCHANGED <<answer, graph, pc>> /\ (~cancel' => ~cancel)
      BY <3>2 DEF Take, Step, control
    <3>3. ASSUME NEW w \in Workers, Finish(w) \/ Leave(w)
          PROVE  UNCHANGED <<answer, graph, pc>> /\ (~cancel' => ~cancel)
      BY <3>3 DEF Finish, Leave, control
    <3>4. QED BY <1>6, <3>1, <3>2, <3>3 DEF Work
  <2>2. QED BY <1>2, <2>1 DEF AnswerInv
<1>7. QED BY <1>1, <1>3, <1>4, <1>5, <1>6 DEF Next, Main

SolveInv ==
  /\ PoolInv /\ LaterInv /\ CoreInv
  /\ RowsInv /\ NamingInv /\ LinkInv /\ MatchInv /\ AnswerInv

LEMMA SolveInit == Init => SolveInv
<1> SUFFICES ASSUME Init PROVE SolveInv
  OBVIOUS
<1>1. PoolInv /\ CoreInv /\ LaterInv
  BY PoolInit, CoreInit DEF LaterInv, Init
<1>2. RowsInv
  <2>1. pc = "idle" /\ Working = {}
    BY DEF Init, Working
  <2>2. QED BY <2>1 DEF RowsInv
<1>3. NamingInv
  <2>1. pc = "idle" /\ alive = {} /\ renamed = NoRenames
    BY DEF Init
  <2>2. NoRenames \in Tables
    BY DEF NoRenames, Tables
  <2>3. QED BY <2>1, <2>2 DEF NamingInv
<1>4. LinkInv
  <2>1. left = {} /\ alive = {} /\ link = [k \in Keys \cup {Nil} |-> Nil]
    BY DEF Init
  <2>2. QED BY <2>1 DEF LinkInv, Linked
<1>5. MatchInv
  <2>1. pc = "idle" /\ solution = [j \in 1 .. MaxPath |-> Garbage] /\ Garbage \in Nat
    BY Lengths DEF Init
  <2>2. QED BY <2>1 DEF MatchInv, Live
<1>6. AnswerInv
  BY DEF Init, AnswerInv
<1>7. QED BY <1>1, <1>2, <1>3, <1>4, <1>5, <1>6 DEF SolveInv

LEMMA SolveNext == SolveInv /\ [Next]_vars => SolveInv'
  BY PoolNext, LaterNext, CoreNext, RowsNext, NamingNext, LinkNext, MatchNext, AnswerNext
     DEF SolveInv

\* Whatever is written to the target is accepted by the verification, for every graph and
\* every order in which the threads take the rows.
THEOREM ProofsAreAccepted == Spec => []ProofHolds
<1>1. SolveInv => ProofHolds
  BY DEF SolveInv, AnswerInv, ProofHolds
<1>2. QED BY <1>1, SolveInit, SolveNext, PTL DEF Spec

-----------------------------------------------------------------------------
(* The forest has no cycle, and keeps the edges that it has taken *)

\* Some node of any set has a link that leaves the set.
NoCircle(f) == \A S \in (SUBSET Keys) \ {{}} : \E k \in S : f[k] \notin S
Carries(f, e) == \E x, y \in Keys : Joins(e, x, y) /\ f[x] = y

Reversed(t, us, y) ==
  /\ t[us[1]] = y
  /\ \A i \in 1 .. Len(us) - 1 : t[us[i + 1]] = us[i]
  /\ \A k \in Keys : (\A i \in 1 .. Len(us) : us[i] # k) => t[k] = link[k]

LEMMA TurnedIs ==
  ASSUME link \in [Linked -> Linked], NEW us, Rooted(us), NEW y \in Keys
  PROVE  Reversed(Turned(us, y), us, y)
<1> DEFINE n == Len(us)
           Before(k) == us[CHOOSE i \in 1 .. n - 1 : us[i + 1] = k]
<1>1. /\ us \in Seq(Keys) /\ n \in Nat /\ n > 0 /\ \A i \in 1 .. n : us[i] \in Keys
  BY DEF Rooted, Runs
<1>2. \A i, j \in 1 .. n : us[i] = us[j] => i = j
  <2>1. \A i, j \in 1 .. n : us[i] = us[j] => n - i = n - j
    BY SameDepth
  <2>2. QED BY <1>1, <2>1
<1>3. ASSUME NEW i \in 1 .. n - 1 PROVE Before(us[i + 1]) = us[i]
  <2> DEFINE P(j) == us[j + 1] = us[i + 1]
             c == CHOOSE j \in 1 .. n - 1 : P(j)
  <2>1. c \in 1 .. n - 1 /\ us[c + 1] = us[i + 1]
    <3>1. P(i)
      OBVIOUS
    <3> HIDE DEF P
    <3>2. c \in 1 .. n - 1 /\ P(c)
      BY <3>1
    <3>3. QED BY <3>2 DEF P
  <2> HIDE DEF c
  <2>2. c + 1 \in 1 .. n /\ i + 1 \in 1 .. n
    BY <1>1, <2>1
  <2>3. c = i
    BY <1>1, <1>2, <2>1, <2>2
  <2>4. QED BY <2>3 DEF c
<1> HIDE DEF Before
<1>4. Turned(us, y) = [k \in Linked |-> IF k = us[1] THEN y
                         ELSE IF \E i \in 2 .. n : us[i] = k THEN Before(k) ELSE link[k]]
  BY DEF Turned, Before
<1>5. Turned(us, y)[us[1]] = y
  BY <1>1, <1>4 DEF Linked
<1>6. ASSUME NEW i \in 1 .. n - 1 PROVE Turned(us, y)[us[i + 1]] = us[i]
  <2>1. i + 1 \in 2 .. n /\ i + 1 \in 1 .. n /\ 1 \in 1 .. n /\ i + 1 # 1
    BY <1>1
  <2>2. us[i + 1] # us[1] /\ us[i + 1] \in Linked
    BY <1>1, <1>2, <2>1 DEF Linked
  <2>3. QED BY <1>3, <1>4, <2>1, <2>2
<1>7. ASSUME NEW k \in Keys, \A i \in 1 .. n : us[i] # k PROVE Turned(us, y)[k] = link[k]
  <2>1. k \in Linked /\ k # us[1] /\ ~\E i \in 2 .. n : us[i] = k
    BY <1>1, <1>7 DEF Linked
  <2>2. QED BY <1>4, <2>1
<1>8. QED BY <1>5, <1>6, <1>7 DEF Reversed

LEMMA CarriesOn ==
  ASSUME LinkInv, NEW us, Rooted(us), NEW y \in Keys, NEW e, Carries(link, e)
  PROVE  Carries(Turned(us, y), e)
<1> DEFINE t == Turned(us, y)
<1>1. Reversed(t, us, y)
  BY TurnedIs DEF LinkInv
<1> HIDE DEF t
<1>2. PICK x \in Keys, z \in Keys : Joins(e, x, z) /\ link[x] = z
  BY DEF Carries
<1>3. Joins(e, z, x)
  BY <1>2 DEF Joins
<1>4. CASE \A i \in 1 .. Len(us) : us[i] # x
  <2>1. t[x] = z
    BY <1>1, <1>2, <1>4 DEF Reversed
  <2>2. QED BY <1>2, <2>1 DEF Carries, t
<1>5. CASE \E i \in 1 .. Len(us) : us[i] = x
  <2>1. PICK i \in 1 .. Len(us) : us[i] = x
    BY <1>5
  <2>2. Len(us) \in Nat /\ i # Len(us)
    BY <1>2, <2>1, NilApart DEF Rooted, Runs
  <2>3. i \in 1 .. Len(us) - 1 /\ i + 1 \in 2 .. Len(us) /\ (i + 1) - 1 = i
    BY <2>2
  <2>4. us[i + 1] = z
    BY <1>2, <2>1, <2>3 DEF Rooted, Runs
  <2>5. t[z] = x
    BY <1>1, <2>1, <2>3, <2>4 DEF Reversed
  <2>6. QED BY <1>3, <2>5 DEF Carries, t
<1>6. QED BY <1>4, <1>5

LEMMA CarriesNew ==
  ASSUME LinkInv, NEW us, Rooted(us), NEW y \in Keys, NEW e, Joins(e, us[1], y)
  PROVE  Carries(Turned(us, y), e)
<1>1. Turned(us, y)[us[1]] = y
  BY TurnedIs DEF LinkInv, Reversed
<1>2. us[1] \in Keys
  BY DEF Rooted, Runs
<1>3. QED BY <1>1, <1>2 DEF Carries

\* Paths to different roots have no node in common.
LEMMA RootsApart ==
  ASSUME NEW us, NEW vs, Rooted(us), Rooted(vs), us[Len(us)] # vs[Len(vs)]
  PROVE  \A i \in 1 .. Len(us), j \in 1 .. Len(vs) : us[i] # vs[j]
<1> SUFFICES ASSUME NEW i \in 1 .. Len(us), NEW j \in 1 .. Len(vs), us[i] = vs[j] PROVE FALSE
  OBVIOUS
<1> DEFINE d == Len(us) - i
           T == {t \in 0 .. d : us[i + t] # vs[j + t]}
<1>1. Len(us) - i = Len(vs) - j
  BY SameDepth
<1>2. Len(us) \in Nat /\ Len(vs) \in Nat /\ i \in Nat /\ j \in Nat /\ d \in Nat
      /\ i + d = Len(us) /\ j + d = Len(vs)
  <2>1. Len(us) \in Nat /\ Len(vs) \in Nat
    BY DEF Rooted, Runs
  <2>2. QED BY <1>1, <2>1
<1>3. d \in T
  <2>1. us[i + d] # vs[j + d] /\ d \in 0 .. d
    BY <1>2
  <2> HIDE DEF d
  <2>2. QED BY <2>1
<1>4. PICK x \in T : \A y \in T : x <= y
  <2>1. T \in SUBSET Nat
    BY <1>2
  <2> HIDE DEF T
  <2>2. QED BY <1>3, <2>1, LeastOf
<1>5. x \in 0 .. d /\ us[i + x] # vs[j + x] /\ x # 0
  BY <1>2, <1>4
<1>6. x - 1 \in 0 .. d /\ ~(x <= x - 1) /\ i + x \in 2 .. Len(us) /\ j + x \in 2 .. Len(vs)
      /\ (i + x) - 1 = i + (x - 1) /\ (j + x) - 1 = j + (x - 1)
  BY <1>2, <1>5
<1>7. us[i + (x - 1)] = vs[j + (x - 1)]
  BY <1>4, <1>6
<1>8. us[i + x] = link[us[(i + x) - 1]] /\ vs[j + x] = link[vs[(j + x) - 1]]
  BY <1>6 DEF Rooted, Runs
<1>9. QED BY <1>5, <1>6, <1>7, <1>8

\* A tree that is turned around and hung below a node of another one makes no cycle.
LEMMA StaysOpen ==
  ASSUME LinkInv, NoCircle(link), NEW us, NEW vs, Rooted(us), Rooted(vs),
         us[Len(us)] # vs[Len(vs)]
  PROVE  NoCircle(Turned(us, vs[1]))
<1> DEFINE t == Turned(us, vs[1])
<1>1. /\ Len(us) \in Nat /\ Len(us) > 0 /\ \A i \in 1 .. Len(us) : us[i] \in Keys
      /\ Len(vs) \in Nat /\ Len(vs) > 0 /\ \A i \in 1 .. Len(vs) : vs[i] \in Keys
      /\ vs[1] \in Keys /\ \A i \in 2 .. Len(vs) : vs[i] = link[vs[i - 1]]
      /\ link[vs[Len(vs)]] = Nil
  BY DEF Rooted, Runs
<1>2. Reversed(t, us, vs[1])
  BY <1>1, TurnedIs DEF LinkInv
<1> HIDE DEF t
<1> SUFFICES ASSUME NEW S \in (SUBSET Keys) \ {{}}, \A k \in S : t[k] \in S PROVE FALSE
  BY DEF NoCircle, t
<1>3. CASE \A i \in 1 .. Len(us) : us[i] \notin S
  <2>1. \A k \in S : t[k] = link[k]
    BY <1>2, <1>3 DEF Reversed
  <2>2. QED BY <2>1 DEF NoCircle
<1>4. CASE \E i \in 1 .. Len(us) : us[i] \in S
  <2> DEFINE T == {i \in 1 .. Len(us) : us[i] \in S}
  <2>1. PICK x \in T : \A y \in T : x <= y
    <3>1. T \in SUBSET Nat /\ T # {}
      BY <1>4
    <3> HIDE DEF T
    <3>2. QED BY <3>1, LeastOf
  <2>2. x = 1
    <3>1. SUFFICES ASSUME x # 1 PROVE FALSE
      OBVIOUS
    <3>2. x - 1 \in 1 .. Len(us) - 1 /\ (x - 1) + 1 = x /\ x - 1 \in 1 .. Len(us) /\ ~(x <= x - 1)
      BY <1>1, <2>1, <3>1
    <3>3. t[us[x]] = us[x - 1]
      BY <1>2, <3>2 DEF Reversed
    <3>4. us[x - 1] \in S
      BY <2>1, <3>3
    <3>5. QED BY <2>1, <3>2, <3>4
  <2>3. vs[1] \in S
    BY <1>2, <2>1, <2>2 DEF Reversed
  <2>4. \A j \in 1 .. Len(vs) : t[vs[j]] = link[vs[j]]
    BY <1>1, <1>2, RootsApart DEF Reversed
  <2> DEFINE R == {j \in 1 .. Len(vs) : vs[j] \notin S}
  <2>5. R = {}
    <3>1. SUFFICES ASSUME R # {} PROVE FALSE
      OBVIOUS
    <3>2. PICK y \in R : \A z \in R : y <= z
      <4>1. R \in SUBSET Nat
        OBVIOUS
      <4> HIDE DEF R
      <4>2. QED BY <3>1, <4>1, LeastOf
    <3>3. y \in 2 .. Len(vs) /\ y - 1 \in 1 .. Len(vs) /\ ~(y <= y - 1)
      BY <1>1, <2>3, <3>2
    <3>4. vs[y - 1] \in S
      BY <3>2, <3>3
    <3>5. vs[y] \in S
      BY <1>1, <2>4, <3>3, <3>4
    <3>6. QED BY <3>2, <3>5
  <2>6. Len(vs) \in 1 .. Len(vs)
    BY <1>1
  <2>7. vs[Len(vs)] \in S /\ t[vs[Len(vs)]] = Nil
    BY <1>1, <2>4, <2>5, <2>6
  <2>8. QED BY <2>7, NilApart
<1>5. QED BY <1>3, <1>4

\* A cycle of more than two edges is not in the forest.
LEMMA NotInForest ==
  ASSUME Renamed, NoCircle(link), NEW C \in SUBSET alive, SingleCycle(graph, C),
         Cardinality(C) > 2, \A e \in C : Carries(link, e)
  PROVE  FALSE
<1> DEFINE V == UNION {Ends2(e) : e \in C}
           W == {w \in V : link[w] \in V}
           f == [w \in W |-> link[w]]
<1>1. C \in SUBSET Edges /\ C # {} /\ Regular(graph, C) /\ IsFiniteSet(C)
  BY EdgesFinite DEF Renamed, SingleCycle
<1>2. V \in SUBSET Keys /\ V # {} /\ IsFiniteSet(V)
  <2>1. V \in SUBSET Keys
    <3>1. ASSUME NEW e \in C PROVE Ends2(e) \in SUBSET Keys
      BY EndsAreKeys DEF Ends2
    <3>2. QED BY <3>1
  <2>2. V # {}
    <3>1. PICK e \in C : TRUE
      BY <1>1
    <3>2. <<"u", names[e].u>> \in V
      BY <3>1 DEF Ends2
    <3>3. QED BY <3>2
  <2>3. IsFiniteSet(Keys)
    <3>1. IsFiniteSet(Nodes)
      BY EdgesFinite DEF Edges
    <3>2. IsFiniteSet(Sides)
      <4>1. Sides = {"u"} \cup {"v"}
        BY DEF Sides
      <4>2. QED BY <4>1, FS_Singleton, FS_Union
    <3>3. QED BY <3>1, <3>2, FS_Product DEF Keys
  <2> HIDE DEF V
  <2>4. QED BY <2>1, <2>2, <2>3, FS_Subset
<1> HIDE DEF V
<1>3. PICK v \in V : \A w \in V : link[w] # v
  <2> SUFFICES ASSUME \A v \in V : \E w \in V : link[w] = v PROVE FALSE
    OBVIOUS
  <2>1. f \in Surjection(W, V)
    <3>1. f \in [W -> V] /\ \A v \in V : \E w \in W : f[w] = v
      OBVIOUS
    <3>2. DOMAIN f = W
      OBVIOUS
    <3> HIDE DEF f, W
    <3>3. QED BY <3>1, <3>2 DEF Surjection
  <2>2. W \in SUBSET V
    OBVIOUS
  <2> HIDE DEF f, W
  <2>3. IsFiniteSet(W) /\ Cardinality(W) <= Cardinality(V)
        /\ (Cardinality(V) = Cardinality(W) => V = W)
    BY <1>2, <2>2, FS_Subset
  <2>4. Cardinality(V) <= Cardinality(W)
    BY <2>1, <2>3, FS_Surjection
  <2>5. Cardinality(V) \in Nat /\ Cardinality(W) \in Nat
    BY <1>2, <2>3, FS_CardinalityType
  <2>6. V = W
    BY <2>3, <2>4, <2>5
  <2>7. \A w \in V : link[w] \in V
    BY <2>6 DEF W
  <2>8. QED BY <1>2, <2>7 DEF NoCircle
<1>4. PICK e \in C : v \in Ends2(e)
  BY DEF V
<1>5. PICK s \in Sides : v = <<s, names[e][s]>>
  BY <1>4 DEF Ends2, Sides
<1>6. PICK t \in Sides : t # s
  BY DEF Sides
<1>7. ASSUME NEW d \in C PROVE Ends2(d) = {<<s, names[d][s]>>, <<t, names[d][t]>>}
  BY <1>5, <1>6 DEF Ends2, Sides
<1>8. PICK d \in C \ {e} : graph[d][s] = graph[e][s]
  <2>1. One(Partners(graph, C, e, s))
    BY <1>1, RegularMeans
  <2>2. QED BY <2>1 DEF One, Partners
<1>9. names[d][s] = names[e][s] /\ d \in alive /\ e \in alive
  BY <1>8 DEF Renamed
<1>10. ASSUME NEW c \in C, <<s, names[c][s]>> = v PROVE link[v] = <<t, names[c][t]>>
  <2> DEFINE w == <<t, names[c][t]>>
  <2>1. Ends2(c) = {v, w} /\ w \in V
    BY <1>7, <1>10 DEF V
  <2>2. PICK x \in Keys, y \in Keys : {x, y} = Ends2(c) /\ link[x] = y
    BY DEF Carries, Joins
  <2>3. v # w
    BY <1>5, <1>6
  <2> HIDE DEF w
  <2>4. (x = v /\ y = w) \/ (x = w /\ y = v)
    BY <2>1, <2>2, <2>3
  <2>5. QED BY <1>3, <2>1, <2>2, <2>4 DEF w
<1>11. <<t, names[d][t]>> = <<t, names[e][t]>>
  <2>1. <<s, names[d][s]>> = v
    BY <1>5, <1>9
  <2>2. link[v] = <<t, names[d][t]>> /\ link[v] = <<t, names[e][t]>>
    BY <1>5, <1>8, <1>10, <2>1
  <2>3. QED BY <2>2
<1>12. graph[d][t] = graph[e][t]
  <2>1. names[d][t] = names[e][t]
    BY <1>11
  <2>2. QED BY <1>9, <2>1 DEF Renamed
<1> DEFINE D == {d, e}
<1>13. IsFiniteSet(D) /\ Cardinality(D) <= 2 /\ D \in SUBSET C /\ D # {}
  <2>1. D = {d} \cup {e} /\ IsFiniteSet({d}) /\ Cardinality({d}) = 1
    BY FS_Singleton
  <2> HIDE DEF D
  <2>2. IsFiniteSet(D) /\ Cardinality(D) <= 2
    BY <2>1, FS_AddElement
  <2>3. QED BY <1>4, <1>8, <2>1, <2>2
<1>14. ASSUME NEW c \in D, NEW side \in Sides PROVE One(Partners(graph, D, c, side))
  <2>1. graph[d][side] = graph[e][side] /\ d # e
    BY <1>5, <1>6, <1>8, <1>12 DEF Sides
  <2>2. CASE c = d
    <3>1. Partners(graph, D, c, side) = {e}
      BY <2>1, <2>2 DEF Partners
    <3>2. QED BY <3>1 DEF One
  <2>3. CASE c = e
    <3>1. Partners(graph, D, c, side) = {d}
      BY <2>1, <2>3 DEF Partners
    <3>2. QED BY <3>1 DEF One
  <2>4. QED BY <2>2, <2>3
<1> HIDE DEF D
<1>15. D # C
  <2>1. Cardinality(C) \in Nat /\ Cardinality(D) \in Nat
    BY <1>1, <1>13, FS_CardinalityType
  <2>2. QED BY <1>13, <2>1
<1>16. Regular(graph, D)
  BY <1>13, <1>14, RegularIn
<1>17. QED BY <1>13, <1>15, <1>16 DEF SingleCycle

\* An edge whose ends are in one tree is on a link already, or closes a cycle.
LEMMA LoopFound ==
  ASSUME Renamed, Undone, LinkInv, NEW us, NEW vs,
         Rooted(us), Rooted(vs), us[Len(us)] = vs[Len(vs)],
         NEW e \in alive, Joins(e, us[1], vs[1])
  PROVE  \/ Carries(link, e)
         \/ \E D \in SUBSET Edges : /\ e \in D /\ SingleCycle(graph, D)
                                    /\ Cardinality(D) = Len(Loop(us, vs))
<1> DEFINE L == Loop(us, vs)
<1>1. PICK a \in Nat, b \in Nat : Meet(us, vs, a, b) /\ Loop(us, vs) = LoopTo(us, vs, a, b)
  BY LoopIs, Zenon
<1>2. Runs(us) /\ Runs(vs)
  BY DEF Rooted
<1>3. GoesAround(L, us, vs, a, b)
  <2>1. GoesAround(LoopTo(us, vs, a, b), us, vs, a, b)
    BY <1>1, <1>2, LoopEdges
  <2>2. QED BY <1>1, <2>1
<1>4. /\ Len(L) = a + b - 1 /\ L[1] = Edge(us[1], vs[1])
  BY <1>3 DEF GoesAround
<1>5. /\ a \in 1 .. Len(us) /\ b \in 1 .. Len(vs) /\ us[a] = vs[b]
      /\ Len(us) \in Nat /\ Len(vs) \in Nat /\ us[1] \in Keys /\ vs[1] \in Keys
      /\ \A i \in 2 .. Len(us) : us[i] = link[us[i - 1]]
      /\ \A i \in 2 .. Len(vs) : vs[i] = link[vs[i - 1]]
  BY <1>1, <1>2 DEF Meet, Runs
<1>6. Edge(us[1], vs[1]) = graph[e] /\ us[1] # vs[1]
  BY <1>5, EdgeOf
<1> HIDE DEF L
<1>7. a + b - 1 > 1
  <2>1. ~(a = 1 /\ b = 1)
    BY <1>5, <1>6
  <2>2. QED BY <1>5, <2>1
<1>8. CASE a + b - 1 = 2
  <2>1. CASE a = 2
    <3>1. b = 1 /\ 2 \in 2 .. Len(us) /\ 2 - 1 = 1
      BY <1>5, <1>8, <2>1
    <3>2. link[us[1]] = vs[1]
      BY <1>5, <2>1, <3>1
    <3>3. QED BY <1>5, <3>2 DEF Carries
  <2>2. CASE b = 2
    <3>1. a = 1 /\ 2 \in 2 .. Len(vs) /\ 2 - 1 = 1
      BY <1>5, <1>8, <2>2
    <3>2. link[vs[1]] = us[1]
      BY <1>5, <2>2, <3>1
    <3>3. Joins(e, vs[1], us[1])
      BY DEF Joins
    <3>4. QED BY <1>5, <3>2, <3>3 DEF Carries
  <2>3. QED BY <1>5, <1>8, <2>1, <2>2
<1>9. CASE a + b - 1 > 2
  <2> DEFINE n == Len(L)
             I == 1 .. n
             s == [j \in I |-> IF j = 1 THEN e ELSE CHOOSE d \in Edges : graph[d] = L[j]]
             D == {s[j] : j \in I}
  <2>1. n \in Nat /\ n > 2 /\ 1 \in I
    BY <1>4, <1>9
  <2>2. L \in Seq({graph[d] : d \in alive}) /\ SingleCycle(L, I)
    <3>1. Len(Loop(us, vs)) > 1
      BY <2>1 DEF L
    <3>2. QED BY <3>1, LoopIsCycle DEF L
  <2>3. ASSUME NEW j \in I PROVE s[j] \in Edges /\ graph[s[j]] = L[j]
    <3>1. CASE j = 1
      BY <1>4, <1>6, <3>1 DEF Renamed
    <3>2. CASE j # 1
      <4>1. L[j] \in {graph[d] : d \in alive}
        BY <2>2
      <4>2. \E d \in Edges : graph[d] = L[j]
        BY <4>1 DEF Renamed
      <4>3. QED BY <3>2, <4>2
    <3>3. QED BY <3>1, <3>2
  <2>4. s[1] = e
    BY <2>1
  <2>5. s \in [I -> Edges]
    <3>1. s = [j \in I |-> s[j]]
      OBVIOUS
    <3> HIDE DEF s
    <3>2. QED BY <2>3, <3>1
  <2> HIDE DEF s
  <2>6. \A i, j \in I : L[i] = L[j] => i = j
    BY <2>1, <2>2, CycleIsSimple
  <2>7. \A i, j \in I : s[i] = s[j] => i = j
    BY <2>3, <2>6
  <2>8. SingleCycle(graph, D) /\ D \in SUBSET Edges /\ e \in D
    <3>1. IsFiniteSet(I)
      BY <2>1, FS_Interval
    <3>2. e \in D /\ D \in SUBSET Edges
      BY <2>1, <2>4, <2>5
    <3> HIDE DEF I
    <3>3. \A i \in I : graph[s[i]] = L[i]
      BY <2>3
    <3>4. SingleCycle(graph, D)
      BY <2>2, <2>5, <2>7, <3>1, <3>3, CarriedOver
    <3>5. QED BY <3>2, <3>4
  <2>9. Cardinality(D) = n
    <3>1. s \in [1 .. n -> Nat]
      BY <2>5, EdgesFinite
    <3>2. QED BY <2>1, <2>7, <3>1, SortedIs
  <2>10. QED BY <2>8, <2>9 DEF L
<1>10. QED BY <1>4, <1>5, <1>7, <1>8, <1>9

-----------------------------------------------------------------------------
(* A solver that could not be made *)

\* A failed construction is followed by a second wait for threads that have left, which
\* does not end.
StuckInv ==
  /\ pc \in {"init", "abort", "aborting"} => phase = 1
  /\ pc \in {"abort", "aborting"} => pool = "custom"
  /\ pc = "aborting" /\ done => threads = {}
  /\ ~cancel /\ phase = 1 /\ pc \in {"close", "closing"} =>
       pool = "custom" /\ threads = {} /\ ~done
  /\ ~cancel /\ phase = 1 => pc # "closed"

LEMMA StuckNext ==
  ASSUME PoolInv, LaterInv, CoreInv, RowsInv, StuckInv, [Next]_vars
  PROVE  StuckInv'
<1>0. Match # 1 /\ Last1 # 1
  BY SizesHold DEF Sizes
<1>1. ASSUME UNCHANGED <<pc, phase, pool, threads, done>>, cancel => cancel' PROVE StuckInv'
  BY <1>1 DEF StuckInv
<1>2. ASSUME pc' \notin {"init", "abort", "aborting", "close", "closing", "closed"} PROVE StuckInv'
  BY <1>2 DEF StuckInv
<1>3. CASE Attempt
  <2>1. phase' = 1 /\ pc' \in {"init", "closed"} /\ (pc' = "closed" => cancel) /\ cancel' = cancel
    BY <1>3 DEF Attempt, CoreInv, Renamed
  <2>2. QED BY <2>1 DEF StuckInv
<1>4. CASE InitPool \/ CreateThreads
  <2>1. /\ pc = "init" /\ UNCHANGED <<phase, pool, cancel, done>>
        /\ \/ pc' = "begin"
           \/ pc' = "close" /\ cancel
           \/ pc' = "abort" /\ pool = "custom"
    BY <1>4 DEF InitPool, CreateThreads, fixed, counters
  <2>2. QED BY <2>1 DEF StuckInv
<1>5. CASE Begin \/ Dispatch \/ Join
  <2>1. pc' \in {"dispatch", "wait"}
    BY <1>5 DEF Begin, Dispatch, Join, control
  <2>2. QED BY <1>2, <2>1
<1>6. CASE Joined
  <2>1. pc' \in {"begin", "report", "recover"} \/ (pc' = "close" /\ cancel')
    BY <1>6 DEF Joined
  <2>2. QED BY <1>2, <2>1 DEF StuckInv
<1>7. CASE Recover
  <2>1. pc = "recover" /\ (pc' \in {"begin", "recover"} \/ (pc' = "close" /\ phase' = phase))
    BY <1>7 DEF Recover, ReadSlot
  <2>2. phase # 1
    BY <1>0, <2>1 DEF RowsInv
  <2>3. QED BY <1>2, <2>1, <2>2 DEF StuckInv
<1>8. CASE Report
  <2>1. pc = "report" /\ phase' = phase /\ pc' \in {"close", "recover"}
    BY <1>8 DEF Report
  <2>2. phase # 1
    BY <1>0, <2>1 DEF RowsInv
  <2>3. QED BY <1>2, <2>1, <2>2 DEF StuckInv
<1>9. CASE Stop
  <2>1. UNCHANGED <<phase, pool, done, cancel>> /\ pc \in {"abort", "close"}
    BY <1>9 DEF Stop, fixed
  <2>2. CASE pool = "custom"
    <3>1. UNCHANGED threads /\ pc' = IF pc = "abort" THEN "aborting" ELSE "closing"
      BY <1>9, <2>2 DEF Stop
    <3>2. pc = "abort" => ~done
      BY DEF PoolInv, Barrier, Still, Running
    <3>3. QED BY <2>1, <2>2, <3>1, <3>2 DEF StuckInv
  <2>3. CASE pool # "custom"
    <3>1. pc = "close" /\ pc' = "closed"
      BY <1>9, <2>1, <2>3 DEF Stop, StuckInv
    <3>2. QED BY <2>1, <2>3, <3>1 DEF StuckInv
  <2>4. QED BY <2>2, <2>3
<1>10. CASE Stopped
  <2>1. /\ UNCHANGED <<phase, pool, threads, cancel>> /\ pc \in {"aborting", "closing"} /\ done /\ ~done'
        /\ pc' = IF pc = "aborting" THEN "close" ELSE "closed"
    BY <1>10 DEF Stopped, fixed
  <2>2. QED BY <2>1 DEF StuckInv
<1>11. CASE Closed
  <2>1. pc' \in {"idle", "done"}
    BY <1>11 DEF Closed
  <2>2. QED BY <1>2, <2>1
<1>12. CASE UNCHANGED vars \/ Cancel \/ \E w \in Workers : Take(w) \/ Step(w)
  <2>1. UNCHANGED <<pc, phase, pool, threads, done>> /\ (cancel => cancel')
    <3>1. CASE UNCHANGED vars \/ Cancel
      BY <3>1 DEF vars, Cancel, control, fixed, counters
    <3>2. CASE \E w \in Workers : Take(w) \/ Step(w)
      BY <3>2 DEF Take, Step, control, fixed, counters
    <3>3. QED BY <1>12, <3>1, <3>2
  <2>2. QED BY <1>1, <2>1
<1>13. ASSUME NEW w \in Workers, Finish(w) PROVE StuckInv'
  <2>1. UNCHANGED <<pc, phase>> /\ busy[w] # Idle
    BY <1>13 DEF Finish, control
  <2>2. pc \in {"dispatch", "wait"}
    BY <2>1 DEF PoolInv, Barrier, Still, Running, Working
  <2>3. QED BY <1>2, <2>1, <2>2
<1>14. ASSUME NEW w \in Workers, Leave(w) PROVE StuckInv'
  <2>1. /\ UNCHANGED <<pc, phase, pool, cancel>> /\ w \in threads
        /\ threads' = threads \ {w} /\ done' = (done \/ threads' = {})
    BY <1>14 DEF Leave, Ready, control, fixed
  <2>2. pc # "aborting" => threads # {}
    BY <2>1
  <2>3. QED BY <2>1 DEF StuckInv
<1>15. QED BY <1>3, <1>4, <1>5, <1>6, <1>7, <1>8, <1>9, <1>10, <1>11, <1>12, <1>13, <1>14
  DEF Next, Main, Work

-----------------------------------------------------------------------------
(* What is read is in the forest or in a cycle that was looked at *)

\* No path in the forest is longer than MAXPATHLEN; an edge with such a path is passed
\* over, and the cycle that it closes with it (solve).
PathsFit ==
  pc = "recover" => \A e \in left : /\ ~TooLong(Path(<<"u", names[e].u>>))
                                    /\ ~TooLong(Path(<<"v", names[e].v>>))

Recovering ==
  \/ pc \in {"recover", "report", "close", "closing", "closed"}
  \/ phase = Match /\ pc \in {"begin", "dispatch", "wait"}
\* The cycle has been found and is being matched.
Pending == phase = Match /\ pc \in {"begin", "dispatch", "wait", "report"}

Closes(e, D) == D \in SUBSET Edges /\ e \in D /\ SingleCycle(graph, D)
Accounted(e) ==
  \/ Carries(link, e)
  \/ \E D : Closes(e, D) /\ (~Wanted(Cardinality(D)) \/ (Pending /\ Cardinality(D) = Len(cycle)))

Read ==
  /\ NoCircle(link) /\ Core[graph] \subseteq alive
  /\ \A e \in alive \ left : Accounted(e)
  /\ pc \in {"close", "closing", "closed"} => left = {}
ReadInv == ~cancel /\ Recovering /\ phase # 1 /\ answer = None => Read

LEMMA ReadKept ==
  ASSUME ReadInv, UNCHANGED <<graph, alive, names, link, left, cycle, answer, room>>,
         ~cancel' /\ Recovering' /\ phase' # 1 =>
           /\ ~cancel /\ Recovering /\ phase # 1 /\ (Pending => Pending')
           /\ pc' \in {"close", "closing", "closed"} =>
                pc \in {"close", "closing", "closed"} \/ left = {}
  PROVE  ReadInv'
<1> SUFFICES ASSUME ~cancel', Recovering', phase' # 1, answer' = None PROVE Read'
  BY DEF ReadInv
<1>1. Read
  BY DEF ReadInv
<1>2. \A e : Accounted(e) => Accounted(e)'
  <2>1. \A e : Carries(link, e) => Carries(link, e)'
    BY DEF Carries, Joins, Ends2
  <2>2. \A e, D : Closes(e, D) => Closes(e, D)'
    BY DEF Closes
  <2>3. \A n : Wanted(n)' <=> Wanted(n)
    BY DEF Wanted
  <2>4. QED BY <2>1, <2>2, <2>3 DEF Accounted
<1>3. QED BY <1>1, <1>2 DEF Read

LEMMA ReadOne ==
  ASSUME CoreInv, RowsInv, NamingInv, LinkInv, ReadInv, PathsFit, pc = "recover", ~cancel,
         answer = None, NEW e \in left, ReadSlot(e),
         UNCHANGED <<graph, alive, names, room>>
  PROVE  Read'
<1> DEFINE us == Path(<<"u", names[e].u>>)
           vs == Path(<<"v", names[e].v>>)
<1>1. /\ e \in alive /\ Renamed /\ Undone
  BY NamesUndone DEF LinkInv, CoreInv, Undone
<1>2. /\ <<"u", names[e].u>> \in Keys /\ <<"v", names[e].v>> \in Keys
      /\ link \in [Linked -> Linked] /\ link[Nil] = Nil
  BY <1>1, EndsAreKeys DEF LinkInv
<1>3. Runs(us) /\ us[1] = <<"u", names[e].u>> /\ Runs(vs) /\ vs[1] = <<"v", names[e].v>>
  BY <1>2, PathIs
<1>4. Joins(e, us[1], vs[1]) /\ Joins(e, vs[1], us[1])
  BY <1>3 DEF Joins, Ends2
<1>5. ~TooLong(us) /\ ~TooLong(vs)
  BY DEF PathsFit
<1>6. /\ left' = left \ {e}
      /\ IF Last(us) # Last(vs)
         THEN /\ link' = Turned(us, vs[1]) \/ link' = Turned(vs, us[1])
              /\ UNCHANGED <<cycle, pc, phase>>
         ELSE /\ UNCHANGED link
              /\ IF Admissible(Len(Loop(us, vs)))
                 THEN cycle' = Loop(us, vs) /\ pc' = "begin" /\ phase' = Match
                 ELSE UNCHANGED <<cycle, pc, phase>>
  BY <1>5 DEF ReadSlot
<1> HIDE DEF us, vs
<1>7. Rooted(us) /\ Rooted(vs) /\ Last(us) = us[Len(us)] /\ Last(vs) = vs[Len(vs)]
  BY <1>3, <1>5 DEF Rooted, TooLong, Last
<1>8. us[1] \in Keys /\ vs[1] \in Keys
  BY <1>2, <1>3
<1>9. Read /\ ~Pending
  <2>1. Recovering /\ phase # 1
    BY SizesHold DEF RowsInv, Recovering, Sizes
  <2>2. QED BY <2>1 DEF ReadInv, Pending
<1>10. NoCircle(link') /\ \A d : Carries(link, d) => Carries(link', d)
  <2>1. CASE Last(us) # Last(vs)
    <3>1. NoCircle(Turned(us, vs[1])) /\ NoCircle(Turned(vs, us[1]))
      BY <1>7, <1>9, <2>1, StaysOpen DEF Read
    <3>2. \A d : Carries(link, d) => Carries(Turned(us, vs[1]), d) /\ Carries(Turned(vs, us[1]), d)
      BY <1>7, <1>8, CarriesOn
    <3>3. QED BY <1>6, <2>1, <3>1, <3>2
  <2>2. CASE Last(us) = Last(vs)
    BY <1>6, <1>9, <2>2 DEF Read
  <2>3. QED BY <2>1, <2>2
<1>11. pc' \in {"recover", "begin"}
  BY <1>6
<1>12. \A d : Carries(link', d) => Accounted(d)'
  BY DEF Accounted, Carries, Joins, Ends2
<1>13. \A n : Wanted(n)' <=> Wanted(n)
  BY DEF Wanted
<1>14. ASSUME NEW d \in alive \ left PROVE Accounted(d)'
  <2>1. CASE Carries(link, d)
    BY <1>10, <1>12, <2>1
  <2>2. CASE ~Carries(link, d)
    <3>1. PICK D : Closes(d, D) /\ ~Wanted(Cardinality(D))
      BY <1>9, <2>2 DEF Read, Accounted
    <3>2. Closes(d, D)'
      BY <3>1 DEF Closes
    <3>3. QED BY <1>13, <3>1, <3>2 DEF Accounted
  <2>3. QED BY <2>1, <2>2
<1>15. Accounted(e)'
  <2>1. CASE Last(us) # Last(vs)
    <3>1. Carries(Turned(us, vs[1]), e) /\ Carries(Turned(vs, us[1]), e)
      BY <1>4, <1>7, <1>8, CarriesNew
    <3>2. QED BY <1>6, <1>12, <2>1, <3>1
  <2>2. CASE Last(us) = Last(vs)
    <3>1. \/ Carries(link, e)
          \/ \E D \in SUBSET Edges : /\ e \in D /\ SingleCycle(graph, D)
                                     /\ Cardinality(D) = Len(Loop(us, vs))
      BY <1>1, <1>4, <1>7, <2>2, LoopFound
    <3>2. CASE Carries(link, e)
      BY <1>10, <1>12, <3>2
    <3>3. ASSUME NEW D \in SUBSET Edges, e \in D, SingleCycle(graph, D),
                 Cardinality(D) = Len(Loop(us, vs))
          PROVE  Accounted(e)'
      <4>1. Closes(e, D)'
        BY <3>3 DEF Closes
      <4>2. CASE Admissible(Len(Loop(us, vs)))
        <5>1. cycle' = Loop(us, vs) /\ Pending'
          BY <1>6, <2>2, <4>2 DEF Pending
        <5>2. QED BY <3>3, <4>1, <5>1 DEF Accounted
      <4>3. CASE ~Admissible(Len(Loop(us, vs)))
        <5>1. ~Wanted(Cardinality(D))
          BY <3>3, <4>3 DEF Wanted, Admissible
        <5>2. QED BY <1>13, <4>1, <5>1 DEF Accounted
      <4>4. QED BY <4>2, <4>3
    <3>4. QED BY <3>1, <3>2, <3>3
  <2>3. QED BY <2>1, <2>2
<1>16. \A d \in alive' \ left' : Accounted(d)'
  BY <1>6, <1>14, <1>15
<1>17. QED BY <1>9, <1>10, <1>11, <1>16 DEF Read

-----------------------------------------------------------------------------
(* Nothing is missed *)

LEMMA ReadNext ==
  ASSUME PoolInv, LaterInv, CoreInv, CoreInv', RowsInv, NamingInv, LinkInv, MatchInv, StuckInv,
         ReadInv, PathsFit, [Next]_vars
  PROVE  ReadInv'
<1>0. Match # 1 /\ Last1 # 1 /\ Match = Last1 + 1 /\ Last1 \in Nat /\ phase \in Nat
  BY SizesHold DEF Sizes, PoolInv, PoolType, Phases
<1> DEFINE kept == <<graph, alive, names, link, left, cycle, answer, room>>
<1>1. ASSUME phase' = 1 PROVE ReadInv'
  BY <1>1 DEF ReadInv
<1>2. CASE Attempt \/ InitPool \/ CreateThreads
  <2>1. pc \in {"idle", "init"} /\ UNCHANGED phase
    BY <1>2 DEF Attempt, InitPool, CreateThreads
  <2>2. phase = 1
    BY <2>1 DEF StuckInv, CoreInv, Renamed
  <2>3. QED BY <1>1, <2>1, <2>2
<1>3. CASE Begin \/ Dispatch \/ Join
  <2>1. /\ UNCHANGED kept /\ UNCHANGED <<phase, cancel>>
        /\ pc \in {"begin", "dispatch"} /\ pc' \in {"dispatch", "wait"}
    BY <1>3 DEF Begin, Dispatch, Join, control, buckets, fixed, recovery
  <2>2. QED BY <2>1, ReadKept DEF Recovering, Pending
<1>4. CASE Joined
  <2>1. pc = "wait" /\ UNCHANGED <<graph, alive, names, link, cycle, answer, room, cancel>>
    BY <1>4 DEF Joined, buckets, fixed
  <2>2. CASE phase = Match
    <3>1. pc' = "report" /\ UNCHANGED <<phase, left>>
      BY <1>0, <1>4, <2>2 DEF Joined
    <3>2. QED BY <2>1, <2>2, <3>1, ReadKept DEF Recovering, Pending
  <2>3. CASE phase = Last1
    <3>1. left' = alive /\ UNCHANGED phase /\ pc' = IF cancel THEN "close" ELSE "recover"
      BY <1>0, <1>4, <2>3 DEF Joined
    <3>2. SUFFICES ASSUME ~cancel' PROVE Read'
      BY DEF ReadInv
    <3>3. pc' = "recover"
      BY <2>1, <3>1, <3>2
    <3>4. Core[graph]' \subseteq alive'
      BY <1>0, <2>3, <3>1, <3>2, <3>3 DEF CoreInv, Resting
    <3>5. \A k \in Keys : link'[k] = Nil
      <4>1. phase # Match /\ pc = "wait"
        BY <1>0, <2>1, <2>3
      <4>2. QED BY <2>1, <4>1 DEF LinkInv
    <3>6. NoCircle(link')
      BY <3>5, NilApart DEF NoCircle
    <3>7. QED BY <2>1, <3>1, <3>3, <3>4, <3>6 DEF Read
  <2>4. CASE phase \notin {Match, Last1}
    <3>1. pc' = "begin" /\ phase' \in {Last1 - 1, phase + 1} /\ UNCHANGED left
      BY <1>4, <2>4 DEF Joined, After
    <3>2. phase' # Match
      BY <1>0, <2>4, <3>1
    <3>3. QED BY <3>1, <3>2 DEF ReadInv, Recovering
  <2>5. QED BY <2>2, <2>3, <2>4
<1>5. CASE Recover
  <2>1. pc = "recover" /\ UNCHANGED <<graph, alive, names, answer, room, cancel>>
    BY <1>5 DEF Recover, buckets, fixed
  <2>2. CASE cancel
    BY <2>1, <2>2 DEF ReadInv
  <2>3. CASE ~cancel /\ left = {}
    <3>1. pc' = "close" /\ UNCHANGED <<phase, left, link, cycle>>
      BY <1>5, <2>3 DEF Recover, recovery
    <3>2. QED BY <2>1, <2>3, <3>1, ReadKept DEF Recovering, Pending
  <2>4. CASE ~cancel /\ left # {}
    <3>1. PICK e \in left : ReadSlot(e)
      BY <1>5, <2>4 DEF Recover
    <3>2. answer' = None => Read'
      BY <2>1, <2>4, <3>1, ReadOne
    <3>3. QED BY <3>2 DEF ReadInv
  <2>5. QED BY <2>2, <2>3, <2>4
<1>6. CASE Report
  <2>1. /\ pc = "report" /\ UNCHANGED <<graph, alive, names, link, left, cycle, room, cancel, phase>>
    BY <1>6 DEF Report, buckets, fixed, recovery
  <2>2. CASE Len(cycle) <= room /\ Len(cycle) \in MinLength .. MaxLength
    <3>1. answer' = Encoded(Sorted(SubSeq(solution, 1, Len(cycle))))
      BY <1>6, <2>2 DEF Report
    <3>2. ~cancel => answer' # None
      BY <2>1, <2>2, <3>1, ReportAccepted
    <3>3. QED BY <2>1, <3>2 DEF ReadInv
  <2>3. CASE ~(Len(cycle) <= room /\ Len(cycle) \in MinLength .. MaxLength)
    <3>1. pc' = "recover" /\ UNCHANGED answer
      BY <1>6, <2>3 DEF Report
    <3>2. ~Wanted(Len(cycle))
      BY <2>3 DEF Wanted
    <3>3. SUFFICES ASSUME ~cancel, phase # 1, answer = None PROVE Read'
      BY <2>1, <3>1 DEF ReadInv
    <3>4. Read
      BY <2>1, <3>3 DEF ReadInv, Recovering
    <3>5. ASSUME NEW e \in alive \ left PROVE Accounted(e)'
      <4>1. CASE Carries(link, e)
        <5>1. Carries(link, e)'
          BY <2>1, <4>1 DEF Carries, Joins, Ends2
        <5>2. QED BY <5>1 DEF Accounted
      <4>2. CASE ~Carries(link, e)
        <5>1. PICK D : Closes(e, D) /\ ~Wanted(Cardinality(D))
          BY <3>2, <3>4, <4>2 DEF Read, Accounted
        <5>2. Closes(e, D)' /\ ~Wanted(Cardinality(D))'
          BY <2>1, <5>1 DEF Closes, Wanted
        <5>3. QED BY <5>2 DEF Accounted
      <4>3. QED BY <4>1, <4>2
    <3>6. QED BY <2>1, <3>1, <3>4, <3>5 DEF Read
  <2>4. QED BY <2>2, <2>3
<1>7. CASE Stop
  <2>1. /\ UNCHANGED kept /\ UNCHANGED <<phase, cancel>> /\ pc \in {"abort", "close"}
    BY <1>7 DEF Stop, buckets, fixed, recovery
  <2>2. CASE pc = "abort"
    BY <1>1, <2>1, <2>2 DEF StuckInv
  <2>3. CASE pc = "close"
    <3>1. pc' \in {"closing", "closed"}
      BY <1>7, <2>3 DEF Stop
    <3>2. QED BY <2>1, <2>3, <3>1, ReadKept DEF Recovering, Pending
  <2>4. QED BY <2>1, <2>2, <2>3
<1>8. CASE Stopped
  <2>1. /\ UNCHANGED kept /\ UNCHANGED <<phase, cancel>> /\ pc \in {"aborting", "closing"}
    BY <1>8 DEF Stopped, buckets, fixed, recovery
  <2>2. CASE pc = "aborting"
    BY <1>1, <2>1, <2>2 DEF StuckInv
  <2>3. CASE pc = "closing"
    <3>1. pc' = "closed"
      BY <1>8, <2>3 DEF Stopped
    <3>2. QED BY <2>1, <2>3, <3>1, ReadKept DEF Recovering, Pending
  <2>4. QED BY <2>1, <2>2, <2>3
<1>9. CASE Closed
  BY <1>1, <1>9 DEF Closed
<1>10. CASE Cancel
  BY <1>10 DEF Cancel, ReadInv
<1>11. ASSUME UNCHANGED kept, UNCHANGED <<pc, phase, cancel>> PROVE ReadInv'
  BY <1>11, ReadKept DEF Recovering, Pending
<1>12. CASE UNCHANGED vars \/ \E w \in Workers : Take(w) \/ Finish(w) \/ Leave(w)
  <2>1. UNCHANGED kept /\ UNCHANGED <<pc, phase, cancel>>
    <3>1. CASE UNCHANGED vars
      BY <3>1 DEF vars, control, buckets, fixed, recovery
    <3>2. CASE \E w \in Workers : Take(w) \/ Finish(w) \/ Leave(w)
      BY <3>2 DEF Take, Finish, Leave, control, buckets, fixed, recovery
    <3>3. QED BY <1>12, <3>1, <3>2
  <2>2. QED BY <1>11, <2>1
<1>13. ASSUME NEW w \in Workers, Step(w) PROVE ReadInv'
  <2>1. /\ UNCHANGED <<pc, phase, graph, link, left, cycle, answer, room, cancel>> /\ busy[w] # Idle
        /\ ProcessRow(busy[w].phase, busy[w].row)
    BY <1>13 DEF Step, control, fixed, recovery
  <2>2. busy[w].phase = phase /\ pc \in {"dispatch", "wait"}
    BY <2>1 DEF PoolInv, Barrier, Still, Taken, Working, Running
  <2>3. CASE phase = Match
    <3>1. UNCHANGED buckets
      BY <1>0, <2>1, <2>2, <2>3 DEF ProcessRow, MatchRow
    <3>2. QED BY <1>11, <2>1, <3>1 DEF buckets
  <2>4. CASE phase # Match
    BY <2>1, <2>2, <2>4 DEF ReadInv, Recovering
  <2>5. QED BY <2>3, <2>4
<1>14. QED BY <1>2, <1>3, <1>4, <1>5, <1>6, <1>7, <1>8, <1>9, <1>10, <1>12, <1>13
  DEF Next, Main, Work

LEMMA NoneLeft ==
  ASSUME CoreInv, StuckInv, ReadInv, pc = "closed", answer = None, ~cancel,
         NEW C \in Cycles[graph], Wanted(Cardinality(C))
  PROVE  \E D \in Cycles[graph] \ {C} : D \cap C # {}
<1>1. graph \in Graphs /\ Renamed
  BY DEF CoreInv, Renamed
<1>2. Cycles[graph] = {X \in SUBSET Edges : SingleCycle(graph, X)}
  BY <1>1 DEF Cycles
<1>3. Read /\ ~Pending
  <2>1. phase # 1 /\ Recovering
    BY DEF StuckInv, Recovering
  <2>2. QED BY <2>1 DEF ReadInv, Pending
<1>4. C \in SUBSET alive /\ SingleCycle(graph, C)
  <2>1. SingleCycle(graph, C) /\ C \in SUBSET Edges
    BY <1>2
  <2>2. C \subseteq Core[graph]
    BY <1>1, <2>1, CyclesInCore DEF SingleCycle
  <2>3. QED BY <1>3, <2>1, <2>2 DEF Read
<1>5. Cardinality(C) > 2
  <2>1. Cardinality(C) \in Shortest .. Longest
    BY DEF Wanted
  <2>2. QED BY <2>1, Lengths
<1>6. PICK e \in C : ~Carries(link, e)
  BY <1>1, <1>3, <1>4, <1>5, NotInForest DEF Read
<1>7. e \in alive \ left
  BY <1>3, <1>4 DEF Read
<1>8. PICK D : Closes(e, D) /\ ~Wanted(Cardinality(D))
  BY <1>3, <1>6, <1>7 DEF Read, Accounted
<1>9. D \in Cycles[graph] /\ D # C /\ e \in D \cap C
  BY <1>2, <1>6, <1>8 DEF Closes
<1>10. QED BY <1>9

MissInv == SolveInv /\ StuckInv /\ ReadInv

\* If no path was too long, whoever ends without a proof has had no cycle of the lengths
\* wanted but those that share an edge with another one.
THEOREM NothingMissed == Spec /\ []PathsFit => []MissesNothing
<1>1. MissInv => MissesNothing
  <2> SUFFICES ASSUME MissInv PROVE MissesNothing
    OBVIOUS
  <2>1. CoreInv /\ StuckInv /\ ReadInv
    BY DEF MissInv, SolveInv
  <2>2. QED BY <2>1, NoneLeft DEF MissesNothing
<1>2. Init => MissInv
  <2> SUFFICES ASSUME Init PROVE MissInv
    OBVIOUS
  <2>1. SolveInv
    BY SolveInit
  <2>2. pc = "idle" /\ phase = 1
    BY DEF Init
  <2>3. QED BY <2>1, <2>2 DEF MissInv, StuckInv, ReadInv
<1>3. MissInv /\ PathsFit /\ [Next]_vars => MissInv'
  <2> SUFFICES ASSUME MissInv, PathsFit, [Next]_vars PROVE MissInv'
    OBVIOUS
  <2>1. SolveInv'
    BY SolveNext DEF MissInv
  <2>2. StuckInv'
    BY StuckNext DEF MissInv, SolveInv
  <2>3. ReadInv'
    BY <2>1, ReadNext DEF MissInv, SolveInv
  <2>4. QED BY <2>1, <2>2, <2>3 DEF MissInv
<1>4. QED BY <1>1, <1>2, <1>3, PTL DEF Spec
=============================================================================
