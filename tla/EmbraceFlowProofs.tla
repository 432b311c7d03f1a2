-------------------------- MODULE EmbraceFlowProofs --------------------------
(***************************************************************************)
(* Proofs about what becomes of an entry on its way through Embrace: how     *)
(* often it is broadcast, that nobody stores what was not subscribed to,     *)
(* and that nothing is lost or waits in vain in the reordering cache.        *)
(***************************************************************************)
EXTENDS EmbraceProofs, FiniteSetTheorems

-----------------------------------------------------------------------------
(* Where a step leaves the worker that takes it *)

Elements(s) == {s[i] : i \in DOMAIN s}

LEMMA ElementsOfParts ==
  ASSUME NEW s \in Seq(Posts), NEW t \in Seq(Posts)
  PROVE  /\ Elements(s \o t) = Elements(s) \cup Elements(t)
         /\ s # <<>> => Head(s) \in Posts /\ Elements(s) = {Head(s)} \cup Elements(Tail(s))
         /\ Elements(<<>>) = {} /\ Elements(s) \subseteq Posts
<1>1. Elements(s \o t) = Elements(s) \cup Elements(t)
  <2>1. /\ DOMAIN (s \o t) = 1 .. Len(s) + Len(t)
        /\ \A i \in 1 .. Len(s) : (s \o t)[i] = s[i]
        /\ \A i \in 1 .. Len(t) : (s \o t)[Len(s) + i] = t[i]
    OBVIOUS
  <2>2. \A i \in 1 .. Len(s) + Len(t) : i \in 1 .. Len(s) \/ i - Len(s) \in 1 .. Len(t)
    OBVIOUS
  <2>3. ASSUME NEW i \in 1 .. Len(s) + Len(t)
        PROVE  (s \o t)[i] \in Elements(s) \cup Elements(t)
    <3>1. CASE i \in 1 .. Len(s)
      BY <2>1, <3>1 DEF Elements
    <3>2. CASE i - Len(s) \in 1 .. Len(t)
      <4>1. (s \o t)[Len(s) + (i - Len(s))] = t[i - Len(s)]
        BY <2>1, <3>2
      <4>2. QED BY <3>2, <4>1 DEF Elements
    <3>3. QED BY <2>2, <3>1, <3>2
  <2>4. \A i \in 1 .. Len(s) : i \in DOMAIN (s \o t)
    BY <2>1
  <2>5. \A i \in 1 .. Len(t) : Len(s) + i \in DOMAIN (s \o t)
    BY <2>1
  <2>6. \A i \in DOMAIN s : s[i] \in Elements(s \o t)
    <3>1. ASSUME NEW i \in DOMAIN s PROVE s[i] \in Elements(s \o t)
      <4>1. i \in 1 .. Len(s)
        OBVIOUS
      <4>2. s[i] = (s \o t)[i] /\ i \in DOMAIN (s \o t)
        BY <4>1, <2>1, <2>4
      <4>3. (s \o t)[i] \in Elements(s \o t)
        BY <4>2 DEF Elements
      <4>4. QED BY <4>2, <4>3
    <3>2. QED BY <3>1
  <2>7. \A i \in DOMAIN t : t[i] \in Elements(s \o t)
    <3>1. ASSUME NEW i \in DOMAIN t PROVE t[i] \in Elements(s \o t)
      <4>1. i \in 1 .. Len(t)
        OBVIOUS
      <4>2. t[i] = (s \o t)[Len(s) + i] /\ Len(s) + i \in DOMAIN (s \o t)
        BY <4>1, <2>1, <2>5
      <4>3. (s \o t)[Len(s) + i] \in Elements(s \o t)
        BY <4>2 DEF Elements
      <4>4. QED BY <4>2, <4>3
    <3>2. QED BY <3>1
  <2>8. Elements(s \o t) \subseteq Elements(s) \cup Elements(t)
    BY <2>3 DEF Elements
  <2>9. Elements(s) \cup Elements(t) \subseteq Elements(s \o t)
    BY <2>6, <2>7 DEF Elements
  <2>10. QED BY <2>8, <2>9
<1>2. ASSUME s # <<>>
      PROVE  Head(s) \in Posts /\ Elements(s) = {Head(s)} \cup Elements(Tail(s))
  <2>1. /\ Tail(s) \in Seq(Posts) /\ Len(Tail(s)) = Len(s) - 1 /\ Head(s) = s[1]
        /\ \A i \in 1 .. Len(s) - 1 : Tail(s)[i] = s[i + 1]
    BY <1>2
  <2>2. \A i \in 1 .. Len(s) : i = 1 \/ i - 1 \in 1 .. Len(s) - 1
    OBVIOUS
  <2>3. ASSUME NEW i \in 1 .. Len(s) PROVE s[i] \in {Head(s)} \cup Elements(Tail(s))
    <3>1. CASE i = 1
      BY <2>1, <3>1
    <3>2. CASE i - 1 \in 1 .. Len(s) - 1
      <4>1. Tail(s)[i - 1] = s[(i - 1) + 1]
        BY <2>1, <3>2
      <4>2. Tail(s)[i - 1] = s[i] /\ i - 1 \in DOMAIN Tail(s)
        BY <2>1, <3>2, <4>1
      <4>3. QED BY <4>2, ZenonT(30) DEF Elements
    <3>3. QED BY <2>2, <3>1, <3>2
  <2>4. 1 \in DOMAIN s /\ \A i \in 1 .. Len(s) - 1 : i + 1 \in DOMAIN s
    BY <1>2
  <2>5. Head(s) \in Elements(s) /\ \A i \in DOMAIN Tail(s) : Tail(s)[i] \in Elements(s)
    <3>1. Head(s) \in Elements(s)
      BY <2>1, <2>4, Zenon DEF Elements
    <3>2. ASSUME NEW i \in DOMAIN Tail(s) PROVE Tail(s)[i] \in Elements(s)
      <4>1. i \in 1 .. Len(s) - 1
        BY <2>1
      <4>2. Tail(s)[i] = s[i + 1] /\ i + 1 \in DOMAIN s
        BY <4>1, <2>1, <2>4
      <4>3. QED BY <4>2, ZenonT(30) DEF Elements
    <3>3. QED BY <3>1, <3>2
  <2>6. Head(s) \in Posts
    BY <1>2
  <2>7. QED BY <2>3, <2>5, <2>6 DEF Elements
<1>3. Elements(<<>>) = {} /\ Elements(s) \subseteq Posts
  BY DEF Elements
<1>4. QED BY <1>1, <1>2, <1>3

\* A worker that walks is done, or assesses the first of what is left on behalf of
\* the same source.
LEMMA WalkLeads ==
  ASSUME TypeInv, NEW w \in Workers, Active(w), NEW left \in Seq(Posts), Walk(w, left)
  PROVE  /\ todo'[w] \in Seq(Posts)
         /\ \/ pc'[w] = "idle" /\ left = <<>> /\ todo'[w] = <<>>
            \/ /\ pc'[w] = "assess"
               /\ frame'[w].entry \in Posts /\ frame'[w].source = frame[w].source
               /\ frame'[w].nested /\ ~frame'[w].gated
               /\ Elements(left) = {frame'[w].entry} \cup Elements(todo'[w])
<1>1. CASE left = <<>>
  BY <1>1 DEF Walk, TypeInv, TypeOK
<1>2. CASE left # <<>>
  <2>1. /\ pc'[w] = "assess" /\ frame'[w] = Begin(Head(left), frame[w].source, TRUE)
        /\ todo'[w] = Tail(left)
    BY <1>2 DEF Walk, TypeInv, TypeOK
  <2>2. Tail(left) \in Seq(Posts)
    BY <1>2
  <2>3. QED BY <1>2, <2>1, <2>2, ElementsOfParts DEF Begin
<1>3. QED BY <1>1, <1>2

\* The steps by which a worker goes on with the entry that it has.
Continues(w, l) ==
  /\ pc'[w] = l /\ todo' = todo
  /\ frame'[w].entry = frame[w].entry /\ frame'[w].source = frame[w].source
  /\ frame'[w].nested = frame[w].nested

LEMMA GotoContinues ==
  ASSUME TypeInv, NEW w \in Workers, NEW l, Goto(w, l)
  PROVE  Continues(w, l) /\ frame' = frame
BY DEF Goto, Continues, TypeInv, TypeOK

\* What each step makes of the control of its worker.
LEMMA StepLeads ==
  ASSUME TypeInv, NEW w \in Workers, Step(w)
  PROVE  /\ Active(w)
         /\ \/ Walk(w, todo[w])
            \/ /\ Walk(w, <<>>)
               /\ \/ pc[w] = "strike"
                  \/ pc[w] = "gate" /\ ~Wanted(frame[w])
                  \/ pc[w] = "weak" /\ frame[w].entry \notin LongThread /\ ~ProofAdjusted
            \/ Accept(w) /\ Walk(w, detached[frame[w].entry] \o todo[w])
            \/ \E l \in Labels \ {"idle", "assess"} : Continues(w, l)
<1> DEFINE Goes == \E l \in Labels \ {"idle", "assess"} : Continues(w, l)
<1>1. ASSUME NEW l \in Labels \ {"idle", "assess"}, Goto(w, l) PROVE Goes
  BY <1>1, GotoContinues
<1>2. Active(w) /\ frame[w] \in Frames
  BY DEF Step, Assess, Strike, CheckParent, Refuse, Drop, Detach, Gate, RefuseThread,
     InsertThread, Insert, Remember, Accept, Active, TypeInv, FrameTyped
<1>3. /\ {"strike", "insert", "gate", "parent", "refuse", "detach", "drop", "weak",
         "thread", "accept", "remember"} \subseteq Labels \ {"idle", "assess"}
  BY DEF Labels
<1> HIDE DEF Goes
<1>4. ASSUME Assess(w) PROVE Walk(w, todo[w]) \/ Goes
  <2>1. ASSUME NEW l \in {"insert", "gate", "parent"}, NEW old, NEW top,
               pc' = [pc EXCEPT ![w] = l],
               frame' = [frame EXCEPT ![w].old = old, ![w].top = top], UNCHANGED todo
        PROVE  Goes
    <3>1. Continues(w, l)
      BY <1>2, <2>1 DEF Continues, TypeInv, TypeOK, Frames
    <3>2. QED BY <1>3, <3>1 DEF Goes
  <2>2. ReturnTrue(w) => Walk(w, todo[w])
    BY DEF ReturnTrue
  <2>3. QED BY <1>1, <1>2, <1>3, <1>4, <2>1, <2>2 DEF Assess
<1>5. ASSUME Gate(w) 
      PROVE  \/ Walk(w, todo[w]) \/ Goes
             \/ Walk(w, <<>>) /\ pc[w] = "gate" /\ ~Wanted(frame[w])
  <2>1. ASSUME NEW l \in {"thread", "insert"}, pc' = [pc EXCEPT ![w] = l],
               frame' = [frame EXCEPT ![w].gated = TRUE], UNCHANGED todo
        PROVE  Goes
    <3>1. Continues(w, l)
      BY <1>2, <2>1 DEF Continues, TypeInv, TypeOK, Frames
    <3>2. QED BY <1>3, <3>1 DEF Goes
  <2>2. QED BY <1>1, <1>2, <1>3, <1>5, <2>1 DEF Gate, ReturnTrue, ReturnFalse
<1>6. CASE \/ Strike(w) \/ Drop(w) \/ Detach(w) \/ RefuseThread(w) \/ Accept(w)
  BY <1>2, <1>6 DEF Strike, Drop, Detach, RefuseThread, Accept, ReturnTrue, ReturnFalse
<1>7. ASSUME \/ CheckParent(w) \/ Refuse(w) \/ InsertThread(w) \/ Insert(w)
             \/ Remember(w)
      PROVE  Walk(w, todo[w]) \/ Goes
  BY <1>1, <1>3, <1>7 DEF CheckParent, Refuse, InsertThread, Insert, Remember,
     ReturnTrue
<1>8. QED BY <1>2, <1>4, <1>5, <1>6, <1>7 DEF Step, Goes

\* Nor does it touch what the others have left.
LEMMA OthersKeepTheirs ==
  ASSUME TypeInv, NEW w \in Workers, Step(w)
  PROVE  \A v \in Workers \ {w} :
           pc'[v] = pc[v] /\ frame'[v] = frame[v] /\ todo'[v] = todo[v]
<1>1. ASSUME NEW left, Walk(w, left) PROVE \A v \in Workers \ {w} : todo'[v] = todo[v]
  BY <1>1 DEF Walk, TypeInv, TypeOK
<1>2. \A v \in Workers \ {w} : todo'[v] = todo[v]
  BY <1>1, StepLeads DEF Continues
<1>3. QED BY <1>2, OthersStay

-----------------------------------------------------------------------------
(* What waits, and what a worker has left to visit *)

ChannelOf(e) == IF e \in Posts THEN Root[e].channel ELSE e

\* A post waits under the id of its parent.
WaitingBelow == \A p \in Entries : \A x \in Waiting(p) : Parent[x] = p

\* Only a walk over posts that waited has any left, all of one channel; and a
\* post is written only after it got past `recent`.
FlowFrame(w) ==
  /\ pc[w] = "idle" => todo[w] = <<>>
  /\ Active(w) => /\ IF frame[w].nested THEN frame[w].entry \in Posts
                                        ELSE todo[w] = <<>>
                  /\ \A x \in Elements(todo[w]) : ChannelOf(x) = ChannelOf(frame[w].entry)
  /\ pc[w] = "assess" => ~frame[w].gated
  /\ pc[w] \in {"thread", "insert"} /\ frame[w].entry \in Posts => frame[w].gated

FlowInv == WaitingBelow /\ \A w \in Workers : FlowFrame(w)

LEMMA WaitingIsElements == \A p : Waiting(p) = Elements(detached[p])
BY DEF Waiting, Elements

LEMMA WaitingTyped == TypeInv => \A p \in Entries : Waiting(p) \subseteq Posts
BY DEF TypeInv, TypeOK, Waiting

LEMMA ElementsOfAppend ==
  ASSUME NEW s \in Seq(Posts), NEW x \in Posts
  PROVE  Elements(Append(s, x)) = Elements(s) \cup {x}
<1>1. /\ DOMAIN Append(s, x) = 1 .. Len(s) + 1 /\ DOMAIN s = 1 .. Len(s)
      /\ Append(s, x)[Len(s) + 1] = x
      /\ \A i \in 1 .. Len(s) : Append(s, x)[i] = s[i]
  OBVIOUS
<1>2. /\ \A i \in 1 .. Len(s) + 1 : i \in 1 .. Len(s) \/ i = Len(s) + 1
      /\ \A i \in 1 .. Len(s) : i \in 1 .. Len(s) + 1
      /\ Len(s) + 1 \in 1 .. Len(s) + 1
  OBVIOUS
<1>3. \A y : y \in Elements(Append(s, x)) <=> y \in Elements(s) \cup {x}
  BY <1>1, <1>2 DEF Elements
<1>4. QED BY <1>3

\* The posts that wait for an entry are those of its channel.
LEMMA WaitingSameChannel ==
  ASSUME TypeInv, WaitingBelow, NEW p \in Entries, NEW x \in Waiting(p)
  PROVE  x \in Posts /\ ChannelOf(x) = ChannelOf(p)
<1>1. x \in Posts /\ Parent[x] = p
  BY WaitingTyped DEF WaitingBelow
<1>2. QED BY <1>1, EntryAssumption DEF ChannelOf, Entries

\* detached::reject forgets what waits for the entry, and no more than that: its
\* recursion comes back to the id it was called with.
LEMMA RejectsOne ==
  ASSUME WaitingBelow, NEW e \in Entries, Reject(e)
  PROVE  detached' = [p \in Entries |-> IF p = e THEN <<>> ELSE detached[p]]
<1>1. RejectKeys(e) = {e}
  BY DEF WaitingBelow, Waiting, RejectKeys
<1>2. QED BY <1>1 DEF Reject

\* What a step does to the reordering cache.
LEMMA StepWaits ==
  ASSUME TypeInv, WaitingBelow, NEW w \in Workers, Step(w), NEW p \in Entries
  PROVE  \/ Waiting(p)' = Waiting(p)
         \/ /\ Strike(w) \/ Drop(w) \/ Accept(w)
            /\ p = frame[w].entry /\ Waiting(p)' = {}
         \/ /\ Detach(w) /\ frame[w].entry \in Posts
            /\ p = Parent[frame[w].entry]
            /\ Waiting(p)' = Waiting(p) \cup {frame[w].entry}
<1> DEFINE e == frame[w].entry
<1>1. e \in Entries
  BY StepLeads DEF TypeInv, FrameTyped, Frames
<1>2. ASSUME detached'[p] = <<>> PROVE Waiting(p)' = {}
  BY <1>2 DEF Waiting
<1>3. ASSUME detached'[p] = detached[p] PROVE Waiting(p)' = Waiting(p)
  BY <1>3 DEF Waiting
<1>4. CASE Strike(w) \/ Drop(w)
  <2>1. detached' = [q \in Entries |-> IF q = e THEN <<>> ELSE detached[q]]
    BY <1>1, <1>4, RejectsOne DEF Strike, Drop
  <2>2. QED BY <1>2, <1>3, <1>4, <2>1
<1>5. CASE Accept(w)
  <2>1. detached' = [detached EXCEPT ![e] = <<>>]
    BY <1>5 DEF Accept
  <2>2. QED BY <1>1, <1>2, <1>3, <1>5, <2>1 DEF TypeInv, TypeOK
<1>6. CASE Detach(w)
  <2>1. e \in Posts /\ Parent[e] \in Entries
    BY <1>6, EntryAssumption DEF Detach, TypeInv, FrameMeant, PostLabels
  <2>2. detached' = [detached EXCEPT ![Parent[e]] = Append(@, e)]
    BY <1>6 DEF Detach
  <2>3. CASE p = Parent[e]
    <3>1. detached'[p] = Append(detached[p], e) /\ detached[p] \in Seq(Posts)
      BY <2>1, <2>2, <2>3 DEF TypeInv, TypeOK
    <3>2. Elements(detached'[p]) = Elements(detached[p]) \cup {e}
      BY <2>1, <3>1, ElementsOfAppend
    <3>3. QED BY <1>6, <2>1, <2>3, <3>2 DEF Waiting, Elements
  <2>4. CASE p # Parent[e]
    BY <1>3, <2>1, <2>2, <2>4 DEF TypeInv, TypeOK
  <2>5. QED BY <2>3, <2>4
<1>7. CASE ~(Strike(w) \/ Drop(w) \/ Accept(w) \/ Detach(w))
  <2>1. detached' = detached
    BY <1>7 DEF Step, Assess, CheckParent, Refuse, Gate, RefuseThread, InsertThread,
       Insert, Remember, caches
  <2>2. QED BY <1>3, <2>1
<1>8. QED BY <1>4, <1>5, <1>6, <1>7

\* Only a post that is wanted and got past `recent` is written.
LEMMA WrittenWhenGated ==
  ASSUME TypeInv, NEW w \in Workers, FlowFrame(w), Step(w),
         pc'[w] \in {"thread", "insert"}, frame'[w].entry \in Posts
  PROVE  /\ frame'[w].gated /\ frame'[w].entry = frame[w].entry
         /\ pc[w] = "thread" \/ (pc[w] = "gate" /\ Wanted(frame[w]))
<1>1. frame[w] \in Frames
  BY StepLeads DEF TypeInv, FrameTyped
<1>2. ASSUME NEW left, Walk(w, left) PROVE FALSE
  BY <1>2 DEF Walk, TypeInv, TypeOK
<1>3. ASSUME NEW l, Goto(w, l) PROVE pc'[w] = l /\ frame'[w] = frame[w]
  BY <1>3 DEF Goto, TypeInv, TypeOK
<1>4. CASE Assess(w)
  <2>1. ASSUME NEW l \in {"insert", "gate", "parent"}, NEW old, NEW top,
               pc' = [pc EXCEPT ![w] = l],
               frame' = [frame EXCEPT ![w].old = old, ![w].top = top],
               l = "insert" => frame[w].entry \in Announcements
        PROVE  FALSE
    <3>1. pc'[w] = l /\ frame'[w].entry = frame[w].entry
      BY <1>1, <2>1 DEF TypeInv, TypeOK, Frames
    <3>2. QED BY <2>1, <3>1, EntryAssumption
  <2>2. ~ReturnTrue(w) /\ ~Goto(w, "strike")
    BY <1>2, <1>3 DEF ReturnTrue
  <2>3. QED BY <1>4, <2>1, <2>2 DEF Assess
<1>5. CASE Gate(w)
  <2>1. /\ ~ReturnTrue(w) /\ ~ReturnFalse(w) /\ ~Goto(w, "weak") /\ ~Goto(w, "refuse")
    BY <1>2, <1>3 DEF ReturnTrue, ReturnFalse
  <2>2. frame' = [frame EXCEPT ![w].gated = TRUE] /\ Wanted(frame[w]) /\ pc[w] = "gate"
    BY <1>5, <2>1 DEF Gate
  <2>3. QED BY <1>1, <2>2 DEF TypeInv, TypeOK, Frames
<1>6. CASE InsertThread(w)
  <2>1. Goto(w, "insert")
    BY <1>2, <1>6 DEF InsertThread, ReturnTrue
  <2>2. QED BY <1>3, <1>6, <2>1 DEF InsertThread, FlowFrame
<1>7. CASE \/ Strike(w) \/ Drop(w) \/ Detach(w) \/ RefuseThread(w) \/ Accept(w)
  BY <1>2, <1>7 DEF Strike, Drop, Detach, RefuseThread, Accept, ReturnTrue, ReturnFalse
<1>8. CASE \/ CheckParent(w) \/ Refuse(w) \/ Insert(w) \/ Remember(w)
  <2>1. ASSUME NEW l \in {"refuse", "detach", "drop", "accept", "remember"}, Goto(w, l)
        PROVE  FALSE
    BY <1>3, <2>1
  <2>2. QED BY <1>2, <1>8, <2>1 DEF CheckParent, Refuse, Insert, Remember, ReturnTrue
<1>9. QED BY <1>4, <1>5, <1>6, <1>7, <1>8 DEF Step

LEMMA StepFlow ==
  ASSUME TypeInv, FlowInv, NEW w \in Workers, Step(w)
  PROVE  FlowInv'
<1> DEFINE e == frame[w].entry
<1>1. /\ Active(w) /\ e \in Entries /\ todo[w] \in Seq(Posts) /\ FlowFrame(w)
      /\ detached[e] \in Seq(Posts)
  BY StepLeads DEF TypeInv, TypeOK, FrameTyped, Frames, FlowInv
<1>2. WaitingBelow'
  BY StepWaits DEF FlowInv, WaitingBelow
<1>3. ASSUME NEW left \in Seq(Posts), Walk(w, left),
             \A x \in Elements(left) : ChannelOf(x) = ChannelOf(e)
      PROVE  FlowFrame(w)'
  <2>1. CASE pc'[w] = "idle" /\ todo'[w] = <<>>
    BY <2>1 DEF FlowFrame, Active
  <2>2. CASE /\ pc'[w] = "assess"
             /\ frame'[w].entry \in Posts /\ frame'[w].nested /\ ~frame'[w].gated
             /\ Elements(left) = {frame'[w].entry} \cup Elements(todo'[w])
    <3>1. \A x \in Elements(todo'[w]) : ChannelOf(x) = ChannelOf(frame'[w].entry)
      BY <1>3, <2>2
    <3>2. QED BY <2>2, <3>1 DEF FlowFrame, Active, ChannelOf, Elements
  <2>3. QED BY <1>1, <1>3, <2>1, <2>2, WalkLeads
<1>4. ASSUME Walk(w, todo[w]) PROVE FlowFrame(w)'
  BY <1>1, <1>3, <1>4 DEF FlowFrame
<1>5. ASSUME Walk(w, <<>>) PROVE FlowFrame(w)'
  <2>1. <<>> \in Seq(Posts) /\ Elements(<<>>) = {}
    BY DEF Elements
  <2>2. QED BY <1>3, <1>5, <2>1
<1>6. ASSUME Accept(w) /\ Walk(w, detached[e] \o todo[w]) PROVE FlowFrame(w)'
  <2>1. detached[e] \o todo[w] \in Seq(Posts)
    BY <1>1
  <2>2. Elements(detached[e] \o todo[w]) = Waiting(e) \cup Elements(todo[w])
    BY <1>1, ElementsOfParts, WaitingIsElements
  <2>3. \A x \in Waiting(e) : ChannelOf(x) = ChannelOf(e)
    BY <1>1, WaitingSameChannel DEF FlowInv
  <2>4. QED BY <1>1, <1>3, <1>6, <2>1, <2>2, <2>3 DEF FlowFrame
<1>7. ASSUME NEW l \in Labels \ {"idle", "assess"}, Continues(w, l)
      PROVE  FlowFrame(w)'
  <2>1. pc'[w] = l /\ todo' = todo /\ frame'[w].entry = e
        /\ frame'[w].nested = frame[w].nested
    BY <1>7 DEF Continues
  <2>2. \A x \in Elements(todo'[w]) : ChannelOf(x) = ChannelOf(frame'[w].entry)
    BY <1>1, <2>1 DEF FlowFrame
  <2>3. QED BY <1>1, <2>1, <2>2, WrittenWhenGated DEF FlowFrame, Active, ChannelOf,
            Elements
<1>8. FlowFrame(w)'
  BY <1>4, <1>5, <1>6, <1>7, StepLeads
<1>9. ASSUME NEW v \in Workers \ {w} PROVE FlowFrame(v)'
  <2>1. pc'[v] = pc[v] /\ frame'[v] = frame[v] /\ todo'[v] = todo[v]
    BY <1>9, OthersKeepTheirs
  <2>2. FlowFrame(v)
    BY DEF FlowInv
  <2>3. QED BY <2>1, <2>2 DEF FlowFrame, Active, Elements, ChannelOf
<1>10. QED BY <1>2, <1>8, <1>9 DEF FlowInv

\* A worker that starts has nothing left to visit.
LEMMA StartFlow ==
  ASSUME TypeInv, FlowInv, NEW w \in Workers, pc[w] = "idle",
         NEW e \in Entries, NEW s, Start(w, e, s)
  PROVE  \A v \in Workers : FlowFrame(v)'
<1>1. /\ pc'[w] = "assess" /\ frame'[w].entry = e /\ todo'[w] = <<>>
      /\ ~frame'[w].nested /\ ~frame'[w].gated
  BY DEF Start, Begin, FlowInv, FlowFrame, TypeInv, TypeOK
<1>2. FlowFrame(w)'
  BY <1>1 DEF FlowFrame, Elements
<1>3. ASSUME NEW v \in Workers \ {w} PROVE FlowFrame(v)'
  <2>1. pc'[v] = pc[v] /\ frame'[v] = frame[v] /\ todo'[v] = todo[v]
    BY DEF Start, TypeInv, TypeOK
  <2>2. FlowFrame(v)
    BY DEF FlowInv
  <2>3. QED BY <2>1, <2>2 DEF FlowFrame, Active, Elements, ChannelOf
<1>4. QED BY <1>2, <1>3

LEMMA FlowInvariant == Spec => []FlowInv
<1>1. Init => FlowInv
  BY DEF Init, FlowInv, WaitingBelow, Waiting, FlowFrame, Active
<1>2. TypeInv /\ FlowInv /\ [Next]_vars => FlowInv'
  <2> SUFFICES ASSUME TypeInv, FlowInv, [Next]_vars PROVE FlowInv'
    OBVIOUS
  <2>1. ASSUME UNCHANGED control PROVE \A v \in Workers : FlowFrame(v)'
    BY <2>1 DEF control, FlowInv, FlowFrame, Active, Elements, ChannelOf
  <2>2. ASSUME UNCHANGED detached PROVE WaitingBelow'
    BY <2>2 DEF FlowInv, WaitingBelow, Waiting
  <2>3. ASSUME NEW w \in Workers, Step(w) PROVE FlowInv'
    BY <2>3, StepFlow
  <2>4. ASSUME NEW w \in Workers, NEW e \in Entries,
               Submit(w, e) \/ \E c \in Connections : Receive(w, c, e)
        PROVE  FlowInv'
    <3>1. \/ UNCHANGED control
          \/ pc[w] = "idle" /\ \E s : Start(w, e, s)
      BY <2>4 DEF Submit, Receive, Arrive
    <3>2. UNCHANGED detached
      BY <2>4 DEF Submit, Receive, caches
    <3>3. QED BY <2>1, <2>2, <3>1, <3>2, StartFlow DEF FlowInv
  <2>5. CASE Clean
    <3>1. \A p \in Entries : Waiting(p)' = Waiting(p) \/ Waiting(p)' = {}
      BY <2>5 DEF Clean, Waiting
    <3>2. QED BY <2>1, <2>5, <3>1 DEF Clean, FlowInv, WaitingBelow
  <2>6. CASE UNCHANGED vars \/ Tick \/ \E e \in Entries : Erase(e)
    BY <2>1, <2>2, <2>6 DEF vars, Tick, Erase, FlowInv, caches
  <2>7. QED BY <2>3, <2>4, <2>5, <2>6 DEF Next
<1>3. QED BY <1>1, <1>2, TypeInvariant, PTL DEF Spec

-----------------------------------------------------------------------------
(* An entry is broadcast once each time it gets past `recent` *)

\* w has taken the entry past `recent` and has yet to broadcast it.
Owes(w, e) ==
  pc[w] \in {"thread", "insert"} /\ frame[w].gated /\ frame[w].entry = e

Owing(e) == {w \in Workers : Owes(w, e)}

\* The stays of an entry in `recent`, the present one included, are as many as its
\* broadcasts and those still owed.
RelayInv ==
  \A e \in Entries :
    /\ IsFiniteSet(Owing(e))
    /\ relays[e] + Cardinality(Owing(e)) <= lives[e] + IF e \in recent THEN 1 ELSE 0

\* Only the worker that steps starts or stops owing a broadcast.
LEMMA OwingChanges ==
  ASSUME TypeInv, NEW w \in Workers, Step(w), NEW e \in Entries, IsFiniteSet(Owing(e))
  PROVE  /\ IsFiniteSet(Owing(e)')
         /\ Cardinality(Owing(e)) \in Nat /\ Cardinality(Owing(e)') \in Nat
         /\ Cardinality(Owing(e)') + (IF Owes(w, e) THEN 1 ELSE 0)
              = Cardinality(Owing(e)) + (IF Owes(w, e)' THEN 1 ELSE 0)
<1>1. \A v \in Workers \ {w} : Owes(v, e)' = Owes(v, e)
  BY OthersKeepTheirs DEF Owes
<1>2. Cardinality(Owing(e)) \in Nat
  BY FS_CardinalityType
<1>3. CASE Owes(w, e)' /\ ~Owes(w, e)
  <2>1. Owing(e)' = Owing(e) \cup {w} /\ w \notin Owing(e)
    BY <1>1, <1>3 DEF Owing
  <2>2. QED BY <1>2, <1>3, <2>1, FS_AddElement
<1>4. CASE ~Owes(w, e)' /\ Owes(w, e)
  <2>1. Owing(e)' = Owing(e) \ {w} /\ w \in Owing(e)
    BY <1>1, <1>4 DEF Owing
  <2>2. /\ IsFiniteSet(Owing(e) \ {w})
        /\ Cardinality(Owing(e) \ {w}) = Cardinality(Owing(e)) - 1
    BY <2>1, FS_RemoveElement
  <2>3. Cardinality(Owing(e) \ {w}) \in Nat
    BY <2>2, FS_CardinalityType
  <2>4. QED BY <1>2, <1>4, <2>1, <2>2, <2>3
<1>5. CASE Owes(w, e)' <=> Owes(w, e)
  <2>1. Owing(e)' = Owing(e)
    BY <1>1, <1>5 DEF Owing
  <2>2. QED BY <1>2, <1>5, <2>1
<1>6. QED BY <1>3, <1>4, <1>5

\* What w broadcasts it owed, or it has just put the entry in `recent`; and it owes
\* no broadcast but of such an entry.
LEMMA RelaysAreOwed ==
  ASSUME TypeInv, FlowInv, NEW w \in Workers, Step(w), NEW e \in Entries
  PROVE  /\ lives' = lives /\ recent \subseteq recent'
         /\ \/ /\ relays'[e] = relays[e]
               /\ Owes(w, e)' => Owes(w, e) \/ (e \notin recent /\ e \in recent')
            \/ /\ relays'[e] = relays[e] + 1 /\ ~Owes(w, e)'
               /\ Owes(w, e) \/ (e \notin recent /\ e \in recent')
<1> DEFINE f == frame[w]
           Same == relays'[e] = relays[e] /\ ~Owes(w, e)'
<1>1. f \in Frames /\ relays \in [Entries -> Nat] /\ FlowFrame(w)
  BY StepLeads DEF TypeInv, TypeOK, FrameTyped, FlowInv
<1>2. lives' = lives /\ recent \subseteq recent'
  BY DEF Step, Assess, Strike, CheckParent, Refuse, Drop, Detach, Gate, RefuseThread,
     InsertThread, Insert, Remember, Accept, history, caches
<1>3. ASSUME NEW left, Walk(w, left) PROVE ~Owes(w, e)'
  BY <1>3 DEF Walk, Owes, TypeInv, TypeOK
<1>4. ASSUME NEW l, Goto(w, l)
      PROVE  pc'[w] = l /\ frame'[w] = f /\ (l \notin {"thread", "insert"} => ~Owes(w, e)')
  BY <1>4 DEF Goto, Owes, TypeInv, TypeOK
<1>5. ASSUME NEW wish, Relay(f, wish)
      PROVE  \/ relays'[e] = relays[e]
             \/ relays'[e] = relays[e] + 1 /\ f.entry = e /\ wish
  BY <1>1, <1>5 DEF Relay, Frames
<1>6. CASE Assess(w)
  <2>1. relays' = relays
    BY <1>6 DEF Assess, history
  <2>2. ASSUME NEW l \in {"insert", "gate", "parent"}, NEW old, NEW top,
               frame' = [frame EXCEPT ![w].old = old, ![w].top = top]
        PROVE  ~Owes(w, e)'
    <3>1. ~frame'[w].gated
      BY <1>1, <1>6, <2>2 DEF Assess, FlowFrame, TypeInv, TypeOK, Frames
    <3>2. QED BY <3>1 DEF Owes
  <2>3. ~Owes(w, e)'
    BY <1>3, <1>4, <1>6, <2>2 DEF Assess, ReturnTrue
  <2>4. QED BY <1>2, <2>1, <2>3
<1>7. CASE Gate(w)
  <2>1. recent' = recent \cup {f.entry}
    BY <1>7 DEF Gate
  <2>2. CASE (ReturnTrue(w) \/ Goto(w, "weak") \/ Goto(w, "refuse")) /\ relays' = relays
    BY <1>2, <1>3, <1>4, <2>2 DEF ReturnTrue
  <2>3. CASE /\ New(f.entry)
             /\ \/ ReturnFalse(w) /\ relays' = relays
                \/ ReturnTrue(w) /\ Relay(f, TRUE)
    BY <1>2, <1>3, <1>5, <2>1, <2>3 DEF ReturnTrue, ReturnFalse, New
  <2>4. CASE /\ New(f.entry) /\ relays' = relays
             /\ frame' = [frame EXCEPT ![w].gated = TRUE]
    <3>1. frame'[w].entry = f.entry
      BY <1>1, <2>4 DEF TypeInv, TypeOK, Frames
    <3>2. QED BY <1>2, <2>1, <2>4, <3>1 DEF Owes, New
  <2>5. QED BY <1>7, <2>2, <2>3, <2>4 DEF Gate
<1>8. CASE InsertThread(w)
  <2>1. relays' = relays
    BY <1>8 DEF InsertThread, history
  <2>2. Owes(w, e)' => Owes(w, e)
    BY <1>3, <1>4, <1>8 DEF InsertThread, ReturnTrue, Owes
  <2>3. QED BY <1>2, <2>1, <2>2
<1>9. CASE Insert(w)
  <2>1. CASE ReturnTrue(w) /\ relays' = relays
    BY <1>2, <1>3, <2>1 DEF ReturnTrue
  <2>2. CASE \E l \in {"accept", "remember"} : Goto(w, l) /\ Relay(f, f.gated /\ ~f.nested)
    BY <1>2, <1>4, <1>5, <1>9, <2>2 DEF Insert, Owes
  <2>3. QED BY <1>9, <2>1, <2>2 DEF Insert
<1>10. CASE Remember(w)
  <2>1. recent' = recent \cup {f.entry}
    BY <1>10 DEF Remember
  <2>2. CASE ReturnTrue(w) /\ relays' = relays
    BY <1>2, <1>3, <2>2 DEF ReturnTrue
  <2>3. CASE New(f.entry) /\ Goto(w, "accept") /\ Relay(f, ~f.nested)
    BY <1>2, <1>4, <1>5, <2>1, <2>3 DEF New
  <2>4. QED BY <1>10, <2>2, <2>3 DEF Remember
<1>11. CASE \/ Strike(w) \/ CheckParent(w) \/ Refuse(w) \/ Drop(w) \/ Detach(w)
            \/ RefuseThread(w) \/ Accept(w)
  <2>1. relays' = relays
    BY <1>11, SMTT(30) DEF Strike, CheckParent, Refuse, Drop, Detach, RefuseThread, Accept,
       history
  <2>2. ~Owes(w, e)'
    BY <1>3, <1>4, <1>11, SMTT(30) DEF Strike, CheckParent, Refuse, Drop, Detach, RefuseThread,
       Accept, ReturnTrue, ReturnFalse
  <2>3. QED BY <1>2, <2>1, <2>2
<1>12. QED BY <1>6, <1>7, <1>8, <1>9, <1>10, <1>11 DEF Step

\* Workers that are at rest or start owe what they owed.
LEMMA OwingKept ==
  ASSUME TypeInv, NEW e \in Entries,
         \/ UNCHANGED control
         \/ \E w \in Workers, d \in Entries : \E s : pc[w] = "idle" /\ Start(w, d, s)
  PROVE  Owing(e)' = Owing(e)
BY DEF Owing, Owes, control, Start, TypeInv, TypeOK

\* However many workers receive an entry at once, it is broadcast once for each of
\* its stays in `recent`.
THEOREM RelaysBounded == Spec => []RelayedOncePerLife
<1>1. Init => RelayInv
  <2> SUFFICES ASSUME Init, NEW e \in Entries
               PROVE  /\ IsFiniteSet(Owing(e))
                      /\ relays[e] + Cardinality(Owing(e))
                           <= lives[e] + IF e \in recent THEN 1 ELSE 0
    BY DEF RelayInv
  <2>1. Owing(e) = {}
    BY DEF Init, Owing, Owes
  <2>2. IsFiniteSet(Owing(e)) /\ Cardinality(Owing(e)) = 0
    BY <2>1, FS_EmptySet
  <2>3. QED BY <2>2 DEF Init
<1>2. TypeInv /\ FlowInv /\ RelayInv /\ [Next]_vars => RelayInv'
  <2> SUFFICES ASSUME TypeInv, FlowInv, RelayInv, [Next]_vars, NEW e \in Entries
               PROVE  /\ IsFiniteSet(Owing(e)')
                      /\ relays'[e] + Cardinality(Owing(e)')
                           <= lives'[e] + IF e \in recent' THEN 1 ELSE 0
    BY DEF RelayInv
  <2>1. /\ IsFiniteSet(Owing(e)) /\ relays[e] \in Nat /\ lives[e] \in Nat
        /\ relays[e] + Cardinality(Owing(e)) <= lives[e] + IF e \in recent THEN 1 ELSE 0
    BY DEF RelayInv, TypeInv, TypeOK
  <2>2. ASSUME NEW w \in Workers, Step(w)
        PROVE  /\ IsFiniteSet(Owing(e)')
               /\ relays'[e] + Cardinality(Owing(e)')
                    <= lives'[e] + IF e \in recent' THEN 1 ELSE 0
    <3>1. /\ IsFiniteSet(Owing(e)')
          /\ Cardinality(Owing(e)) \in Nat /\ Cardinality(Owing(e)') \in Nat
          /\ Cardinality(Owing(e)') + (IF Owes(w, e) THEN 1 ELSE 0)
               = Cardinality(Owing(e)) + (IF Owes(w, e)' THEN 1 ELSE 0)
      BY <2>1, <2>2, OwingChanges
    <3>2. /\ lives' = lives /\ recent \subseteq recent'
          /\ \/ /\ relays'[e] = relays[e]
                /\ Owes(w, e)' => Owes(w, e) \/ (e \notin recent /\ e \in recent')
             \/ /\ relays'[e] = relays[e] + 1 /\ ~Owes(w, e)'
                /\ Owes(w, e) \/ (e \notin recent /\ e \in recent')
      BY <2>2, RelaysAreOwed
    <3>3. QED BY <2>1, <3>1, <3>2
  <2>3. ASSUME Owing(e)' = Owing(e), relays' = relays,
               lives'[e] + (IF e \in recent' THEN 1 ELSE 0)
                 = lives[e] + (IF e \in recent THEN 1 ELSE 0)
        PROVE  /\ IsFiniteSet(Owing(e)')
               /\ relays'[e] + Cardinality(Owing(e)')
                    <= lives'[e] + IF e \in recent' THEN 1 ELSE 0
    BY <2>1, <2>3
  <2>4. ASSUME NEW w \in Workers, NEW d \in Entries,
               Submit(w, d) \/ \E c \in Connections : Receive(w, c, d)
        PROVE  Owing(e)' = Owing(e) /\ relays' = relays /\ lives' = lives /\ recent' = recent
    BY <2>4, OwingKept DEF Submit, Receive, Arrive, history, caches
  <2>5. CASE Clean
    <3>1. Owing(e)' = Owing(e) /\ relays' = relays
      BY <2>5, OwingKept DEF Clean
    <3>2. lives'[e] + (IF e \in recent' THEN 1 ELSE 0)
            = lives[e] + (IF e \in recent THEN 1 ELSE 0)
      BY <2>1, <2>5 DEF Clean
    <3>3. QED BY <2>3, <3>1, <3>2
  <2>6. CASE UNCHANGED vars \/ Tick \/ \E d \in Entries : Erase(d)
    <3>1. Owing(e)' = Owing(e)
      BY <2>6, OwingKept DEF vars, Tick, Erase
    <3>2. relays' = relays /\ lives' = lives /\ recent' = recent
      BY <2>6 DEF vars, Tick, Erase, history, caches
    <3>3. QED BY <2>3, <3>1, <3>2
  <2>7. QED BY <2>2, <2>3, <2>4, <2>5, <2>6 DEF Next
<1>3. TypeInv /\ RelayInv => RelayedOncePerLife
  <2> SUFFICES ASSUME TypeInv, RelayInv, NEW e \in Entries PROVE relays[e] <= lives[e] + 1
    BY DEF RelayedOncePerLife
  <2>1. Cardinality(Owing(e)) \in Nat
    BY FS_CardinalityType DEF RelayInv
  <2>2. relays[e] \in Nat /\ lives[e] \in Nat
    BY DEF TypeInv, TypeOK
  <2>3. relays[e] + Cardinality(Owing(e)) <= lives[e] + IF e \in recent THEN 1 ELSE 0
    BY DEF RelayInv
  <2>4. QED BY <2>1, <2>2, <2>3
<1>4. QED BY <1>1, <1>2, <1>3, TypeInvariant, FlowInvariant, PTL DEF Spec

-----------------------------------------------------------------------------
(* Line has the entries from an entry up to its channel *)

\* with every post, the set has its parent
Upwards(S) == \A x \in S \cap Posts : Parent[x] \in S

Ancestry(e) ==
  {x \in Entries : \A S \in SUBSET Entries : e \in S /\ Upwards(S) => x \in S}

LEMMA AncestryUnfolds ==
  ASSUME NEW e \in Entries
  PROVE  Ancestry(e) = IF e \in Posts THEN {e} \cup Ancestry(Parent[e]) ELSE {e}
<1>1. CASE e \in Posts
  <2>1. Parent[e] \in Entries
    BY <1>1, EntryAssumption
  <2>2. ASSUME NEW x \in Ancestry(Parent[e]), x \in Posts PROVE Parent[x] \in Ancestry(Parent[e])
    <3>1. Parent[x] \in Entries
      BY <2>2, EntryAssumption
    <3>2. QED BY <2>2, <3>1 DEF Ancestry, Upwards
  <2>3. Parent[e] \in Ancestry(Parent[e])
    BY <2>1 DEF Ancestry
  <2> DEFINE S == {e} \cup Ancestry(Parent[e])
  <2>4. S \in SUBSET Entries /\ e \in S /\ Upwards(S)
    <3>1. Ancestry(Parent[e]) \subseteq Entries
      BY DEF Ancestry
    <3>2. QED BY <2>2, <2>3, <3>1 DEF Upwards
  <2>5. Ancestry(e) \subseteq S
    BY <2>4 DEF Ancestry
  <2>6. e \in Ancestry(e)
    BY DEF Ancestry
  <2>7. ASSUME NEW x \in Ancestry(Parent[e]) PROVE x \in Ancestry(e)
    <3>1. ASSUME NEW T \in SUBSET Entries, e \in T, Upwards(T) PROVE x \in T
      <4>1. Parent[e] \in T
        BY <1>1, <3>1 DEF Upwards
      <4>2. QED BY <2>7, <3>1, <4>1 DEF Ancestry
    <3>2. x \in Entries
      BY <2>7 DEF Ancestry
    <3>3. QED BY <3>1, <3>2 DEF Ancestry
  <2>8. QED BY <1>1, <2>5, <2>6, <2>7
<1>2. CASE e \notin Posts
  <2>1. {e} \in SUBSET Entries /\ Upwards({e})
    BY <1>2 DEF Upwards
  <2>2. Ancestry(e) \subseteq {e}
    BY <2>1 DEF Ancestry
  <2>3. e \in Ancestry(e)
    BY DEF Ancestry
  <2>4. QED BY <1>2, <2>2, <2>3
<1>3. QED BY <1>1, <1>2

\* Line is what its definition says: the definition is recursive, and this holds
\* because Ancestry is a function that satisfies it.
LEMMA LineUnfolds ==
  \A e \in Entries : Line[e] = IF e \in Posts THEN {e} \cup Line[Parent[e]] ELSE {e}
<1> DEFINE Unfolds(f) ==
             f = [e \in Entries |-> IF e \in Posts THEN {e} \cup f[Parent[e]] ELSE {e}]
           g == [e \in Entries |-> Ancestry(e)]
<1>1. \A e \in Posts : Parent[e] \in Entries
  BY EntryAssumption
<1>2. Unfolds(g)
  <2>1. \A e \in Entries : Ancestry(e) = IF e \in Posts THEN {e} \cup g[Parent[e]] ELSE {e}
    BY <1>1, AncestryUnfolds
  <2>2. QED BY <2>1
<1>3. Line = CHOOSE f : Unfolds(f)
  BY DEF Line
<1> HIDE DEF g
<1>4. Unfolds(Line)
  BY <1>2, <1>3
<1>5. QED BY <1>4

-----------------------------------------------------------------------------
(* Nobody's posts are stored but those that were asked for or submitted *)

\* An application submitted the entry or something above it.
Vouched(e) == Line[e] \cap submitted # {}

Favoured(e) ==
  \/ StoreEverything
  \/ {Root[e].channel, Root[e].thread, e, Author[e]} \cap Subscriptions # {}
  \/ Vouched(e)

\* What is embraced on behalf of an application hangs below what it submitted, and
\* whatever is about to be written is favoured.
FavourFrame(w) ==
  /\ Active(w) /\ frame[w].source = Local =>
       Vouched(frame[w].entry) /\ \A x \in Elements(todo[w]) : Vouched(x)
  /\ pc[w] \in {"thread", "insert"} /\ frame[w].entry \in Posts => Favoured(frame[w].entry)

FavourInv ==
  /\ \A w \in Workers : FavourFrame(w)
  /\ \A e \in Posts : data[e] # NoRow => Favoured(e)

LEMMA VouchedBelow ==
  ASSUME NEW e \in Posts, Vouched(Parent[e])
  PROVE  Vouched(e)
BY LineUnfolds DEF Vouched, Entries

LEMMA FavourStep ==
  ASSUME TypeInv, FlowInv, FavourInv, NEW w \in Workers, Step(w)
  PROVE  FavourInv'
<1> DEFINE f == frame[w]
           e == frame[w].entry
<1>1. /\ Active(w) /\ f \in Frames /\ e \in Entries /\ FavourFrame(w) /\ FlowFrame(w)
      /\ todo[w] \in Seq(Posts) /\ detached[e] \in Seq(Posts)
  BY StepLeads DEF TypeInv, TypeOK, FrameTyped, Frames, FlowInv, FavourInv
<1>2. submitted' = submitted
  BY DEF Step, Assess, Strike, CheckParent, Refuse, Drop, Detach, Gate, RefuseThread,
     InsertThread, Insert, Remember, Accept, history
<1>3. \A x : Vouched(x)' = Vouched(x) /\ Favoured(x)' = Favoured(x)
  BY <1>2 DEF Vouched, Favoured
<1>4. ASSUME f.source = Local, NEW left \in Seq(Posts), Walk(w, left),
             \A x \in Elements(left) : Vouched(x)
      PROVE  Active(w)' => Vouched(frame'[w].entry) /\ \A x \in Elements(todo'[w]) : Vouched(x)
  BY <1>1, <1>4, WalkLeads DEF Active
<1>5. ASSUME f.source = Local, Active(w)'
      PROVE  Vouched(frame'[w].entry) /\ \A x \in Elements(todo'[w]) : Vouched(x)
  <2>1. /\ Vouched(e) /\ \A x \in Elements(todo[w]) : Vouched(x)
        /\ <<>> \in Seq(Posts) /\ Elements(<<>>) = {}
    BY <1>1, <1>5 DEF FavourFrame, Elements
  <2>2. CASE Walk(w, todo[w]) \/ Walk(w, <<>>)
    BY <1>1, <1>4, <1>5, <2>1, <2>2
  <2>3. CASE Walk(w, detached[e] \o todo[w])
    <3>1. detached[e] \o todo[w] \in Seq(Posts)
      BY <1>1
    <3>2. Elements(detached[e] \o todo[w]) = Waiting(e) \cup Elements(todo[w])
      BY <1>1, ElementsOfParts, WaitingIsElements
    <3>3. \A x \in Waiting(e) : Vouched(x)
      BY <1>1, <2>1, WaitingTyped, VouchedBelow DEF FlowInv, WaitingBelow
    <3>4. QED BY <1>4, <1>5, <2>1, <2>3, <3>1, <3>2, <3>3
  <2>4. CASE \E l \in Labels \ {"idle", "assess"} : Continues(w, l)
    BY <2>1, <2>4 DEF Continues
  <2>5. QED BY <2>2, <2>3, <2>4, StepLeads
<1>6. Active(w)' => frame'[w].source = f.source
  <2>1. <<>> \in Seq(Posts) /\ detached[e] \o todo[w] \in Seq(Posts)
    BY <1>1
  <2>2. ASSUME NEW left \in Seq(Posts), Walk(w, left)
        PROVE  Active(w)' => frame'[w].source = f.source
    BY <1>1, <2>2, WalkLeads DEF Active
  <2>3. QED BY <1>1, <2>1, <2>2, StepLeads DEF Continues
<1>7. ASSUME pc'[w] \in {"thread", "insert"}, frame'[w].entry \in Posts
      PROVE  Favoured(frame'[w].entry)
  <2>1. /\ frame'[w].entry = e
        /\ pc[w] = "thread" \/ (pc[w] = "gate" /\ Wanted(f))
    BY <1>1, <1>7, WrittenWhenGated
  <2>2. ASSUME pc[w] = "gate", Wanted(f) PROVE Favoured(e)
    <3>1. f.top = Root[e]
      BY <1>7, <2>1, <2>2 DEF TypeInv, FrameMeant
    <3>2. QED BY <1>1, <2>2, <3>1 DEF Wanted, Keys, Favoured, FavourFrame
  <2>3. QED BY <1>1, <1>7, <2>1, <2>2 DEF FavourFrame
<1>8. FavourFrame(w)'
  BY <1>3, <1>5, <1>6, <1>7 DEF FavourFrame
<1>9. ASSUME NEW v \in Workers \ {w} PROVE FavourFrame(v)'
  <2>1. pc'[v] = pc[v] /\ frame'[v] = frame[v] /\ todo'[v] = todo[v] /\ FavourFrame(v)
    BY <1>9, OthersKeepTheirs DEF FavourInv
  <2>2. QED BY <1>3, <2>1 DEF FavourFrame, Active, Elements
<1>10. ASSUME NEW d \in Posts, data'[d] # NoRow PROVE Favoured(d)
  <2>1. CASE data'[d] = data[d]
    BY <1>10, <2>1 DEF FavourInv
  <2>2. CASE data'[d] # data[d]
    <3>1. Insert(w)
      BY <2>2 DEF Step, Assess, Strike, CheckParent, Refuse, Drop, Detach, Gate,
         RefuseThread, InsertThread, Remember, Accept, tables
    <3>2. d = e
      BY <2>2, <3>1 DEF Insert, TypeInv, TypeOK
    <3>3. QED BY <1>1, <3>1, <3>2 DEF Insert, FavourFrame
  <2>3. QED BY <2>1, <2>2
<1>11. QED BY <1>3, <1>8, <1>9, <1>10 DEF FavourInv

LEMMA FavourArrival ==
  ASSUME TypeInv, FlowInv, FavourInv, NEW w \in Workers, NEW e \in Entries,
         Submit(w, e) \/ \E c \in Connections : Receive(w, c, e)
  PROVE  FavourInv'
<1>1. submitted \subseteq submitted' /\ data' = data
  BY DEF Submit, Receive, history, tables
<1>2. \A x : (Vouched(x) => Vouched(x)') /\ (Favoured(x) => Favoured(x)')
  BY <1>1 DEF Vouched, Favoured
<1>3. ASSUME NEW v \in Workers, pc'[v] = pc[v], frame'[v] = frame[v], todo'[v] = todo[v]
      PROVE  FavourFrame(v)'
  <2>1. FavourFrame(v)
    BY DEF FavourInv
  <2>2. QED BY <1>2, <1>3, <2>1 DEF FavourFrame, Active, Elements
<1>4. CASE UNCHANGED control
  BY <1>1, <1>2, <1>3, <1>4 DEF FavourInv, control
<1>5. ASSUME NEW s, pc[w] = "idle", Start(w, e, s), s = Local => submitted' = submitted \cup {e}
      PROVE  FavourInv'
  <2>1. /\ pc'[w] = "assess" /\ frame'[w].entry = e /\ frame'[w].source = s
        /\ todo'[w] = <<>>
    BY <1>5 DEF Start, Begin, FlowInv, FlowFrame, TypeInv, TypeOK
  <2>2. s = Local => Vouched(e)'
    BY <1>5, LineUnfolds DEF Vouched
  <2>3. FavourFrame(w)'
    BY <2>1, <2>2 DEF FavourFrame, Elements
  <2>4. \A v \in Workers \ {w} :
          pc'[v] = pc[v] /\ frame'[v] = frame[v] /\ todo'[v] = todo[v]
    BY <1>5 DEF Start, TypeInv, TypeOK
  <2>5. QED BY <1>1, <1>2, <1>3, <2>3, <2>4 DEF FavourInv
<1>6. CASE Submit(w, e)
  BY <1>5, <1>6 DEF Submit, Arrive
<1>7. CASE \E c \in Connections : Receive(w, c, e)
  <2>1. Local \notin Connections
    BY NameAssumption
  <2>2. QED BY <1>4, <1>5, <1>7, <2>1 DEF Receive, Arrive
<1>8. QED BY <1>6, <1>7

\* Unless the node stores everything, a stored post has a subscription to its
\* channel, its thread, its author or itself, or comes from an application.
THEOREM OnlyFavouredStored == Spec => []OnlySubscribedStored
<1>1. Init => FavourInv
  BY DEF Init, FavourInv, FavourFrame, Active
<1>2. TypeInv /\ FlowInv /\ FavourInv /\ [Next]_vars => FavourInv'
  <2> SUFFICES ASSUME TypeInv, FlowInv, FavourInv, [Next]_vars PROVE FavourInv'
    OBVIOUS
  <2>1. ASSUME UNCHANGED <<control, submitted>>,
               \A e \in Posts : data'[e] # NoRow => data[e] # NoRow
        PROVE  FavourInv'
    BY <2>1 DEF control, FavourInv, FavourFrame, Active, Elements, Favoured, Vouched
  <2>2. CASE UNCHANGED vars \/ Clean \/ Tick
    BY <2>1, <2>2 DEF vars, Clean, Tick, tables, history
  <2>3. CASE \E e \in Entries : Erase(e)
    BY <2>1, <2>3 DEF Erase
  <2>4. QED BY <2>2, <2>3, FavourStep, FavourArrival DEF Next
<1>3. FavourInv => OnlySubscribedStored
  BY DEF FavourInv, OnlySubscribedStored, Favoured, Vouched
<1>4. QED BY <1>1, <1>2, <1>3, TypeInvariant, FlowInvariant, PTL DEF Spec

-----------------------------------------------------------------------------
(* The reordering cache loses nothing *)

\* Settings under which nothing is dropped on purpose: the node keeps more than
\* announcements, its writes succeed, and a thread of too little proof of work does
\* not end the walk that it is found on.
Lossless ==
  ~TrackAllChannels /\ ~WritesFail /\ (ProofAdjusted \/ WeakThread \subseteq LongThread)

Held(e) ==
  \E w \in Workers : Active(w) /\ (frame[w].entry = e \/ e \in Elements(todo[w]))

Settled(e) ==
  data[e] # NoRow \/ e \in Waiting(Parent[e]) \/ Older(Timestamp[Parent[e]], MaxAge)

\* What waited has a known author, who signed it; and only an entry that is not
\* sound is held against its source, refused or dropped.
LossFrame(w) ==
  /\ Active(w) => /\ \A x \in Elements(todo[w]) : Authentic(x)
                  /\ frame[w].nested => Authentic(frame[w].entry)
  /\ pc[w] \in {"parent", "detach"} => Authentic(frame[w].entry)
  /\ pc[w] \in {"strike", "weak", "refuse", "drop"} => ~Sound(frame[w].entry)
  /\ pc[w] = "strike" => ~frame[w].nested
  /\ pc[w] = "weak" => frame[w].entry \in WeakThread \cup LongThread
  /\ pc[w] \in {"remember", "accept"} /\ frame[w].entry \in Posts
       => data[frame[w].entry] # NoRow

LossCaches ==
  /\ Installed \subseteq announced
  /\ \A p \in Entries : \A x \in Waiting(p) : Authentic(x)
  /\ \A e \in refused : ~Sound(e)
  /\ \A e \in Posts \cap recent :
       Sound(e) => data[e] # NoRow \/ \E w \in Workers : Owes(w, e)

LossInv ==
  erased = {} =>
    /\ LossCaches
    /\ \A w \in Workers : LossFrame(w)
    /\ \A e \in Posts : copies[e] > 0 /\ Sound(e) => Settled(e) \/ Held(e)

LEMMA SoundItself ==
  ASSUME NEW e \in Entries, Sound(e)
  PROVE  /\ e \notin Forged \cup WeakProof \cup WeakThread \cup LongThread \cup Blacklist
         /\ e \notin Identities => Author[e] \in Installed /\ Author[e] \notin Blacklist
         /\ e \in Posts => StoreEverything \/ Root[e].channel \in Subscriptions
         /\ ValidatesAt(e, 0)
BY LineUnfolds DEF Sound

LEMMA SoundAbove ==
  ASSUME NEW e \in Posts, Sound(e)
  PROVE  Sound(Parent[e]) /\ Parent[e] \in Entries
<1>1. Parent[e] \in Entries /\ e \in Entries
  BY EntryAssumption DEF Entries
<1>2. Line[Parent[e]] \subseteq Line[e]
  BY <1>1, LineUnfolds
<1>3. QED BY <1>1, <1>2 DEF Sound

\* What validated when the clock started validates ever after.
LEMMA SoundValidates ==
  ASSUME TypeInv, NEW e \in Entries, Sound(e)
  PROVE  Validates(e)
<1>1. ValidatesAt(e, 0) /\ now \in Nat /\ MaxSkew \in Nat /\ Timestamp[e] \in Nat
  BY SoundItself, EntryAssumption, SettingAssumption DEF TypeInv, TypeOK
<1>2. QED BY <1>1 DEF Validates, ValidatesAt

LEMMA SoundAuthentic ==
  ASSUME NEW e \in Entries, Sound(e), Installed \subseteq announced
  PROVE  Authentic(e)
BY SoundItself DEF Authentic

LEMMA OlderParent ==
  ASSUME TypeInv, NEW e \in Posts, Sound(e), Older(Timestamp[e], MaxAge)
  PROVE  Older(Timestamp[Parent[e]], MaxAge)
<1>1. /\ Parent[e] \in Entries /\ e \in Entries
      /\ Timestamp[Parent[e]] \in Nat /\ Timestamp[e] \in Nat
      /\ MaxAge \in Nat /\ now \in Nat
  BY EntryAssumption, SettingAssumption DEF Entries, TypeInv, TypeOK
<1>2. Timestamp[Parent[e]] <= Timestamp[e]
  BY <1>1, SoundItself DEF ValidatesAt
<1>3. QED BY <1>1, <1>2 DEF Older

\* A sound post is never turned down for its thread's proof, the blacklist or the
\* lack of a subscription.
LEMMA SoundPasses ==
  ASSUME TypeInv, PolicyInv, NEW w \in Workers, pc[w] = "gate", Sound(frame[w].entry)
  PROVE  /\ ~(IsThread(frame[w]) /\ frame[w].entry \in WeakThread \cup LongThread)
         /\ ~Blacklisted(frame[w]) /\ Wanted(frame[w])
<1>0. PICK f : f = frame[w]
  OBVIOUS
<1> DEFINE e == f.entry
<1>1. e \in Posts /\ e \in Entries /\ f.top = Root[e] /\ Welcome(e)
  BY <1>0 DEF TypeInv, FrameMeant, PostLabels, PolicyInv, FramePast, Entries
<1>2. /\ e \notin Forged \cup WeakProof \cup WeakThread \cup LongThread \cup Blacklist
      /\ Author[e] \notin Blacklist
      /\ StoreEverything \/ Root[e].channel \in Subscriptions
  BY <1>0, <1>1, SoundItself, EntryAssumption DEF Announcements
<1>3. Root[e].channel \notin Blacklist /\ Root[e].thread \notin Blacklist
  <2>1. CASE Parent[e] \in Posts
    <3>1. ~Bad(Parent[e]) /\ Root[e] = Root[Parent[e]]
      BY <1>1, <2>1, EntryAssumption DEF Welcome, PolicyInv, PastClosed
    <3>2. QED BY <2>1, <3>1 DEF Bad
  <2>2. CASE Parent[e] \notin Posts
    <3>1. Root[e] = [channel |-> Parent[e], thread |-> e]
      BY <1>1, <2>2, EntryAssumption
    <3>2. Parent[e] \notin Blacklist
      BY <1>0, <1>1, SoundAbove, SoundItself
    <3>3. QED BY <1>2, <3>1, <3>2
  <2>3. QED BY <2>1, <2>2
<1>4. QED BY <1>0, <1>1, <1>2, <1>3 DEF IsThread, Blacklisted, Keys, Wanted

\* An active worker at another label than the one it steps to next.
LEMMA WalkPlace ==
  ASSUME TypeInv, NEW w \in Workers, NEW left, Walk(w, left)
  PROVE  pc'[w] \in {"idle", "assess"}
BY DEF Walk, TypeInv, TypeOK

LEMMA GotoPlace ==
  ASSUME TypeInv, NEW w \in Workers, NEW l, Goto(w, l)
  PROVE  pc'[w] = l /\ frame'[w] = frame[w]
BY DEF Goto, TypeInv, TypeOK


\* Where a worker may come from, and on what finding, for the labels at which
\* something is concluded from it.
LEMMA LabelReached ==
  ASSUME TypeInv, NEW w \in Workers, Step(w)
  PROVE  \/ pc'[w] \in {"idle", "assess", "gate", "thread", "insert"}
         \/ /\ Continues(w, pc'[w])
            /\ \/ pc'[w] = "strike" /\ pc[w] = "assess" /\ ~Authentic(frame[w].entry)
               \/ /\ pc'[w] = "parent" /\ pc[w] = "assess"
                  /\ Authentic(frame[w].entry) /\ ~Attached(frame[w].entry)
               \/ pc'[w] = "detach" /\ pc[w] = "parent"
               \/ /\ pc'[w] = "weak" /\ pc[w] = "gate" /\ IsThread(frame[w])
                  /\ frame[w].entry \in WeakThread \cup LongThread
               \/ pc'[w] = "refuse" /\ pc[w] = "gate" /\ Blacklisted(frame[w])
               \/ /\ pc'[w] = "refuse" /\ pc[w] = "parent"
                  /\ Parent[frame[w].entry] \in refused
               \/ pc'[w] = "drop" /\ pc[w] = "refuse"
               \/ /\ pc'[w] \in {"remember", "accept"} /\ pc[w] = "insert"
                  /\ frame[w].entry \in Posts => data'[frame[w].entry] # NoRow
               \/ pc'[w] = "accept" /\ pc[w] = "remember" /\ data' = data
<1> DEFINE e == frame[w].entry
<1>1. frame[w] \in Frames
  BY StepLeads DEF TypeInv, FrameTyped
<1>2. ASSUME NEW l, Goto(w, l) PROVE pc'[w] = l /\ Continues(w, pc'[w])
  BY <1>2, GotoContinues DEF Continues
<1>3. CASE Assess(w)
  <2>1. ASSUME NEW l \in {"insert", "gate", "parent"}, NEW old, NEW top,
               pc' = [pc EXCEPT ![w] = l],
               frame' = [frame EXCEPT ![w].old = old, ![w].top = top], todo' = todo
        PROVE  pc'[w] = l /\ Continues(w, pc'[w])
    BY <1>1, <2>1 DEF Continues, TypeInv, TypeOK, Frames
  <2>2. ReturnTrue(w) => pc'[w] \in {"idle", "assess"}
    BY WalkPlace DEF ReturnTrue
  <2>3. QED BY <1>2, <1>3, <2>1, <2>2 DEF Assess
<1>4. CASE Gate(w)
  <2>1. ReturnTrue(w) \/ ReturnFalse(w) => pc'[w] \in {"idle", "assess"}
    BY WalkPlace DEF ReturnTrue, ReturnFalse
  <2>2. pc' = [pc EXCEPT ![w] = IF IsThread(frame[w]) THEN "thread" ELSE "insert"]
          => pc'[w] \in {"thread", "insert"}
    BY DEF TypeInv, TypeOK
  <2>3. QED BY <1>2, <1>4, <2>1, <2>2 DEF Gate
<1>5. CASE \/ Strike(w) \/ Drop(w) \/ Detach(w) \/ RefuseThread(w) \/ Accept(w)
  BY <1>5, WalkPlace DEF Strike, Drop, Detach, RefuseThread, Accept, ReturnTrue,
     ReturnFalse
<1>6. CASE Refuse(w) \/ CheckParent(w) \/ InsertThread(w)
  BY <1>2, <1>6, WalkPlace DEF Refuse, CheckParent, InsertThread, ReturnTrue
<1>7. CASE Insert(w)
  <2>1. ReturnTrue(w) => pc'[w] \in {"idle", "assess"}
    BY WalkPlace DEF ReturnTrue
  <2>2. ASSUME ~ReturnTrue(w), e \in Posts PROVE data'[e] # NoRow
    <3>1. data' = [data EXCEPT ![e] = frame[w].top] /\ pc[w] = "insert"
      BY <1>7, <2>2 DEF Insert
    <3>2. frame[w].top = Root[e]
      BY <2>2, <3>1 DEF TypeInv, FrameMeant
    <3>3. data \in [Posts -> Roots \cup {NoRow}]
      BY DEF TypeInv, TypeOK
    <3>4. Root[e] # NoRow
      BY <2>2, EntryAssumption, NameAssumption
    <3>5. QED BY <2>2, <3>1, <3>2, <3>3, <3>4
  <2>3. QED BY <1>2, <1>7, <2>1, <2>2 DEF Insert
<1>8. CASE Remember(w)
  <2>1. data' = data
    BY <1>8 DEF Remember, tables
  <2>2. QED BY <1>2, <1>8, <2>1, WalkPlace DEF Remember, ReturnTrue
<1>9. QED BY <1>3, <1>4, <1>5, <1>6, <1>7, <1>8 DEF Step

\* A step erases nothing: what is in the tables stays there.
LEMMA StepStores ==
  ASSUME TypeInv, NEW w \in Workers, Step(w)
  PROVE  /\ announced \subseteq announced' /\ erased' = erased /\ copies' = copies
         /\ now' = now /\ lives' = lives
         /\ \A e \in Posts : data[e] # NoRow => data'[e] # NoRow
         /\ \A e : Authentic(e) => Authentic(e)'
<1>1. /\ announced \subseteq announced' /\ erased' = erased /\ copies' = copies
      /\ now' = now /\ lives' = lives
  BY DEF Step, Assess, Strike, CheckParent, Refuse, Drop, Detach, Gate, RefuseThread,
     InsertThread, Insert, Remember, Accept, history, tables
<1>2. \A e \in Posts : data[e] # NoRow => data'[e] # NoRow
  <2>1. CASE data' = data
    BY <2>1
  <2>2. CASE Insert(w) /\ data' # data
    <3>1. frame[w].entry \in Posts /\ data' = [data EXCEPT ![frame[w].entry] = frame[w].top]
      BY <2>2 DEF Insert
    <3>2. frame[w].top # NoRow
      BY <2>2, <3>1, EntryAssumption, NameAssumption DEF Insert, TypeInv, FrameMeant
    <3>3. QED BY <3>1, <3>2 DEF TypeInv, TypeOK
  <2>3. QED BY <2>1, <2>2 DEF Step, Assess, Strike, CheckParent, Refuse, Drop, Detach,
            Gate, RefuseThread, InsertThread, Remember, Accept, tables
<1>3. \A e : Authentic(e) => Authentic(e)'
  BY <1>1 DEF Authentic
<1>4. QED BY <1>1, <1>2, <1>3

LEMMA LossFrameStep ==
  ASSUME TypeInv, FlowInv, PolicyInv, LossCaches, NEW w \in Workers, LossFrame(w),
         Step(w)
  PROVE  LossFrame(w)'
<1> DEFINE e == frame[w].entry
<1>1. /\ Active(w) /\ e \in Entries /\ FlowFrame(w)
      /\ todo[w] \in Seq(Posts) /\ detached[e] \in Seq(Posts)
      /\ pc[w] \in PostLabels => e \in Posts
  BY StepLeads DEF TypeInv, TypeOK, FrameTyped, FrameMeant, Frames, FlowInv
<1>2. \A x : Authentic(x) => Authentic(x)'
  BY StepStores
<1> DEFINE Known == Active(w)' =>
                      /\ \A x \in Elements(todo'[w]) : Authentic(x)
                      /\ frame'[w].nested => Authentic(frame'[w].entry)
<1>3. ASSUME NEW left \in Seq(Posts), Walk(w, left), \A x \in Elements(left) : Authentic(x)
      PROVE  Known
  BY <1>1, <1>3, WalkLeads DEF Active, Elements
<1>4. Known
  <2>1. ASSUME Walk(w, todo[w]) PROVE Known
    BY <1>1, <1>3, <2>1 DEF LossFrame
  <2>2. ASSUME Walk(w, <<>>) PROVE Known
    <3>1. <<>> \in Seq(Posts) /\ Elements(<<>>) = {}
      BY DEF Elements
    <3>2. QED BY <1>3, <2>2, <3>1
  <2>3. ASSUME Walk(w, detached[e] \o todo[w]) PROVE Known
    <3>1. detached[e] \o todo[w] \in Seq(Posts)
      BY <1>1
    <3>2. Elements(detached[e] \o todo[w]) = Waiting(e) \cup Elements(todo[w])
      BY <1>1, ElementsOfParts, WaitingIsElements
    <3>3. \A x \in Elements(detached[e] \o todo[w]) : Authentic(x)
      BY <1>1, <3>2 DEF LossCaches, LossFrame
    <3>4. QED BY <1>3, <2>3, <3>1, <3>3
  <2>4. ASSUME NEW l, Continues(w, l) PROVE Known
    BY <1>1, <2>4 DEF LossFrame, Continues
  <2>5. QED BY <2>1, <2>2, <2>3, <2>4, StepLeads
<1>5. ASSUME pc'[w] = "strike" PROVE ~Sound(frame'[w].entry) /\ ~frame'[w].nested
  <2>1. ~Authentic(e) /\ frame'[w].entry = e /\ frame'[w].nested = frame[w].nested
    BY <1>5, LabelReached DEF Continues
  <2>2. QED BY <1>1, <2>1, SoundAuthentic DEF LossCaches, LossFrame
<1>6. ASSUME pc'[w] \in {"parent", "detach"} PROVE Authentic(frame'[w].entry)
  <2>1. frame'[w].entry = e /\ (Authentic(e) \/ pc[w] = "parent")
    BY <1>6, LabelReached DEF Continues
  <2>2. QED BY <2>1 DEF LossFrame
<1>7. ASSUME pc'[w] = "weak"
      PROVE  ~Sound(frame'[w].entry) /\ frame'[w].entry \in WeakThread \cup LongThread
  <2>1. frame'[w].entry = e /\ e \in WeakThread \cup LongThread
    BY <1>7, LabelReached DEF Continues
  <2>2. QED BY <1>1, <2>1, SoundItself
<1>8. ASSUME pc'[w] \in {"refuse", "drop"} PROVE ~Sound(frame'[w].entry)
  <2>1. /\ frame'[w].entry = e
        /\ \/ pc[w] = "refuse"
           \/ pc[w] = "gate" /\ Blacklisted(frame[w])
           \/ pc[w] = "parent" /\ Parent[e] \in refused
    BY <1>8, LabelReached DEF Continues
  <2>2. ASSUME pc[w] = "parent", Parent[e] \in refused PROVE ~Sound(e)
    BY <1>1, <2>2, SoundAbove DEF LossCaches, PostLabels
  <2>3. QED BY <2>1, <2>2, SoundPasses DEF LossFrame
<1>9. ASSUME pc'[w] \in {"remember", "accept"}, frame'[w].entry \in Posts
      PROVE  data'[frame'[w].entry] # NoRow
  <2>1. /\ frame'[w].entry = e
        /\ (e \in Posts => data'[e] # NoRow) \/ (pc[w] = "remember" /\ data' = data)
    BY <1>9, LabelReached DEF Continues
  <2>2. QED BY <1>9, <2>1 DEF LossFrame
<1>10. QED BY <1>2, <1>4, <1>5, <1>6, <1>7, <1>8, <1>9 DEF LossFrame, Active


LEMMA LossCachesStep ==
  ASSUME TypeInv, FlowInv, PolicyInv, LossCaches, Lossless, NEW w \in Workers,
         LossFrame(w), Step(w)
  PROVE  LossCaches'
<1> DEFINE e == frame[w].entry
<1>1. /\ Active(w) /\ e \in Entries /\ FlowFrame(w)
  BY StepLeads DEF TypeInv, FrameTyped, Frames, FlowInv
<1>2. Installed \subseteq announced'
  BY StepStores DEF LossCaches
<1>3. \A p \in Entries : \A x \in Waiting(p)' : Authentic(x)'
  <2>1. Detach(w) => Authentic(e)
    BY DEF Detach, LossFrame
  <2>2. \A p \in Entries : \A x \in Waiting(p)' : Authentic(x)
    BY <2>1, StepWaits DEF LossCaches, FlowInv
  <2>3. QED BY <2>2, StepStores
<1>4. \A x \in refused' : ~Sound(x)
  <2>1. refused' = refused \/ (refused' = refused \cup {e} /\ pc[w] \in {"refuse", "weak"})
    BY DEF Step, Assess, Strike, CheckParent, Refuse, Drop, Detach, Gate, RefuseThread,
       InsertThread, Insert, Remember, Accept, caches
  <2>2. QED BY <2>1 DEF LossCaches, LossFrame
<1>5. ASSUME NEW x \in Posts, Sound(x), NEW v \in Workers, Owes(v, x)
      PROVE  data'[x] # NoRow \/ \E u \in Workers : Owes(u, x)'
  <2>1. CASE v # w
    BY <1>5, <2>1, OthersKeepTheirs DEF Owes
  <2>2. CASE v = w /\ pc[w] = "thread"
    <3>1. InsertThread(w) /\ Goto(w, "insert")
      BY <2>2 DEF Step, Assess, Strike, CheckParent, Refuse, Drop, Detach, Gate,
         RefuseThread, InsertThread, Insert, Remember, Accept, Lossless
    <3>2. QED BY <1>5, <2>2, <3>1, GotoPlace DEF Owes
  <2>3. CASE v = w /\ pc[w] = "insert"
    <3>1. Insert(w)
      BY <2>3 DEF Step, Assess, Strike, CheckParent, Refuse, Drop, Detach, Gate,
         RefuseThread, InsertThread, Insert, Remember, Accept
    <3>2. x = e /\ e \notin announced
      BY <1>5, <2>3, EntryAssumption DEF Owes, TypeInv, TypeOK
    <3>3. data[x] # NoRow \/ pc'[w] \in {"remember", "accept"}
      BY <1>5, <3>1, <3>2, GotoPlace DEF Insert, Lossless
    <3>4. QED BY <1>5, <2>3, <3>2, <3>3, StepStores, LabelReached
  <2>4. QED BY <1>5, <2>1, <2>2, <2>3 DEF Owes
<1>6. ASSUME NEW x \in Posts \cap recent', Sound(x)
      PROVE  data'[x] # NoRow \/ \E u \in Workers : Owes(u, x)'
  <2>1. CASE x \in recent
    <3>1. data[x] # NoRow \/ \E v \in Workers : Owes(v, x)
      BY <1>6, <2>1 DEF LossCaches
    <3>2. QED BY <1>5, <1>6, <3>1, StepStores
  <2>2. CASE x \notin recent
    <3>1. x = e /\ (Gate(w) \/ Remember(w))
      BY <1>6, <2>2 DEF Step, Assess, Strike, CheckParent, Refuse, Drop, Detach, Gate,
         RefuseThread, InsertThread, Insert, Remember, Accept, caches
    <3>2. CASE Remember(w)
      <4>1. data[x] # NoRow
        BY <1>6, <3>1, <3>2 DEF Remember, LossFrame
      <4>2. QED BY <1>6, <4>1, StepStores
    <3>3. CASE Gate(w)
      <4>1. /\ ~(IsThread(frame[w]) /\ e \in WeakThread \cup LongThread)
            /\ ~Blacklisted(frame[w]) /\ Wanted(frame[w])
        BY <1>6, <3>1, <3>3, SoundPasses DEF Gate
      <4>2. /\ pc' = [pc EXCEPT ![w] = IF IsThread(frame[w]) THEN "thread" ELSE "insert"]
            /\ frame' = [frame EXCEPT ![w].gated = TRUE]
        BY <2>2, <3>1, <3>3, <4>1 DEF Gate, New, Lossless
      <4>3. frame[w] \in Frames
        BY <1>1 DEF TypeInv, FrameTyped
      <4>4. pc'[w] \in {"thread", "insert"}
        BY <4>2 DEF TypeInv, TypeOK
      <4>5. frame'[w].gated /\ frame'[w].entry = x
        BY <3>1, <4>2, <4>3 DEF TypeInv, TypeOK, Frames
      <4>6. QED BY <4>4, <4>5 DEF Owes
    <3>4. QED BY <3>1, <3>2, <3>3
  <2>3. QED BY <2>1, <2>2
<1>7. QED BY <1>2, <1>3, <1>4, <1>6 DEF LossCaches

\* What a worker has left to visit, it visits, unless it is not sound.
LEMMA LeftIsVisited ==
  ASSUME TypeInv, FlowInv, PolicyInv, Lossless, NEW w \in Workers, LossFrame(w), Step(w),
         NEW x \in Elements(todo[w]), Sound(x)
  PROVE  Active(w)' /\ (frame'[w].entry = x \/ x \in Elements(todo'[w]))
<1> DEFINE e == frame[w].entry
           Visits == Active(w)' /\ (frame'[w].entry = x \/ x \in Elements(todo'[w]))
<1>1. /\ Active(w) /\ e \in Entries /\ FlowFrame(w) /\ frame[w] \in Frames
      /\ todo[w] \in Seq(Posts) /\ detached[e] \in Seq(Posts)
      /\ x \in Posts /\ x \in Entries /\ todo[w] # <<>>
      /\ pc[w] \in PostLabels => e \in Posts
  <2>1. /\ Active(w) /\ FlowFrame(w) /\ frame[w] \in Frames
        /\ pc[w] \in PostLabels => e \in Posts
    BY StepLeads DEF TypeInv, FrameTyped, FrameMeant, FlowInv
  <2>2. e \in Entries
    BY <2>1 DEF Frames
  <2>3. todo[w] \in Seq(Posts) /\ detached[e] \in Seq(Posts)
    BY <2>2 DEF TypeInv, TypeOK
  <2>4. x \in Posts
    BY <2>3, ElementsOfParts
  <2>5. todo[w] # <<>>
    BY DEF Elements
  <2>6. QED BY <2>1, <2>2, <2>3, <2>4, <2>5 DEF Entries
<1>2. ASSUME NEW left \in Seq(Posts), Walk(w, left), x \in Elements(left) PROVE Visits
  <2>1. left # <<>>
    BY <1>2 DEF Elements
  <2>2. /\ pc'[w] = "assess"
        /\ Elements(left) = {frame'[w].entry} \cup Elements(todo'[w])
    BY <1>1, <1>2, <2>1, WalkLeads
  <2>3. QED BY <1>2, <2>2 DEF Active
<1>3. ASSUME Walk(w, todo[w]) PROVE Visits
  BY <1>1, <1>2, <1>3
<1>4. ASSUME Walk(w, detached[e] \o todo[w]) PROVE Visits
  <2>1. detached[e] \o todo[w] \in Seq(Posts)
    BY <1>1
  <2>2. x \in Elements(detached[e] \o todo[w])
    BY <1>1, ElementsOfParts
  <2>3. QED BY <1>2, <1>4, <2>1, <2>2
<1>5. ASSUME NEW l \in Labels \ {"idle", "assess"}, Continues(w, l) PROVE Visits
  BY <1>5 DEF Continues, Active
<1>6. pc[w] # "strike"
  BY <1>1 DEF FlowFrame, LossFrame
<1>7. ASSUME pc[w] = "gate", ~Wanted(frame[w]) PROVE FALSE
  <2>1. e \in Posts /\ frame[w].top = Root[e]
    BY <1>1, <1>7 DEF TypeInv, FrameMeant, PostLabels
  <2>2. Root[x].channel = Root[e].channel
    BY <1>1, <2>1 DEF FlowFrame, ChannelOf
  <2>3. StoreEverything \/ Root[x].channel \in Subscriptions
    BY <1>1, SoundItself
  <2>4. QED BY <1>7, <2>1, <2>2, <2>3 DEF Wanted, Keys
<1>8. ASSUME pc[w] = "weak", e \notin LongThread, ~ProofAdjusted PROVE FALSE
  BY <1>8 DEF Lossless, LossFrame
<1>9. QED BY <1>3, <1>4, <1>5, <1>6, <1>7, <1>8, StepLeads


\* A sound post that a worker has it keeps, or leaves settled, or another worker has
\* it too.
LEMMA SoundGoesOn ==
  ASSUME TypeInv, FlowInv, PolicyInv, LossCaches, Lossless, NEW w \in Workers,
         LossFrame(w), Step(w), NEW e \in Posts, e = frame[w].entry, Sound(e)
  PROVE  Settled(e)' \/ Held(e)'
<1>0. e = frame[w].entry
  OBVIOUS
<1> DEFINE Kept == Settled(e)' \/ Held(e)'
<1>1. /\ Active(w) /\ e \in Posts /\ e \in Entries /\ Sound(e)
      /\ e \notin announced /\ Parent[e] \in Entries
  <2>1. e \in Posts /\ Active(w) /\ Sound(e)
    BY <1>0, StepLeads
  <2>2. QED BY <2>1, EntryAssumption DEF TypeInv, TypeOK, Entries
<1>2. now' = now /\ (data[e] # NoRow => data'[e] # NoRow)
  BY <1>1, StepStores
<1>3. ASSUME data[e] # NoRow \/ Older(Timestamp[Parent[e]], MaxAge) PROVE Kept
  BY <1>2, <1>3 DEF Settled, Older
<1>4. ASSUME NEW l \in Labels \ {"idle", "assess"}, Continues(w, l) PROVE Kept
  BY <1>0, <1>4 DEF Continues, Held, Active
<1>5. ASSUME NEW l \in Labels \ {"idle", "assess"}, Goto(w, l) PROVE Kept
  BY <1>4, <1>5, GotoContinues
<1>6. pc[w] \notin {"strike", "weak", "refuse", "drop"}
  BY <1>0, <1>1 DEF LossFrame
<1>7. CASE Assess(w)
  <2>1. Authentic(e)
    BY <1>1, SoundAuthentic DEF LossCaches
  <2>2. Older(Timestamp[e], MaxAge) => Kept
    BY <1>1, <1>3, OlderParent
  <2>3. e \notin Announcements
    BY <1>1, EntryAssumption
  <2>4. ASSUME ~Older(Timestamp[e], MaxAge) PROVE ~Walk(w, todo[w]) \/ Attached(e)
    BY <1>0, <1>7, <2>1, <2>3, <2>4 DEF Assess, Walk, TypeInv, TypeOK, ReturnTrue
  <2>5. CASE \E l \in Labels \ {"idle", "assess"} : Continues(w, l)
    BY <1>4, <2>5
  <2>6. CASE pc'[w] \in {"idle", "assess"}
    <3>1. Older(Timestamp[e], MaxAge)
      BY <1>0, <1>7, <2>1, <2>3, <2>6 DEF Assess, TypeInv, TypeOK, ReturnTrue
    <3>2. QED BY <2>2, <3>1
  <2>7. QED BY <1>0, <1>7, <2>5, <2>6, StepLeads, WalkPlace DEF Step
<1>8. CASE CheckParent(w)
  <2>1. "refuse" \in Labels \ {"idle", "assess"} /\ "detach" \in Labels \ {"idle", "assess"}
    BY DEF Labels
  <2>2. QED BY <1>5, <1>8, <2>1 DEF CheckParent
<1>9. CASE Detach(w)
  <2>1. detached' = [detached EXCEPT ![Parent[e]] = Append(@, e)]
    BY <1>0, <1>9 DEF Detach
  <2>2. detached'[Parent[e]] = Append(detached[Parent[e]], e)
        /\ detached[Parent[e]] \in Seq(Posts)
    BY <1>1, <2>1 DEF TypeInv, TypeOK
  <2>3. e \in Elements(detached'[Parent[e]])
    BY <1>1, <2>2, ElementsOfAppend, ZenonT(60)
  <2>4. QED BY <2>3 DEF Settled, Waiting, Elements
<1>10. CASE Gate(w)
  <2>1. /\ ~(IsThread(frame[w]) /\ e \in WeakThread \cup LongThread)
        /\ ~Blacklisted(frame[w]) /\ Wanted(frame[w])
    BY <1>0, <1>1, <1>10, SoundPasses DEF Gate
  <2>2. CASE New(e)
    <3>1. pc' = [pc EXCEPT ![w] = IF IsThread(frame[w]) THEN "thread" ELSE "insert"]
          /\ frame' = [frame EXCEPT ![w].gated = TRUE]
      BY <1>0, <1>10, <2>1, <2>2 DEF Gate, Lossless
    <3>2. frame[w] \in Frames
      BY <1>1 DEF TypeInv, FrameTyped
    <3>3. frame'[w].entry = e /\ Active(w)'
      BY <1>0, <3>1, <3>2 DEF TypeInv, TypeOK, Frames, Active
    <3>4. QED BY <3>3 DEF Held
  <2>3. CASE ~New(e)
    <3>1. data[e] # NoRow \/ \E v \in Workers : Owes(v, e)
      BY <1>1, <2>3 DEF New, LossCaches
    <3>2. ASSUME NEW v \in Workers, Owes(v, e) PROVE Held(e)'
      <4>1. v # w /\ Active(v) /\ frame[v].entry = e
        BY <1>10, <3>2 DEF Owes, Gate, Active
      <4>2. Active(v)' /\ frame'[v].entry = e
        BY <4>1, OthersKeepTheirs DEF Active
      <4>3. QED BY <4>2 DEF Held
    <3>3. QED BY <1>3, <3>1, <3>2
  <2>4. QED BY <2>2, <2>3
<1>11. CASE InsertThread(w)
  <2>1. "insert" \in Labels \ {"idle", "assess"}
    BY DEF Labels
  <2>2. QED BY <1>5, <1>11, <2>1 DEF InsertThread, Lossless
<1>12. CASE Insert(w)
  <2>1. {"accept", "remember"} \subseteq Labels \ {"idle", "assess"}
    BY DEF Labels
  <2>2. QED BY <1>0, <1>1, <1>3, <1>5, <1>12, <2>1 DEF Insert, Lossless
<1>13. CASE Remember(w) \/ Accept(w)
  <2>1. data[e] # NoRow
    BY <1>0, <1>1, <1>13 DEF Remember, Accept, LossFrame
  <2>2. QED BY <1>3, <2>1
<1>14. CASE Strike(w) \/ Refuse(w) \/ Drop(w) \/ RefuseThread(w)
  BY <1>6, <1>14 DEF Strike, Refuse, Drop, RefuseThread
<1>15. QED BY <1>0, <1>7, <1>8, <1>9, <1>10, <1>11, <1>12, <1>13, <1>14 DEF Step

\* What is settled stays so, or goes on to a worker.
LEMMA SettledGoesOn ==
  ASSUME TypeInv, FlowInv, PolicyInv, Lossless, NEW w \in Workers, LossFrame(w), Step(w),
         NEW e \in Posts, Sound(e), Settled(e)
  PROVE  Settled(e)' \/ Held(e)'
<1> DEFINE p == Parent[e]
<1>1. /\ now' = now /\ (data[e] # NoRow => data'[e] # NoRow)
      /\ p \in Entries /\ Sound(p)
  BY StepStores, SoundAbove
<1>2. CASE data[e] # NoRow \/ Older(Timestamp[p], MaxAge)
  BY <1>1, <1>2 DEF Settled, Older
<1>3. ASSUME e \in Waiting(p), e \notin Waiting(p)' PROVE Held(e)'
  <2>1. (Strike(w) \/ Drop(w) \/ Accept(w)) /\ p = frame[w].entry
    BY <1>1, <1>3, StepWaits DEF FlowInv
  <2>2. Accept(w)
    BY <1>1, <2>1 DEF Strike, Drop, LossFrame
  <2>3. detached[p] \in Seq(Posts) /\ todo[w] \in Seq(Posts) /\ Active(w)
    BY <1>1, <2>2 DEF TypeInv, TypeOK, Accept, Active
  <2>4. /\ detached[p] \o todo[w] \in Seq(Posts) /\ Walk(w, detached[p] \o todo[w])
        /\ e \in Elements(detached[p] \o todo[w])
    BY <1>3, <2>1, <2>2, <2>3, ElementsOfParts, WaitingIsElements DEF Accept
  <2>5. detached[p] \o todo[w] # <<>>
    <3>1. Elements(<<>>) = {}
      BY DEF Elements
    <3>2. QED BY <2>4, <3>1
  <2>6. /\ pc'[w] = "assess"
        /\ Elements(detached[p] \o todo[w]) = {frame'[w].entry} \cup Elements(todo'[w])
    BY <2>3, <2>4, <2>5, WalkLeads
  <2>7. QED BY <2>4, <2>6 DEF Held, Active
<1>4. QED BY <1>2, <1>3 DEF Settled

LEMMA LossStep ==
  ASSUME TypeInv, FlowInv, PolicyInv, Lossless, LossInv, NEW w \in Workers, Step(w)
  PROVE  LossInv'
<1> SUFFICES ASSUME erased' = {}
             PROVE  /\ LossCaches'
                    /\ \A v \in Workers : LossFrame(v)'
                    /\ \A e \in Posts :
                         copies'[e] > 0 /\ Sound(e) => Settled(e)' \/ Held(e)'
  BY DEF LossInv, Sound
<1>1. /\ LossCaches /\ \A v \in Workers : LossFrame(v)
      /\ \A e \in Posts : copies[e] > 0 /\ Sound(e) => Settled(e) \/ Held(e)
  BY StepStores DEF LossInv
<1>2. LossCaches' /\ LossFrame(w)'
  BY <1>1, LossCachesStep, LossFrameStep
<1>3. ASSUME NEW v \in Workers \ {w} PROVE LossFrame(v)'
  <2>1. /\ pc'[v] = pc[v] /\ frame'[v] = frame[v] /\ todo'[v] = todo[v]
        /\ LossFrame(v)
    BY <1>1, <1>3, OthersKeepTheirs
  <2>2. QED BY <2>1, StepStores DEF LossFrame, Active, Elements, Sound
<1>4. ASSUME NEW e \in Posts, copies'[e] > 0, Sound(e) PROVE Settled(e)' \/ Held(e)'
  <2>1. Settled(e) \/ Held(e)
    BY <1>1, <1>4, StepStores
  <2>2. ASSUME NEW v \in Workers, Active(v),
               frame[v].entry = e \/ e \in Elements(todo[v])
        PROVE  Settled(e)' \/ Held(e)'
    <3>1. CASE v # w
      BY <2>2, <3>1, OthersKeepTheirs DEF Held, Active
    <3>2. CASE v = w /\ frame[w].entry = e
      BY <1>1, <1>4, <3>2, SoundGoesOn
    <3>3. CASE v = w /\ e \in Elements(todo[w])
      BY <1>1, <1>4, <3>3, LeftIsVisited DEF Held
    <3>4. QED BY <2>2, <3>1, <3>2, <3>3
  <2>3. QED BY <1>1, <1>4, <2>1, <2>2, SettledGoesOn DEF Held
<1>5. QED BY <1>2, <1>3, <1>4


\* Arrivals: what does not validate, or has too little proof of work, is not sound.
LEMMA LossArrival ==
  ASSUME TypeInv, FlowInv, LossInv, NEW w \in Workers, NEW d \in Entries,
         Submit(w, d) \/ \E c \in Connections : Receive(w, c, d)
  PROVE  LossInv'
<1> SUFFICES ASSUME erased' = {}
             PROVE  /\ LossCaches'
                    /\ \A v \in Workers : LossFrame(v)'
                    /\ \A e \in Posts :
                         copies'[e] > 0 /\ Sound(e) => Settled(e)' \/ Held(e)'
  BY DEF LossInv, Sound
<1>1. /\ UNCHANGED <<announced, data, recent, detached, erased, now>>
      /\ pc[w] = "idle" /\ copies' = [copies EXCEPT ![d] = @ + 1]
  BY DEF Submit, Receive, Arrive, tables, caches, history
<1>2. /\ LossCaches /\ \A v \in Workers : LossFrame(v)
      /\ \A e \in Posts : copies[e] > 0 /\ Sound(e) => Settled(e) \/ Held(e)
  BY <1>1 DEF LossInv
<1>3. \/ \E s : Start(w, d, s) /\ refused' = refused
      \/ UNCHANGED control /\ (~Validates(d) \/ d \in WeakProof)
         /\ (refused' = refused \/ (refused' = refused \cup {d} /\ d \in WeakProof))
  BY DEF Submit, Receive, caches
<1>4. /\ \A e : Authentic(e)' = Authentic(e) /\ Settled(e)' = Settled(e)
      /\ \A p : Waiting(p)' = Waiting(p)
  BY <1>1 DEF Authentic, Settled, Waiting, Older
<1>5. ASSUME NEW v \in Workers, pc'[v] = pc[v], frame'[v] = frame[v], todo'[v] = todo[v]
      PROVE  LossFrame(v)'
  <2>1. LossFrame(v)
    BY <1>2
  <2>2. QED BY <1>1, <1>4, <1>5, <2>1 DEF LossFrame, Active, Elements, Sound
<1>6. ASSUME NEW v \in Workers, Active(v)
      PROVE  pc'[v] = pc[v] /\ frame'[v] = frame[v] /\ todo'[v] = todo[v]
  BY <1>1, <1>3, <1>6 DEF Start, control, Active, TypeInv, TypeOK
<1>7. \A e : Held(e) => Held(e)'
  BY <1>6 DEF Held, Active
<1>8. \A e \in Posts : \A v \in Workers : Owes(v, e) => Owes(v, e)'
  BY <1>6 DEF Owes, Active
<1>9. ~Validates(d) \/ d \in WeakProof => ~Sound(d)
  BY SoundValidates, SoundItself
<1>10. LossCaches'
  <2>1. \A x \in refused' : ~Sound(x)
    BY <1>2, <1>3, <1>9 DEF LossCaches
  <2>2. QED BY <1>1, <1>2, <1>4, <1>8, <2>1 DEF LossCaches, Sound
<1>11. CASE UNCHANGED control /\ (~Validates(d) \/ d \in WeakProof)
  <2>1. \A v \in Workers : LossFrame(v)'
    BY <1>5, <1>11 DEF control
  <2>2. \A e \in Posts : copies'[e] > 0 /\ Sound(e) => copies[e] > 0
    BY <1>1, <1>9, <1>11 DEF TypeInv, TypeOK, Entries
  <2>3. QED BY <1>2, <1>4, <1>7, <1>10, <2>1, <2>2
<1>12. ASSUME NEW s, Start(w, d, s)
       PROVE  /\ \A v \in Workers : LossFrame(v)'
              /\ \A e \in Posts : copies'[e] > 0 /\ Sound(e) => Settled(e)' \/ Held(e)'
  <2>1. /\ pc'[w] = "assess" /\ frame'[w].entry = d /\ ~frame'[w].nested
        /\ todo'[w] = <<>>
    BY <1>1, <1>12 DEF Start, Begin, FlowInv, FlowFrame, TypeInv, TypeOK
  <2>2. LossFrame(w)'
    BY <2>1 DEF LossFrame, Elements
  <2>3. \A v \in Workers \ {w} :
          pc'[v] = pc[v] /\ frame'[v] = frame[v] /\ todo'[v] = todo[v]
    BY <1>12 DEF Start, TypeInv, TypeOK
  <2>4. Held(d)'
    BY <2>1 DEF Held, Active
  <2>5. \A e \in Posts : e # d /\ copies'[e] > 0 => copies[e] > 0
    BY <1>1 DEF TypeInv, TypeOK, Entries
  <2>6. QED BY <1>2, <1>4, <1>5, <1>7, <2>2, <2>3, <2>4, <2>5
<1>13. QED BY <1>3, <1>10, <1>11, <1>12

\* The coordinator forgets only what waits for a parent that is too old, and what
\* `recent` forgets is stored or comes back.
LEMMA LossElsewhere ==
  ASSUME TypeInv, LossInv, Clean \/ Tick \/ UNCHANGED vars
  PROVE  LossInv'
<1> SUFFICES ASSUME erased' = {}
             PROVE  /\ LossCaches'
                    /\ \A v \in Workers : LossFrame(v)'
                    /\ \A e \in Posts :
                         copies'[e] > 0 /\ Sound(e) => Settled(e)' \/ Held(e)'
  BY DEF LossInv, Sound
<1>1. /\ UNCHANGED <<announced, data, refused, erased, copies, pc, frame, todo>>
      /\ recent' \subseteq recent
  BY DEF Clean, Tick, vars, tables, caches, control, history
<1>2. /\ LossCaches /\ \A v \in Workers : LossFrame(v)
      /\ \A e \in Posts : copies[e] > 0 /\ Sound(e) => Settled(e) \/ Held(e)
  BY <1>1 DEF LossInv
<1>3. \A e : Authentic(e)' = Authentic(e) /\ Held(e)' = Held(e)
  BY <1>1 DEF Authentic, Held, Active
<1>4. now \in Nat /\ now' \in Nat /\ now <= now'
  BY DEF Clean, Tick, vars, TypeInv, TypeOK
<1>5. \A p \in Entries : Waiting(p)' = Waiting(p)
                         \/ (Waiting(p)' = {} /\ Older(Timestamp[p], MaxAge)')
  <2>1. CASE detached' = detached
    BY <2>1 DEF Waiting
  <2>2. CASE Clean
    <3>1. ASSUME NEW p \in Entries, Older(Timestamp[p], DetachedAge)
          PROVE  Waiting(p)' = {} /\ Older(Timestamp[p], MaxAge)'
      <4>1. Waiting(p)' = {}
        BY <2>2, <3>1 DEF Clean, Waiting
      <4>2. /\ Timestamp[p] \in Nat /\ MaxAge \in Nat /\ MaxSkew \in Nat
            /\ Timestamp[p] + (MaxAge + MaxSkew + 1) < now
        BY <3>1, EntryAssumption, SettingAssumption DEF Older, DetachedAge
      <4>3. QED BY <1>4, <4>1, <4>2 DEF Older
    <3>2. ASSUME NEW p \in Entries, ~Older(Timestamp[p], DetachedAge)
          PROVE  Waiting(p)' = Waiting(p)
      BY <2>2, <3>2 DEF Clean, Waiting
    <3>3. QED BY <3>1, <3>2
  <2>3. QED BY <2>1, <2>2 DEF Tick, vars, caches
<1>6. ASSUME NEW e \in Posts, Settled(e) PROVE Settled(e)'
  <2>1. Parent[e] \in Entries /\ Timestamp[Parent[e]] \in Nat /\ MaxAge \in Nat
    BY EntryAssumption, SettingAssumption
  <2>2. Older(Timestamp[Parent[e]], MaxAge) => Older(Timestamp[Parent[e]], MaxAge)'
    BY <1>4, <2>1 DEF Older
  <2>3. QED BY <1>1, <1>5, <1>6, <2>1, <2>2 DEF Settled
<1>7. LossCaches'
  <2>1. \A e \in Posts : \A v \in Workers : Owes(v, e)' = Owes(v, e)
    BY <1>1 DEF Owes
  <2>2. \A p \in Entries : \A x \in Waiting(p)' : Authentic(x)'
    BY <1>2, <1>3, <1>5 DEF LossCaches
  <2>3. QED BY <1>1, <1>2, <2>1, <2>2 DEF LossCaches, Sound
<1>8. \A v \in Workers : LossFrame(v)'
  BY <1>1, <1>2, <1>3 DEF LossFrame, Active, Sound
<1>9. QED BY <1>1, <1>2, <1>3, <1>6, <1>7, <1>8

\* Whatever the order in which posts arrive, however many workers embrace them, and
\* whatever comes in between, a sound post is not lost: when the workers rest, it is
\* stored, or waits for its parent, or its parent is too old to be waited for.
THEOREM SoundPostsKept ==
  ASSUME Lossless
  PROVE  Spec => []NothingLost
<1>1. Init => LossInv
  <2> SUFFICES ASSUME Init PROVE LossInv
    OBVIOUS
  <2>1. \A w \in Workers : LossFrame(w)
    BY DEF Init, LossFrame, Active
  <2>2. LossCaches
    BY DEF Init, LossCaches, Waiting
  <2>3. \A e \in Posts : ~(copies[e] > 0)
    BY DEF Init, Entries
  <2>4. QED BY <2>1, <2>2, <2>3 DEF LossInv
<1>2. TypeInv /\ FlowInv /\ PolicyInv /\ LossInv /\ [Next]_vars => LossInv'
  <2> SUFFICES ASSUME TypeInv, FlowInv, PolicyInv, LossInv, [Next]_vars PROVE LossInv'
    OBVIOUS
  <2>1. ASSUME NEW e \in Entries, Erase(e) PROVE LossInv'
    BY <2>1 DEF Erase, LossInv
  <2>2. QED BY <2>1, LossStep, LossArrival, LossElsewhere DEF Next
<1>3. LossInv => NothingLost
  BY DEF LossInv, NothingLost, Settled, Held, Quiescent, Active
<1>4. QED
  BY <1>1, <1>2, <1>3, TypeInvariant, FlowInvariant, PolicyInvariant, PTL DEF Spec


-----------------------------------------------------------------------------
(* With one worker, nobody waits for what is there *)

\* One thread serves the completion port, and the tables can be written.
OneWorker == (\A v, w \in Workers : v = w) /\ ~WritesFail

\* w is about to take the posts that wait for p.
Accepting(w, p) ==
  /\ frame[w].entry = p
  /\ \/ pc[w] \in {"remember", "accept"}
     \/ pc[w] = "insert" /\ p \in Posts /\ data[p] = NoRow

\* What the worker found of an entry stays true while it acts on it.
VainFrame(w) ==
  /\ pc[w] \in {"parent", "detach"} => ~Attached(frame[w].entry)
  /\ pc[w] = "remember" =>
       New(frame[w].entry) /\ frame[w].entry \in announced

VainInv ==
  erased = {} =>
    /\ \A p \in Stored : Waiting(p) = {} \/ \E w \in Workers : Accepting(w, p)
    /\ recent \cap Announcements \subseteq announced
    /\ \A w \in Workers : VainFrame(w)

LEMMA VainFrameStep ==
  ASSUME TypeInv, FlowInv, OneWorker, NEW w \in Workers, VainFrame(w),
         recent \cap Announcements \subseteq announced, Step(w)
  PROVE  /\ VainFrame(w)'
         /\ (recent \cap Announcements \subseteq announced)'
<1> DEFINE e == frame[w].entry
<1>1. /\ Active(w) /\ e \in Entries /\ frame[w] \in Frames /\ FlowFrame(w)
  BY StepLeads DEF TypeInv, FrameTyped, Frames, FlowInv
<1>2. announced \subseteq announced'
  BY StepStores
<1>3. ASSUME pc'[w] \in {"parent", "detach"} PROVE ~Attached(frame[w].entry)'
  <2>1. /\ frame'[w].entry = e /\ ~Attached(e)
        /\ pc[w] \in {"assess", "parent"}
    BY <1>3, LabelReached DEF Continues, VainFrame
  <2>2. UNCHANGED tables
    BY <2>1 DEF Step, Assess, Strike, CheckParent, Refuse, Drop, Detach, Gate,
       RefuseThread, InsertThread, Insert, Remember, Accept
  <2>3. QED BY <2>1, <2>2 DEF Attached, Stored, tables
<1>4. ASSUME pc'[w] = "remember"
      PROVE  /\ frame'[w].entry \notin recent' /\ frame'[w].entry \in announced'
  <2>1. frame'[w].entry = e /\ pc[w] = "insert"
    BY <1>4, LabelReached DEF Continues
  <2>2. Insert(w) /\ recent' = recent
    BY <2>1 DEF Step, Assess, Strike, CheckParent, Refuse, Drop, Detach, Gate,
       RefuseThread, InsertThread, Insert, Remember, Accept, caches
  <2>3. ~frame[w].gated /\ e \notin announced
    BY <1>4, <2>2, WalkPlace, GotoPlace DEF Insert, ReturnTrue
  <2>4. e \in Announcements /\ e \notin Posts
    BY <1>1, <2>1, <2>3 DEF FlowFrame, Entries
  <2>5. announced' = announced \cup {e}
    BY <1>4, <2>2, <2>4, WalkPlace DEF Insert, ReturnTrue
  <2>6. QED BY <2>1, <2>2, <2>3, <2>4, <2>5
<1>5. (recent \cap Announcements \subseteq announced)'
  <2>1. \/ recent' = recent
        \/ /\ recent' = recent \cup {e}
           /\ pc[w] = "remember" \/ pc[w] = "gate"
    BY DEF Step, Assess, Strike, CheckParent, Refuse, Drop, Detach, Gate,
       RefuseThread, InsertThread, Insert, Remember, Accept, caches
  <2>2. pc[w] = "gate" => e \notin Announcements
    BY EntryAssumption DEF TypeInv, FrameMeant, PostLabels
  <2>3. QED BY <1>2, <2>1, <2>2 DEF VainFrame
<1>6. QED BY <1>3, <1>4, <1>5 DEF VainFrame, New, Attached

LEMMA AcceptingStep ==
  ASSUME TypeInv, FlowInv, PolicyInv, OneWorker, NEW w \in Workers, VainFrame(w), Step(w),
         \A q \in Stored : Waiting(q) = {} \/ Accepting(w, q), NEW p \in Stored'
  PROVE  Waiting(p)' = {} \/ Accepting(w, p)'
<1> DEFINE e == frame[w].entry
<1>1. /\ Active(w) /\ e \in Entries /\ frame[w] \in Frames /\ FlowFrame(w) /\ p \in Entries
      /\ pc[w] \in PostLabels => e \in Posts
  <2>1. Stored' \subseteq Entries
    BY NextTypeInv DEF Next, TypeInv, TypeOK, Stored, Entries, Announcements
  <2>2. QED BY <2>1, StepLeads DEF TypeInv, FrameTyped, FrameMeant, Frames, FlowInv
<1>2. ASSUME NEW l, Goto(w, l), l \in {"remember", "accept"}, p = e
      PROVE  Accepting(w, p)'
  <2>1. pc'[w] = l /\ frame'[w] = frame[w]
    BY <1>2, GotoPlace
  <2>2. QED BY <1>2, <2>1 DEF Accepting
<1>3. CASE Insert(w)
  <2>1. detached' = detached
    BY <1>3 DEF Insert, caches
  <2>2. ASSUME ~(Goto(w, "accept") \/ Goto(w, "remember"))
        PROVE  Stored' = Stored /\ (e \in Posts => data[e] # NoRow)
    <3>1. (e \in announced \/ (e \in Posts /\ data[e] # NoRow)) /\ UNCHANGED tables
      BY <1>3, <2>2 DEF Insert, OneWorker, tables
    <3>2. e \in announced => e \notin Posts
      BY EntryAssumption DEF TypeInv, TypeOK
    <3>3. QED BY <3>1, <3>2 DEF Stored, tables
  <2>3. CASE p = e
    <3>1. CASE Goto(w, "accept") \/ Goto(w, "remember")
      BY <1>2, <2>3, <3>1
    <3>2. CASE ~(Goto(w, "accept") \/ Goto(w, "remember"))
      <4>1. ~Accepting(w, p) /\ p \in Stored
        BY <1>3, <2>2, <2>3, <3>2 DEF Accepting, Insert
      <4>2. QED BY <2>1, <4>1 DEF Waiting
    <3>3. QED BY <3>1, <3>2
  <2>4. CASE p # e
    <3>1. p \in Stored /\ ~Accepting(w, p)
      BY <1>3, <2>4, InsertStores DEF Accepting
    <3>2. QED BY <2>1, <3>1 DEF Waiting
  <2>5. QED BY <2>3, <2>4
<1>4. CASE InsertThread(w)
  <2>1. /\ detached' = detached /\ data' = data /\ Goto(w, "insert") /\ e \in Posts
        /\ pc[w] = "thread"
    BY <1>1, <1>4 DEF InsertThread, caches, OneWorker, PostLabels
  <2>2. CASE p \in Stored
    <3>1. ~Accepting(w, p)
      BY <2>1 DEF Accepting
    <3>2. QED BY <2>1, <2>2, <3>1 DEF Waiting
  <2>3. CASE p \notin Stored
    <3>1. p = e
      BY <1>4, <2>3, InsertThreadStores
    <3>2. data'[p] = NoRow
      BY <2>1, <2>3, <3>1 DEF Stored
    <3>3. QED BY <2>1, <3>1, <3>2, GotoPlace DEF Accepting
  <2>4. QED BY <2>2, <2>3
<1>5. CASE ~Insert(w) /\ ~InsertThread(w)
  <2>1. UNCHANGED tables
    BY <1>5 DEF Step, Assess, Strike, CheckParent, Refuse, Drop, Detach, Gate,
       RefuseThread, Remember, Accept
  <2>2. p \in Stored
    BY <2>1 DEF Stored, tables
  <2>3. CASE Waiting(p) = {}
    <3>1. Detach(w) => p # Parent[e]
      BY <2>2 DEF Detach, VainFrame, Attached
    <3>2. QED BY <1>1, <2>3, <3>1, StepWaits DEF FlowInv
  <2>4. CASE Accepting(w, p)
    <3>1. p = e /\ (Remember(w) \/ Accept(w))
      BY <1>5, <2>4 DEF Accepting, Step, Assess, Strike, CheckParent, Refuse, Drop,
         Detach, Gate, RefuseThread, InsertThread, Insert, Remember, Accept
    <3>2. CASE Remember(w)
      <4>1. Goto(w, "accept")
        BY <3>2 DEF Remember, VainFrame
      <4>2. QED BY <1>2, <3>1, <4>1
    <3>3. CASE Accept(w)
      <4>1. detached'[p] = <<>>
        BY <1>1, <3>1, <3>3 DEF Accept, TypeInv, TypeOK
      <4>2. QED BY <4>1 DEF Waiting
    <3>4. QED BY <3>1, <3>2, <3>3
  <2>5. QED BY <2>2, <2>3, <2>4
<1>6. QED BY <1>3, <1>4, <1>5

\* With a single worker the order of arrival makes no difference: nobody is left
\* waiting for a parent that is in the database.
THEOREM AllAwaitedAbsent ==
  ASSUME OneWorker
  PROVE  Spec => []NobodyWaitsInVain
<1>1. Init => VainInv
  <2> SUFFICES ASSUME Init PROVE VainInv
    OBVIOUS
  <2>1. Stored \subseteq Entries
    BY InitTypeInv DEF TypeInv, TypeOK, Stored, Entries
  <2>2. \A p \in Entries : Waiting(p) = {}
    BY DEF Init, Waiting
  <2>3. \A w \in Workers : VainFrame(w)
    BY DEF Init, VainFrame
  <2>4. QED BY <2>1, <2>2, <2>3 DEF Init, VainInv
<1>2. TypeInv /\ FlowInv /\ PolicyInv /\ VainInv /\ [Next]_vars => VainInv'
  <2> SUFFICES ASSUME TypeInv, FlowInv, PolicyInv, VainInv, [Next]_vars, erased' = {}
               PROVE  /\ \A p \in Stored' :
                           Waiting(p)' = {} \/ \E w \in Workers : Accepting(w, p)'
                      /\ (recent \cap Announcements \subseteq announced)'
                      /\ \A w \in Workers : VainFrame(w)'
    BY DEF VainInv
  <2>1. ASSUME NEW w \in Workers, Step(w)
        PROVE  /\ \A p \in Stored' : Waiting(p)' = {} \/ Accepting(w, p)'
               /\ (recent \cap Announcements \subseteq announced)'
               /\ VainFrame(w)'
    <3>1. /\ erased = {} /\ VainFrame(w) /\ recent \cap Announcements \subseteq announced
          /\ \A p \in Stored : Waiting(p) = {} \/ \E v \in Workers : Accepting(v, p)
      BY <2>1, StepStores DEF VainInv
    <3>2. \A p \in Stored : Waiting(p) = {} \/ Accepting(w, p)
      BY <3>1 DEF OneWorker
    <3>3. QED BY <2>1, <3>1, <3>2, VainFrameStep, AcceptingStep
  <2>2. ASSUME NEW w \in Workers, Step(w), NEW v \in Workers PROVE v = w
    BY DEF OneWorker
  <2>3. ASSUME UNCHANGED tables, erased' = erased, recent' \subseteq recent,
               \A p \in Entries : Waiting(p)' = Waiting(p) \/ Waiting(p)' = {},
               \A v \in Workers : /\ Active(v) => pc'[v] = pc[v] /\ frame'[v] = frame[v]
                                  /\ ~Active(v) => pc'[v] \in {"idle", "assess"}
        PROVE  /\ \A p \in Stored' :
                    Waiting(p)' = {} \/ \E w \in Workers : Accepting(w, p)'
               /\ (recent \cap Announcements \subseteq announced)'
               /\ \A w \in Workers : VainFrame(w)'
    <3>1. /\ \A p \in Stored : Waiting(p) = {} \/ \E w \in Workers : Accepting(w, p)
          /\ recent \cap Announcements \subseteq announced
          /\ \A w \in Workers : VainFrame(w)
      BY <2>3 DEF VainInv
    <3>2. Stored' = Stored /\ announced' = announced /\ data' = data
      BY <2>3 DEF tables, Stored
    <3>3. Stored \subseteq Entries
      BY DEF Stored, TypeInv, TypeOK, Entries
    <3>4. ASSUME NEW w \in Workers, NEW p, Accepting(w, p) PROVE Accepting(w, p)'
      <4>1. Active(w)
        BY <3>4 DEF Accepting, Active
      <4>2. QED BY <2>3, <3>2, <3>4, <4>1 DEF Accepting
    <3>5. ASSUME NEW w \in Workers PROVE VainFrame(w)'
      <4>1. VainFrame(w)
        BY <3>1
      <4>2. QED BY <2>3, <3>2, <4>1 DEF VainFrame, Active, Attached, New
    <3>6. QED BY <2>3, <3>1, <3>2, <3>3, <3>4, <3>5
  <2>4. ASSUME NEW w \in Workers, NEW d \in Entries,
               Submit(w, d) \/ \E c \in Connections : Receive(w, c, d)
        PROVE  /\ UNCHANGED <<tables, erased, recent, detached>>
               /\ \A v \in Workers : /\ Active(v) => pc'[v] = pc[v] /\ frame'[v] = frame[v]
                                     /\ ~Active(v) => pc'[v] \in {"idle", "assess"}
    <3>1. UNCHANGED <<tables, erased, recent, detached>> /\ pc[w] = "idle"
      BY <2>4 DEF Submit, Receive, Arrive, caches, history
    <3>2. UNCHANGED control \/ \E s : Start(w, d, s)
      BY <2>4 DEF Submit, Receive
    <3>3. QED BY <3>1, <3>2 DEF control, Start, Active, TypeInv, TypeOK
  <2>5. CASE Clean \/ Tick \/ UNCHANGED vars
    <3>1. /\ UNCHANGED <<tables, erased, pc, frame>> /\ recent' \subseteq recent
      BY <2>5 DEF Clean, Tick, vars, control, caches, history
    <3>2. \A p \in Entries : Waiting(p)' = Waiting(p) \/ Waiting(p)' = {}
      BY <2>5 DEF Clean, Tick, vars, caches, Waiting
    <3>3. QED BY <2>3, <3>1, <3>2 DEF Active
  <2>6. ASSUME NEW d \in Entries, Erase(d) PROVE FALSE
    BY <2>6 DEF Erase
  <2>7. ASSUME NEW w \in Workers, NEW d \in Entries,
               Submit(w, d) \/ \E c \in Connections : Receive(w, c, d)
        PROVE  \A p \in Entries : Waiting(p)' = Waiting(p)
    BY <2>4, <2>7 DEF Waiting
  <2>8. QED BY <2>1, <2>2, <2>3, <2>4, <2>5, <2>6, <2>7 DEF Next
<1>3. VainInv => NobodyWaitsInVain
  BY DEF VainInv, NobodyWaitsInVain, Quiescent, Accepting
<1>4. QED
  BY <1>1, <1>2, <1>3, TypeInvariant, FlowInvariant, PolicyInvariant, PTL DEF Spec
====
