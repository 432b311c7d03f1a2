--------------------------- MODULE EmbraceProofs ---------------------------
(***************************************************************************)
(* Proofs about Embrace for any set of entries, workers and connections,    *)
(* any settings and any bounds: its types and the limits of its counters,   *)
(* the causal closure of the tables, the correctness of their rows, and     *)
(* that the pipeline implements CausalStore.                                *)
(***************************************************************************)
EXTENDS Embrace, TLAPS

-----------------------------------------------------------------------------
(* The inductive invariant behind the types *)

Active(w) == pc[w] # "idle"

\* labels at which the entry is known to be a post
PostLabels == {"parent", "detach", "gate", "weak", "thread"}

Control == /\ pc \in [Workers -> Labels]
           /\ frame \in [Workers -> Frames \cup {NoFrame}]
           /\ todo \in [Workers -> Seq(Posts)]

\* A worker at work has a frame, and its connection is still there.
FrameTyped(w) ==
  Active(w) => frame[w] \in Frames /\ frame[w].source \in connected \cup {Local}

\* What is known of the frame of a worker at each label.
FrameMeant(w) ==
  /\ pc[w] = "strike" => frame[w].source # Local
  /\ pc[w] \in PostLabels => frame[w].entry \in Posts
  /\ pc[w] \in {"gate", "thread", "insert"} /\ frame[w].entry \in Posts
       => frame[w].top = Root[frame[w].entry]
  /\ pc[w] = "thread" => Parent[frame[w].entry] \in Announcements

\* Two workers never serve one source, so a connection that has just gone over
\* a limit is dropped before it can be charged again.
SourcesApart ==
  \A w, v \in Workers :
    w # v /\ Active(w) /\ Active(v) => frame[w].source # frame[v].source

WithinLimits ==
  \A s \in connected :
    rejected[s] <= MaxRejected /\ unsolicited[s] <= MaxUnsolicited

ThreadsInChannels == \A e \in threads : Parent[e] \in Announcements

TypeInv ==
  /\ TypeOK
  /\ \A w \in Workers : FrameTyped(w) /\ FrameMeant(w)
  /\ SourcesApart
  /\ WithinLimits
  /\ ThreadsInChannels
  /\ RowsKnowTheirRoot

-----------------------------------------------------------------------------
(* How a step moves the control of a worker *)

\* only w moves, and its control stays well-typed
Moves(w) ==
  /\ Control'
  /\ \A v \in Workers \ {w} :
       pc'[v] = pc[v] /\ frame'[v] = frame[v] /\ todo'[v] = todo[v]

\* w has returned: it is idle, or assesses the next entry from the same source
Resumes(w) ==
  /\ Moves(w)
  /\ \/ pc'[w] = "idle"
     \/ /\ pc'[w] = "assess"
        /\ frame'[w] \in Frames
        /\ frame'[w].source = frame[w].source

\* Walk visits posts only, and keeps to the source of the worker.
LEMMA WalkResumes ==
  ASSUME NEW w \in Workers, NEW left \in Seq(Posts), Control,
         frame[w] \in Frames, Walk(w, left)
  PROVE  Resumes(w)
<1>1. CASE left = <<>>
  <2>1. <<>> \in Seq(Posts)
    OBVIOUS
  <2>2. /\ pc' = [pc EXCEPT ![w] = "idle"]
        /\ frame' = [frame EXCEPT ![w] = NoFrame]
        /\ todo' = [todo EXCEPT ![w] = <<>>]
    BY <1>1 DEF Walk
  <2>3. QED BY <2>1, <2>2 DEF Resumes, Moves, Control, Labels
<1>2. CASE left # <<>>
  <2>1. Head(left) \in Posts /\ Tail(left) \in Seq(Posts)
    BY <1>2
  <2>2. Begin(Head(left), frame[w].source, TRUE) \in Frames
    BY <2>1 DEF Begin, Frames, Entries
  <2> DEFINE f == Begin(Head(left), frame[w].source, TRUE)
  <2>3. f \in Frames /\ f.source = frame[w].source
    BY <2>2 DEF Begin
  <2>4. /\ pc' = [pc EXCEPT ![w] = "assess"]
        /\ frame' = [frame EXCEPT ![w] = f]
        /\ todo' = [todo EXCEPT ![w] = Tail(left)]
    BY <1>2 DEF Walk
  <2> HIDE DEF f
  <2>5. QED BY <2>1, <2>3, <2>4 DEF Resumes, Moves, Control, Labels
<1>3. QED BY <1>1, <1>2

\* Goto keeps the frame.
LEMMA GotoMoves ==
  ASSUME NEW w \in Workers, NEW l \in Labels, Control, Goto(w, l)
  PROVE  Moves(w) /\ pc'[w] = l /\ frame' = frame /\ todo' = todo
BY DEF Goto, Moves, Control

\* So does giving w a new label and a new frame.
LEMMA SetMoves ==
  ASSUME NEW w \in Workers, NEW l \in Labels, NEW f \in Frames, Control,
         pc' = [pc EXCEPT ![w] = l], frame' = [frame EXCEPT ![w] = f],
         UNCHANGED todo
  PROVE  Moves(w)
BY DEF Moves, Control

\* What a step of w has to establish for the frames and the sources of all: that
\* w keeps its source or is done, and is done when its connection goes.
LEMMA StepKeepsFrames ==
  ASSUME TypeInv, NEW w \in Workers, Active(w), Moves(w),
         pc'[w] = "idle" \/ (frame'[w] \in Frames
                             /\ frame'[w].source = frame[w].source),
         \/ connected' = connected
         \/ connected' = connected \ {frame[w].source} /\ pc'[w] = "idle",
         FrameMeant(w)'
  PROVE  (\A v \in Workers : FrameTyped(v)' /\ FrameMeant(v)') /\ SourcesApart'
<1>1. FrameTyped(w)'
  BY DEF TypeInv, FrameTyped, Active
<1>2. ASSUME NEW v \in Workers \ {w} PROVE FrameTyped(v)' /\ FrameMeant(v)'
  <2>1. pc'[v] = pc[v] /\ frame'[v] = frame[v]
    BY <1>2 DEF Moves
  <2>2. Active(v) => frame[v].source # frame[w].source
    BY <1>2 DEF TypeInv, SourcesApart
  <2>3. FrameTyped(v)'
    BY <2>1, <2>2, <1>2 DEF TypeInv, FrameTyped, Active
  <2>4. FrameMeant(v)'
    BY <2>1, <1>2 DEF TypeInv, FrameMeant
  <2>5. QED BY <2>3, <2>4
<1>3. SourcesApart'
  BY DEF TypeInv, SourcesApart, Moves, Active
<1>4. QED BY <1>1, <1>2, <1>3

\* A worker that returns true resumes with a frame it knows nothing special of.
LEMMA ReturnTrueKeeps ==
  ASSUME TypeInv, NEW w \in Workers, Active(w), ReturnTrue(w),
         connected' = connected
  PROVE  /\ Control'
         /\ \A v \in Workers : FrameTyped(v)' /\ FrameMeant(v)'
         /\ SourcesApart'
<1>1. Control /\ frame[w] \in Frames /\ todo[w] \in Seq(Posts)
  BY DEF TypeInv, TypeOK, FrameTyped, Control
<1>2. Resumes(w)
  BY <1>1, WalkResumes DEF ReturnTrue
<1>3. FrameMeant(w)'
  BY <1>2 DEF Resumes, FrameMeant, PostLabels
<1>4. QED BY <1>2, <1>3, StepKeepsFrames DEF Resumes, Moves

\* A worker that returns false is done, and so is its connection.
LEMMA ReturnFalseKeeps ==
  ASSUME TypeInv, NEW w \in Workers, Active(w), ReturnFalse(w)
  PROVE  /\ Control'
         /\ \A v \in Workers : FrameTyped(v)' /\ FrameMeant(v)'
         /\ SourcesApart'
         /\ connected' = connected \ {frame[w].source}
<1>1. Control /\ frame[w] \in Frames /\ <<>> \in Seq(Posts)
  BY DEF TypeInv, TypeOK, FrameTyped, Control
<1>2. Resumes(w) /\ connected' = connected \ {frame[w].source}
  BY <1>1, WalkResumes DEF ReturnFalse
<1>3. pc'[w] = "idle"
  BY <1>1 DEF ReturnFalse, Walk, Control
<1>4. FrameMeant(w)'
  BY <1>3 DEF FrameMeant, PostLabels
<1>5. QED BY <1>2, <1>3, <1>4, StepKeepsFrames DEF Resumes, Moves

\* A worker that goes on to another label of the same frame.
LEMMA GotoKeeps ==
  ASSUME TypeInv, NEW w \in Workers, Active(w), NEW l \in Labels, Goto(w, l),
         connected' = connected, FrameMeant(w)'
  PROVE  /\ Control'
         /\ \A v \in Workers : FrameTyped(v)' /\ FrameMeant(v)'
         /\ SourcesApart'
<1>1. Control /\ frame[w] \in Frames
  BY DEF TypeInv, TypeOK, FrameTyped, Control
<1>2. Moves(w) /\ frame' = frame
  BY <1>1, GotoMoves
<1>3. QED BY <1>1, <1>2, StepKeepsFrames DEF Moves

-----------------------------------------------------------------------------
(* The tables give a post its true root *)

LEMMA TopIsRoot ==
  ASSUME TypeInv, NEW e \in Posts, Attached(e)
  PROVE  Top(e) = Root[e]
<1>1. CASE Parent[e] \in announced
  BY <1>1, EntryAssumption DEF TypeInv, TypeOK, Top, Announcements
<1>2. CASE Parent[e] \notin announced /\ Parent[e] \in threads
  <2>1. Parent[e] \in Posts /\ Parent[Parent[e]] \in Announcements
    BY <1>2 DEF TypeInv, TypeOK, ThreadsInChannels
  <2>2. Root[Parent[e]] = [channel |-> Parent[Parent[e]], thread |-> Parent[e]]
    BY <2>1, EntryAssumption
  <2>3. QED BY <1>2, <2>1, <2>2, EntryAssumption DEF Top
<1>3. CASE Parent[e] \notin announced /\ Parent[e] \notin threads
  <2>1. Parent[e] \in Posts /\ data[Parent[e]] # NoRow
    BY <1>3 DEF Attached, Stored
  <2>2. QED BY <1>3, <2>1, EntryAssumption DEF Top, TypeInv, RowsKnowTheirRoot
<1>4. QED BY <1>1, <1>2, <1>3

\* Only the posts of a channel are threads.
LEMMA ThreadsHaveChannels ==
  ASSUME NEW e \in Posts, Root[e].thread = e
  PROVE  Parent[e] \in Announcements
BY EntryAssumption DEF Entries, Announcements

\* detached::reject keeps the cache well-typed.
LEMMA RejectTyped ==
  ASSUME detached \in [Entries -> Seq(Posts)], NEW e \in Entries, Reject(e)
  PROVE  detached' \in [Entries -> Seq(Posts)]
<1>1. <<>> \in Seq(Posts)
  OBVIOUS
<1>2. QED BY <1>1 DEF Reject

-----------------------------------------------------------------------------
(* Each action keeps TypeInv *)

LEMMA InitTypeInv == Init => TypeInv
<1> SUFFICES ASSUME Init PROVE TypeInv
  OBVIOUS
<1>1. <<>> \in Seq(Posts)
  OBVIOUS
<1>2. TypeOK
  BY <1>1, EntryAssumption, SettingAssumption DEF Init, TypeOK, Labels
<1>3. \A w \in Workers : FrameTyped(w) /\ FrameMeant(w)
  BY DEF Init, FrameTyped, FrameMeant, Active, PostLabels
<1>4. SourcesApart
  BY DEF Init, SourcesApart, Active
<1>5. WithinLimits
  BY SettingAssumption DEF Init, WithinLimits
<1>6. ThreadsInChannels /\ RowsKnowTheirRoot
  BY DEF Init, ThreadsInChannels, RowsKnowTheirRoot
<1>7. QED BY <1>2, <1>3, <1>4, <1>5, <1>6 DEF TypeInv

\* Starting on an entry from a source nobody serves.
LEMMA StartKeeps ==
  ASSUME TypeInv, NEW w \in Workers, NEW e \in Entries,
         NEW s \in connected \cup {Local}, Arrive(w, e, s), Start(w, e, s),
         connected' = connected
  PROVE  /\ Control'
         /\ \A v \in Workers : FrameTyped(v)' /\ FrameMeant(v)'
         /\ SourcesApart'
<1> DEFINE f == Begin(e, s, FALSE)
<1>1. f \in Frames /\ f.source = s
  BY DEF Begin, Frames, Sources, TypeInv, TypeOK
<1>2. pc' = [pc EXCEPT ![w] = "assess"] /\ frame' = [frame EXCEPT ![w] = f]
      /\ todo' = todo
  BY DEF Start
<1> HIDE DEF f
<1>3. Control'
  BY <1>1, <1>2 DEF TypeInv, TypeOK, Control, Labels
<1>4. \A v \in Workers : FrameTyped(v)'
  BY <1>1, <1>2 DEF TypeInv, TypeOK, FrameTyped, Active
<1>5. \A v \in Workers : FrameMeant(v)'
  BY <1>1, <1>2 DEF TypeInv, TypeOK, FrameMeant, PostLabels
<1>6. SourcesApart'
  BY <1>1, <1>2 DEF TypeInv, TypeOK, SourcesApart, Active, Arrive, Busy
<1>7. QED BY <1>3, <1>4, <1>5, <1>6

LEMMA ArriveTyped ==
  ASSUME TypeInv, NEW w \in Workers, NEW e \in Entries, NEW s \in Sources,
         Arrive(w, e, s)
  PROVE  copies' \in [Entries -> Nat]
BY SettingAssumption, SMTT(30) DEF TypeInv, TypeOK, Arrive

LEMMA SubmitKeeps ==
  ASSUME TypeInv, NEW w \in Workers, NEW e \in Entries, Submit(w, e)
  PROVE  TypeInv'
<1>1. connected' = connected
  BY DEF Submit, peers
<1>2. Control' /\ (\A v \in Workers : FrameTyped(v)' /\ FrameMeant(v)') /\ SourcesApart'
  BY <1>1, StartKeeps DEF Submit
<1>3. copies' \in [Entries -> Nat]
  BY ArriveTyped DEF Submit, Sources
<1>4. TypeOK'
  BY <1>2, <1>3 DEF TypeInv, TypeOK, Control, Submit, tables, caches, peers
<1>5. WithinLimits' /\ ThreadsInChannels' /\ RowsKnowTheirRoot'
  BY DEF TypeInv, WithinLimits, ThreadsInChannels, RowsKnowTheirRoot,
         Submit, tables, peers
<1>6. QED BY <1>2, <1>4, <1>5 DEF TypeInv

LEMMA ReceiveKeeps ==
  ASSUME TypeInv, NEW w \in Workers, NEW c \in Connections, NEW e \in Entries,
         Receive(w, c, e)
  PROVE  TypeInv'
<1>1. copies' \in [Entries -> Nat]
  BY ArriveTyped DEF Receive, Sources
<1>2. connected' = connected \/ connected' = connected \ {c}
  BY DEF Receive
<1>3. Control' /\ (\A v \in Workers : FrameTyped(v)' /\ FrameMeant(v)') /\ SourcesApart'
  <2>1. CASE UNCHANGED control
    <3>1. \A v \in Workers : Active(v) => frame[v].source # c
      BY DEF Receive, Arrive, Busy, Active
    <3>2. pc' = pc /\ frame' = frame /\ todo' = todo
      BY <2>1 DEF control
    <3>3. QED BY <1>2, <3>1, <3>2 DEF TypeInv, TypeOK, Control, FrameTyped,
              FrameMeant, SourcesApart, Active
  <2>2. CASE Start(w, e, c) /\ connected' = connected
    BY <2>2, StartKeeps DEF Receive
  <2>3. QED BY <2>1, <2>2 DEF Receive
<1>4. refused' \subseteq Entries
  BY DEF Receive, TypeInv, TypeOK
<1>5. TypeOK'
  BY <1>1, <1>2, <1>3, <1>4 DEF TypeInv, TypeOK, Control, Receive, tables, history
<1>6. WithinLimits' /\ ThreadsInChannels' /\ RowsKnowTheirRoot'
  BY <1>2 DEF TypeInv, WithinLimits, ThreadsInChannels, RowsKnowTheirRoot,
         Receive, tables
<1>7. QED BY <1>3, <1>5, <1>6 DEF TypeInv

\* Each action below leaves the tables alone unless it says otherwise.
LEMMA TablesKept ==
  ASSUME TypeInv, UNCHANGED tables
  PROVE  ThreadsInChannels' /\ RowsKnowTheirRoot'
BY DEF TypeInv, tables, ThreadsInChannels, RowsKnowTheirRoot

LEMMA AssessKeeps ==
  ASSUME TypeInv, NEW w \in Workers, Assess(w)
  PROVE  TypeInv'
<1> DEFINE e == frame[w].entry
           old == Older(Timestamp[e], MaxAge)
<1>1. Active(w) /\ frame[w] \in Frames /\ e \in Entries
  BY DEF Assess, Active, TypeInv, FrameTyped, Frames
<1>2. connected' = connected /\ UNCHANGED tables
  BY DEF Assess, peers
<1>3. old \in BOOLEAN
  BY DEF Older
<1>4. Control' /\ (\A v \in Workers : FrameTyped(v)' /\ FrameMeant(v)') /\ SourcesApart'
  <2>1. CASE ReturnTrue(w)
    BY <2>1, <1>1, <1>2, ReturnTrueKeeps
  <2>2. CASE Goto(w, "strike") /\ frame[w].source # Local
    <3>1. pc' = [pc EXCEPT ![w] = "strike"] /\ frame' = frame
      BY <2>2 DEF Goto
    <3>2. pc'[w] = "strike"
      BY <3>1 DEF TypeInv, TypeOK
    <3>3. FrameMeant(w)'
      BY <2>2, <3>1, <3>2 DEF FrameMeant, PostLabels
    <3>4. "strike" \in Labels
      BY DEF Labels
    <3>5. QED BY <2>2, <3>3, <3>4, <1>1, <1>2, GotoKeeps
  <2>3. ASSUME NEW l \in {"insert", "gate", "parent"}, NEW top \in Roots \cup {NoRow},
               pc' = [pc EXCEPT ![w] = l],
               frame' = [frame EXCEPT ![w].old = old, ![w].top = top],
               UNCHANGED todo,
               l # "insert" => e \in Posts,
               l = "gate" \/ (l = "insert" /\ e \in Posts) => top = Root[e]
        PROVE  Control' /\ (\A v \in Workers : FrameTyped(v)' /\ FrameMeant(v)')
               /\ SourcesApart'
    <3> DEFINE g == [frame[w] EXCEPT !.old = old, !.top = top]
    <3>1. frame' = [frame EXCEPT ![w] = g]
      BY <2>3 DEF TypeInv, TypeOK
    <3>2. g \in Frames /\ g.source = frame[w].source /\ g.entry = e /\ g.top = top
      BY <1>1, <1>3 DEF Frames
    <3> HIDE DEF g, old
    <3>3. pc'[w] = l /\ frame'[w] = g
      BY <2>3, <3>1 DEF TypeInv, TypeOK
    <3>4. Moves(w)
      <4>1. Control /\ l \in Labels
        BY DEF TypeInv, TypeOK, Control, Labels
      <4>2. pc' = [pc EXCEPT ![w] = l] /\ UNCHANGED todo
        BY <2>3
      <4>3. QED BY <4>1, <4>2, <3>1, <3>2, SetMoves
    <3>5. FrameMeant(w)'
      BY <2>3, <3>2, <3>3 DEF FrameMeant, PostLabels
    <3>6. QED BY <1>1, <1>2, <3>2, <3>3, <3>4, <3>5, StepKeepsFrames DEF Moves
  <2>4. e \in Announcements => e \notin Posts
    BY EntryAssumption
  <2>5. ASSUME e \in Posts, Attached(e) PROVE Top(e) = Root[e] /\ Top(e) \in Roots
    BY <2>5, TopIsRoot, EntryAssumption
  <2>6. QED BY <2>1, <2>2, <2>3, <2>4, <2>5 DEF Assess
<1>5. TypeOK'
  BY <1>4 DEF Assess, TypeInv, TypeOK, Control, tables, caches, peers, history
<1>6. WithinLimits'
  BY DEF Assess, TypeInv, WithinLimits, peers
<1>7. QED BY <1>2, <1>4, <1>5, <1>6, TablesKept DEF TypeInv

LEMMA StrikeKeeps ==
  ASSUME TypeInv, NEW w \in Workers, Strike(w)
  PROVE  TypeInv'
<1> DEFINE s == frame[w].source
<1>1. Active(w) /\ frame[w] \in Frames /\ s \in connected /\ s \in Connections
  BY DEF Strike, Active, TypeInv, TypeOK, FrameTyped, FrameMeant
<1>2. UNCHANGED tables
  BY DEF Strike
<1>3. rejected[s] \in 0 .. MaxRejected /\ MaxRejected \in Nat
  BY <1>1, SettingAssumption DEF TypeInv, TypeOK, WithinLimits
<1>4. \/ connected' = connected /\ rejected[s] + 1 <= MaxRejected
      \/ connected' = connected \ {s}
  BY <1>3 DEF Strike, Exceeds, ReturnFalse
<1>5. Control' /\ (\A v \in Workers : FrameTyped(v)' /\ FrameMeant(v)') /\ SourcesApart'
  <2>1. CASE ReturnFalse(w)
    BY <2>1, <1>1, ReturnFalseKeeps
  <2>2. CASE ReturnTrue(w) /\ connected' = connected
    BY <2>2, <1>1, ReturnTrueKeeps
  <2>3. QED BY <2>1, <2>2 DEF Strike
<1>6. detached' \in [Entries -> Seq(Posts)]
  BY <1>1, RejectTyped DEF Strike, TypeInv, TypeOK, Frames
<1>7. rejected' = [rejected EXCEPT ![s] = rejected[s] + 1]
  BY DEF Strike
<1>8. rejected' \in [Connections -> 0 .. MaxRejected + 1]
  BY <1>1, <1>3, <1>7 DEF TypeInv, TypeOK
<1>9. WithinLimits'
  BY <1>1, <1>4, <1>7 DEF Strike, TypeInv, TypeOK, WithinLimits
<1>10. TypeOK'
  BY <1>4, <1>5, <1>6, <1>8 DEF Strike, TypeInv, TypeOK, Control, tables, history
<1>11. QED BY <1>2, <1>5, <1>9, <1>10, TablesKept DEF TypeInv

LEMMA CheckParentKeeps ==
  ASSUME TypeInv, NEW w \in Workers, CheckParent(w)
  PROVE  TypeInv'
<1>1. Active(w) /\ connected' = connected /\ UNCHANGED tables
  BY DEF CheckParent, Active, peers
<1>2. PICK l \in {"refuse", "detach"} : Goto(w, l)
  BY DEF CheckParent
<1>3. l \in Labels
  BY DEF Labels
<1>4. pc'[w] = l /\ frame' = frame
  BY <1>2 DEF Goto, TypeInv, TypeOK
<1>5. FrameMeant(w)'
  BY <1>4 DEF FrameMeant, PostLabels, CheckParent, TypeInv
<1>6. Control' /\ (\A v \in Workers : FrameTyped(v)' /\ FrameMeant(v)') /\ SourcesApart'
  BY <1>1, <1>2, <1>3, <1>5, GotoKeeps
<1>7. TypeOK' /\ WithinLimits'
  BY <1>6 DEF CheckParent, TypeInv, TypeOK, WithinLimits, Control, tables, caches,
              peers, history
<1>8. QED BY <1>1, <1>6, <1>7, TablesKept DEF TypeInv

LEMMA RefuseKeeps ==
  ASSUME TypeInv, NEW w \in Workers, Refuse(w)
  PROVE  TypeInv'
<1>1. Active(w) /\ connected' = connected /\ UNCHANGED tables
  BY DEF Refuse, Active, peers
<1>2. frame[w].entry \in Entries
  BY <1>1 DEF TypeInv, FrameTyped, Frames
<1>3. pc'[w] = "drop" /\ "drop" \in Labels
  BY DEF Refuse, Goto, TypeInv, TypeOK, Labels
<1>4. FrameMeant(w)'
  BY <1>3 DEF FrameMeant, PostLabels
<1>5. Control' /\ (\A v \in Workers : FrameTyped(v)' /\ FrameMeant(v)') /\ SourcesApart'
  BY <1>1, <1>3, <1>4, GotoKeeps DEF Refuse
<1>6. TypeOK' /\ WithinLimits'
  BY <1>2, <1>5 DEF Refuse, TypeInv, TypeOK, WithinLimits, Control, tables, peers,
              history
<1>7. QED BY <1>1, <1>5, <1>6, TablesKept DEF TypeInv

LEMMA DropKeeps ==
  ASSUME TypeInv, NEW w \in Workers, Drop(w)
  PROVE  TypeInv'
<1>1. Active(w) /\ connected' = connected /\ UNCHANGED tables
  BY DEF Drop, Active, peers
<1>2. Control' /\ (\A v \in Workers : FrameTyped(v)' /\ FrameMeant(v)') /\ SourcesApart'
  BY <1>1, ReturnTrueKeeps DEF Drop
<1>3. detached' \in [Entries -> Seq(Posts)]
  BY <1>1, RejectTyped DEF Drop, TypeInv, TypeOK, FrameTyped, Frames
<1>4. TypeOK' /\ WithinLimits'
  BY <1>2, <1>3 DEF Drop, TypeInv, TypeOK, WithinLimits, Control, tables, peers,
              history
<1>5. QED BY <1>1, <1>2, <1>4, TablesKept DEF TypeInv

LEMMA DetachKeeps ==
  ASSUME TypeInv, NEW w \in Workers, Detach(w)
  PROVE  TypeInv'
<1> DEFINE e == frame[w].entry
<1>1. Active(w) /\ connected' = connected /\ UNCHANGED tables /\ e \in Posts
  BY DEF Detach, Active, peers, TypeInv, FrameMeant, PostLabels
<1>2. Control' /\ (\A v \in Workers : FrameTyped(v)' /\ FrameMeant(v)') /\ SourcesApart'
  BY <1>1, ReturnTrueKeeps DEF Detach
<1>3. e \in Entries /\ Parent[e] \in Entries
  BY <1>1, EntryAssumption DEF Entries
<1>4. detached' = [detached EXCEPT ![Parent[e]] = Append(detached[Parent[e]], e)]
  BY DEF Detach
<1>5. detached' \in [Entries -> Seq(Posts)]
  BY <1>1, <1>3, <1>4 DEF TypeInv, TypeOK
<1>6. floods' \in [Entries -> Nat]
  <2>1. floods \in [Entries -> Nat] /\ floods[e] + 1 \in Nat
    <3>1. floods \in [Entries -> Nat]
      BY DEF TypeInv, TypeOK
    <3>2. floods[e] \in Nat
      BY <1>3, <3>1
    <3>3. QED BY <3>1, <3>2
  <2>2. floods' = floods \/ floods' = [floods EXCEPT ![e] = floods[e] + 1]
    BY DEF Detach
  <2>3. QED BY <1>3, <2>1, <2>2
<1>7. TypeOK' /\ WithinLimits'
  BY <1>2, <1>5, <1>6 DEF Detach, TypeInv, TypeOK, WithinLimits, Control, tables, peers
<1>8. QED BY <1>1, <1>2, <1>7, TablesKept DEF TypeInv

LEMMA RelayTyped ==
  ASSUME TypeInv, NEW f \in Frames, NEW wish, Relay(f, wish)
  PROVE  relays' \in [Entries -> Nat]
BY DEF Relay, TypeInv, TypeOK, Frames

LEMMA GateKeeps ==
  ASSUME TypeInv, NEW w \in Workers, Gate(w)
  PROVE  TypeInv'
<1> DEFINE f == frame[w]
           s == frame[w].source
           Same == UNCHANGED <<connected, unsolicited, relays>>
           Frames1 == /\ Control'
                      /\ \A v \in Workers : FrameTyped(v)' /\ FrameMeant(v)'
                      /\ SourcesApart'
           Peers1 == /\ connected' \subseteq connected
                     /\ unsolicited' \in [Connections -> 0 .. MaxUnsolicited + 1]
                     /\ relays' \in [Entries -> Nat]
                     /\ \A c \in connected' : unsolicited'[c] <= MaxUnsolicited
<1>1. /\ pc[w] = "gate" /\ Active(w) /\ UNCHANGED tables
      /\ f \in Frames /\ f.entry \in Posts /\ f.top = Root[f.entry]
      /\ s \in connected \cup {Local}
  BY DEF Gate, Active, TypeInv, FrameTyped, FrameMeant, PostLabels
<1>2. CASE ReturnTrue(w) /\ Same
  <2>1. Frames1
    BY <1>1, <1>2, ReturnTrueKeeps
  <2>2. Peers1
    BY <1>2 DEF TypeInv, TypeOK, WithinLimits
  <2>3. QED BY <1>1, <2>1, <2>2, TablesKept DEF Gate, TypeInv, TypeOK, WithinLimits,
            Control, tables, Frames
<1>3. ASSUME NEW l \in {"weak", "refuse"}, Goto(w, l), Same PROVE TypeInv'
  <2>1. l \in Labels
    BY DEF Labels
  <2>2. pc'[w] = l /\ frame' = frame
    BY <1>3 DEF Goto, TypeInv, TypeOK
  <2>3. FrameMeant(w)'
    BY <1>1, <2>2 DEF FrameMeant, PostLabels
  <2>4. Frames1
    BY <1>1, <1>3, <2>1, <2>3, GotoKeeps
  <2>5. Peers1
    BY <1>3 DEF TypeInv, TypeOK, WithinLimits
  <2>6. QED BY <1>1, <2>4, <2>5, TablesKept DEF Gate, TypeInv, TypeOK, WithinLimits,
            Control, tables, Frames
<1>4. ASSUME ~Wanted(f),
             unsolicited' = IF NetworkPropagation THEN unsolicited
                            ELSE [unsolicited EXCEPT ![f.source] = @ + 1],
             IF Exceeds(unsolicited'[f.source], MaxUnsolicited)
             THEN ReturnFalse(w) /\ UNCHANGED relays
             ELSE ReturnTrue(w) /\ Relay(f, TRUE) /\ UNCHANGED connected
      PROVE  TypeInv'
  <2>1. s \in connected /\ s \in Connections
    BY <1>1, <1>4 DEF Wanted, TypeInv, TypeOK
  <2>2. Frames1 /\ (connected' = connected \/ connected' = connected \ {s})
    BY <1>1, <1>4, ReturnTrueKeeps, ReturnFalseKeeps
  <2>3. relays' \in [Entries -> Nat]
    BY <1>1, <1>4, RelayTyped DEF TypeInv, TypeOK
  <2>4. unsolicited[s] \in 0 .. MaxUnsolicited /\ MaxUnsolicited \in Nat
    BY <2>1, SettingAssumption DEF TypeInv, TypeOK, WithinLimits
  <2>5. unsolicited' \in [Connections -> 0 .. MaxUnsolicited + 1]
    BY <1>4, <2>1, <2>4 DEF TypeInv, TypeOK
  <2>6. \A c \in connected' : unsolicited'[c] <= MaxUnsolicited
    <3>1. ~Exceeds(unsolicited'[s], MaxUnsolicited) => unsolicited'[s] <= MaxUnsolicited
      BY <2>1, <2>4, <2>5 DEF Exceeds
    <3>2. Exceeds(unsolicited'[s], MaxUnsolicited) => s \notin connected'
      BY <1>4 DEF ReturnFalse
    <3>3. \A c \in connected \ {s} : unsolicited'[c] = unsolicited[c]
      BY <1>4, <2>1 DEF TypeInv, TypeOK
    <3>4. QED BY <2>2, <3>1, <3>2, <3>3 DEF TypeInv, WithinLimits
  <2>7. Peers1
    BY <2>2, <2>3, <2>5, <2>6
  <2>8. QED BY <1>1, <2>2, <2>7, TablesKept DEF Gate, TypeInv, TypeOK, WithinLimits,
            Control, tables, Frames
<1>5. ASSUME pc' = [pc EXCEPT ![w] = IF IsThread(f) THEN "thread" ELSE "insert"],
             frame' = [frame EXCEPT ![w].gated = TRUE],
             UNCHANGED todo, Same
      PROVE  TypeInv'
  <2> DEFINE g == [f EXCEPT !.gated = TRUE]
             l == IF IsThread(f) THEN "thread" ELSE "insert"
  <2>1. /\ g \in Frames /\ g.source = s /\ g.entry = f.entry /\ g.top = f.top
    BY <1>1 DEF Frames
  <2>2. frame' = [frame EXCEPT ![w] = g] /\ pc' = [pc EXCEPT ![w] = l]
    BY <1>5 DEF TypeInv, TypeOK
  <2>3. l \in Labels /\ l # "strike"
    BY DEF Labels
  <2>4. l = "thread" => Parent[f.entry] \in Announcements
    BY <1>1, ThreadsHaveChannels DEF IsThread
  <2> HIDE DEF g, l
  <2>5. Moves(w)
    BY <1>5, <2>1, <2>2, <2>3, SetMoves DEF TypeInv, TypeOK, Control
  <2>6. frame'[w] = g /\ pc'[w] = l
    BY <2>2 DEF TypeInv, TypeOK
  <2>7. FrameMeant(w)'
    BY <1>1, <2>1, <2>3, <2>4, <2>6 DEF FrameMeant
  <2>8. Frames1
    BY <1>1, <1>5, <2>1, <2>5, <2>6, <2>7, StepKeepsFrames DEF Moves
  <2>9. Peers1
    BY <1>5 DEF TypeInv, TypeOK, WithinLimits
  <2>10. QED BY <1>1, <2>8, <2>9, TablesKept DEF Gate, TypeInv, TypeOK, WithinLimits,
             Control, tables, Frames
<1>6. \/ ReturnTrue(w) /\ Same
      \/ (Goto(w, "weak") \/ Goto(w, "refuse")) /\ Same
      \/ /\ ~Wanted(f)
         /\ unsolicited' = IF NetworkPropagation THEN unsolicited
                           ELSE [unsolicited EXCEPT ![f.source] = @ + 1]
         /\ IF Exceeds(unsolicited'[f.source], MaxUnsolicited)
            THEN ReturnFalse(w) /\ UNCHANGED relays
            ELSE ReturnTrue(w) /\ Relay(f, TRUE) /\ UNCHANGED connected
      \/ /\ pc' = [pc EXCEPT ![w] = IF IsThread(f) THEN "thread" ELSE "insert"]
         /\ frame' = [frame EXCEPT ![w].gated = TRUE]
         /\ UNCHANGED todo /\ Same
  BY DEF Gate
<1>7. CASE (Goto(w, "weak") \/ Goto(w, "refuse")) /\ Same
  BY <1>3, <1>7
<1>8. QED BY <1>2, <1>4, <1>5, <1>6, <1>7

LEMMA RefuseThreadKeeps ==
  ASSUME TypeInv, NEW w \in Workers, RefuseThread(w)
  PROVE  TypeInv'
<1>1. Active(w) /\ UNCHANGED tables /\ frame[w].entry \in Entries
  BY DEF RefuseThread, Active, TypeInv, FrameTyped, Frames
<1>2. connected' = connected \/ connected' = connected \ {frame[w].source}
  BY DEF RefuseThread, ReturnFalse
<1>3. Control' /\ (\A v \in Workers : FrameTyped(v)' /\ FrameMeant(v)') /\ SourcesApart'
  BY <1>1, ReturnTrueKeeps, ReturnFalseKeeps DEF RefuseThread
<1>4. TypeOK' /\ WithinLimits'
  BY <1>1, <1>2, <1>3 DEF RefuseThread, TypeInv, TypeOK, WithinLimits, Control,
              tables, history
<1>5. QED BY <1>1, <1>3, <1>4, TablesKept DEF TypeInv

LEMMA InsertThreadKeeps ==
  ASSUME TypeInv, NEW w \in Workers, InsertThread(w)
  PROVE  TypeInv'
<1> DEFINE e == frame[w].entry
<1>1. /\ pc[w] = "thread" /\ Active(w) /\ connected' = connected
      /\ e \in Posts /\ frame[w].top = Root[e] /\ Parent[e] \in Announcements
  BY DEF InsertThread, Active, peers, TypeInv, FrameMeant, PostLabels
<1>2. Control' /\ (\A v \in Workers : FrameTyped(v)' /\ FrameMeant(v)') /\ SourcesApart'
  <2>1. CASE ReturnTrue(w)
    BY <1>1, <2>1, ReturnTrueKeeps
  <2>2. CASE Goto(w, "insert")
    <3>1. pc'[w] = "insert" /\ frame' = frame /\ "insert" \in Labels
      BY <2>2 DEF Goto, TypeInv, TypeOK, Labels
    <3>2. FrameMeant(w)'
      BY <1>1, <3>1 DEF FrameMeant, PostLabels
    <3>3. QED BY <1>1, <2>2, <3>1, <3>2, GotoKeeps
  <2>3. QED BY <2>1, <2>2 DEF InsertThread
<1>3. threads' = threads \/ threads' = threads \cup {e}
  BY DEF InsertThread
<1>4. TypeOK' /\ WithinLimits'
  BY <1>1, <1>2, <1>3 DEF InsertThread, TypeInv, TypeOK, WithinLimits, Control,
              caches, peers, history
<1>5. ThreadsInChannels' /\ RowsKnowTheirRoot'
  BY <1>1, <1>3 DEF InsertThread, TypeInv, ThreadsInChannels, RowsKnowTheirRoot
<1>6. QED BY <1>2, <1>4, <1>5 DEF TypeInv

LEMMA InsertKeeps ==
  ASSUME TypeInv, NEW w \in Workers, Insert(w)
  PROVE  TypeInv'
<1> DEFINE f == frame[w]
           e == f.entry
<1>1. /\ pc[w] = "insert" /\ Active(w) /\ connected' = connected
      /\ f \in Frames /\ e \in Entries
      /\ e \in Posts => f.top = Root[e]
  BY DEF Insert, Active, peers, TypeInv, FrameTyped, FrameMeant, Frames
<1>2. Control' /\ (\A v \in Workers : FrameTyped(v)' /\ FrameMeant(v)') /\ SourcesApart'
  <2>1. CASE ReturnTrue(w)
    BY <1>1, <2>1, ReturnTrueKeeps
  <2>2. ASSUME NEW l \in {"accept", "remember"}, Goto(w, l)
        PROVE  Control' /\ (\A v \in Workers : FrameTyped(v)' /\ FrameMeant(v)')
               /\ SourcesApart'
    <3>1. pc'[w] = l /\ l \in Labels
      BY <2>2 DEF Goto, TypeInv, TypeOK, Labels
    <3>2. FrameMeant(w)'
      BY <3>1 DEF FrameMeant, PostLabels
    <3>3. QED BY <1>1, <2>2, <3>1, <3>2, GotoKeeps
  <2>3. QED BY <2>1, <2>2 DEF Insert
<1>3. \/ UNCHANGED <<announced, data>>
      \/ e \in Posts /\ data' = [data EXCEPT ![e] = f.top] /\ announced' = announced
      \/ e \notin Posts /\ announced' = announced \cup {e} /\ data' = data
  BY DEF Insert
<1>4. /\ announced' \subseteq Announcements
      /\ data' \in [Posts -> Roots \cup {NoRow}]
      /\ RowsKnowTheirRoot'
  <2>1. e \in Posts => f.top \in Roots
    BY <1>1, EntryAssumption
  <2>2. e \notin Posts => e \in Announcements
    BY <1>1 DEF Entries
  <2>3. QED BY <1>1, <1>3, <2>1, <2>2 DEF TypeInv, TypeOK, RowsKnowTheirRoot
<1>5. relays' \in [Entries -> Nat]
  BY <1>1, RelayTyped DEF Insert, TypeInv, TypeOK
<1>6. TypeOK' /\ WithinLimits' /\ ThreadsInChannels'
  BY <1>2, <1>4, <1>5 DEF Insert, TypeInv, TypeOK, WithinLimits, Control,
              ThreadsInChannels, caches, peers
<1>7. QED BY <1>2, <1>4, <1>6 DEF TypeInv

LEMMA RememberKeeps ==
  ASSUME TypeInv, NEW w \in Workers, Remember(w)
  PROVE  TypeInv'
<1> DEFINE f == frame[w]
<1>1. /\ Active(w) /\ connected' = connected /\ UNCHANGED tables
      /\ f \in Frames /\ f.entry \in Entries
  BY DEF Remember, Active, peers, TypeInv, FrameTyped, Frames
<1>2. Control' /\ (\A v \in Workers : FrameTyped(v)' /\ FrameMeant(v)') /\ SourcesApart'
  <2>1. CASE ReturnTrue(w)
    BY <1>1, <2>1, ReturnTrueKeeps
  <2>2. CASE Goto(w, "accept")
    <3>1. pc'[w] = "accept" /\ "accept" \in Labels
      BY <2>2 DEF Goto, TypeInv, TypeOK, Labels
    <3>2. FrameMeant(w)'
      BY <3>1 DEF FrameMeant, PostLabels
    <3>3. QED BY <1>1, <2>2, <3>1, <3>2, GotoKeeps
  <2>3. QED BY <2>1, <2>2 DEF Remember
<1>3. relays' \in [Entries -> Nat]
  BY <1>1, RelayTyped DEF Remember, TypeInv, TypeOK
<1>4. TypeOK' /\ WithinLimits'
  BY <1>1, <1>2, <1>3 DEF Remember, TypeInv, TypeOK, WithinLimits, Control,
              tables, peers
<1>5. QED BY <1>1, <1>2, <1>4, TablesKept DEF TypeInv

LEMMA AcceptKeeps ==
  ASSUME TypeInv, NEW w \in Workers, Accept(w)
  PROVE  TypeInv'
<1> DEFINE e == frame[w].entry
<1>1. /\ Active(w) /\ connected' = connected /\ UNCHANGED tables
      /\ frame[w] \in Frames /\ e \in Entries
  BY DEF Accept, Active, peers, TypeInv, FrameTyped, Frames
<1>2. /\ Control /\ detached[e] \in Seq(Posts) /\ todo[w] \in Seq(Posts)
      /\ <<>> \in Seq(Posts)
  BY <1>1 DEF TypeInv, TypeOK, Control
<1>3. detached[e] \o todo[w] \in Seq(Posts)
  BY <1>2
<1>4. Resumes(w)
  BY <1>1, <1>2, <1>3, WalkResumes DEF Accept
<1>5. FrameMeant(w)'
  BY <1>4 DEF Resumes, FrameMeant, PostLabels
<1>6. Control' /\ (\A v \in Workers : FrameTyped(v)' /\ FrameMeant(v)') /\ SourcesApart'
  BY <1>1, <1>4, <1>5, StepKeepsFrames DEF Resumes, Moves
<1>7. detached' \in [Entries -> Seq(Posts)]
  BY <1>1, <1>2 DEF Accept, TypeInv, TypeOK
<1>8. TypeOK' /\ WithinLimits'
  BY <1>6, <1>7 DEF Accept, TypeInv, TypeOK, WithinLimits, Control, tables, peers,
              history
<1>9. QED BY <1>1, <1>6, <1>8, TablesKept DEF TypeInv

\* The coordinator, the user and the clock leave the workers where they are.
LEMMA ControlKept ==
  ASSUME TypeInv, UNCHANGED <<control, peers>>
  PROVE  /\ Control' /\ SourcesApart' /\ WithinLimits'
         /\ \A v \in Workers : FrameTyped(v)' /\ FrameMeant(v)'
BY DEF TypeInv, TypeOK, Control, SourcesApart, WithinLimits, FrameTyped, FrameMeant,
       Active, control, peers

LEMMA CleanKeeps ==
  ASSUME TypeInv, Clean
  PROVE  TypeInv'
<1>1. UNCHANGED <<control, peers>> /\ UNCHANGED tables
  BY DEF Clean
<1>2. <<>> \in Seq(Posts)
  OBVIOUS
<1>3. detached' \in [Entries -> Seq(Posts)]
  BY <1>2 DEF Clean, TypeInv, TypeOK
<1>4. lives' \in [Entries -> Nat]
  BY DEF Clean, TypeInv, TypeOK
<1>5. TypeOK'
  BY <1>1, <1>3, <1>4, ControlKept DEF Clean, TypeInv, TypeOK, Control, tables, peers
<1>6. QED BY <1>1, <1>5, ControlKept, TablesKept DEF TypeInv

LEMMA EraseKeeps ==
  ASSUME TypeInv, NEW e \in Entries, Erase(e)
  PROVE  TypeInv'
<1>1. UNCHANGED <<control, peers>>
  BY DEF Erase
<1>2. TypeOK'
  BY <1>1, ControlKept DEF Erase, TypeInv, TypeOK, Control, caches, peers
<1>3. ThreadsInChannels' /\ RowsKnowTheirRoot'
  BY DEF Erase, TypeInv, TypeOK, ThreadsInChannels, RowsKnowTheirRoot
<1>4. QED BY <1>1, <1>2, <1>3, ControlKept DEF TypeInv

LEMMA TickKeeps ==
  ASSUME TypeInv, Tick
  PROVE  TypeInv'
<1>1. UNCHANGED <<control, peers>> /\ UNCHANGED tables
  BY DEF Tick
<1>2. now' \in 0 .. MaxNow
  BY SettingAssumption DEF Tick, TypeInv, TypeOK
<1>3. TypeOK'
  BY <1>1, <1>2, ControlKept DEF Tick, TypeInv, TypeOK, Control, tables, caches,
              peers, history
<1>4. QED BY <1>1, <1>3, ControlKept, TablesKept DEF TypeInv

LEMMA NextTypeInv == TypeInv /\ [Next]_vars => TypeInv'
<1> SUFFICES ASSUME TypeInv, [Next]_vars PROVE TypeInv'
  OBVIOUS
<1>1. CASE UNCHANGED vars
  <2>1. UNCHANGED <<control, peers>> /\ UNCHANGED tables
    BY <1>1 DEF vars
  <2>2. TypeOK'
    BY <1>1, <2>1, ControlKept DEF vars, TypeInv, TypeOK, Control, tables, caches,
              peers, history
  <2>3. QED BY <2>1, <2>2, ControlKept, TablesKept DEF TypeInv
<1>2. ASSUME NEW w \in Workers, Step(w) PROVE TypeInv'
  BY <1>2, AssessKeeps, StrikeKeeps, CheckParentKeeps, RefuseKeeps, DropKeeps,
     DetachKeeps, GateKeeps, RefuseThreadKeeps, InsertThreadKeeps, InsertKeeps,
     RememberKeeps, AcceptKeeps DEF Step
<1>3. ASSUME NEW w \in Workers, NEW e \in Entries, Submit(w, e) PROVE TypeInv'
  BY <1>3, SubmitKeeps
<1>4. ASSUME NEW w \in Workers, NEW e \in Entries, NEW c \in Connections,
             Receive(w, c, e)
      PROVE  TypeInv'
  BY <1>4, ReceiveKeeps
<1>5. CASE (\E e \in Entries : Erase(e)) \/ Clean \/ Tick
  BY <1>5, EraseKeeps, CleanKeeps, TickKeeps
<1>6. QED BY <1>1, <1>2, <1>3, <1>4, <1>5 DEF Next

LEMMA TypeInvariant == Spec => []TypeInv
<1>1. QED BY InitTypeInv, NextTypeInv, PTL DEF Spec

\* The types, with the limits on what a connection may be charged with: however
\* many workers serve the node, one that goes over a limit is dropped at once.
THEOREM TypeCorrect == Spec => []TypeOK
<1>1. TypeInv => TypeOK
  BY DEF TypeInv
<1>2. QED BY <1>1, TypeInvariant, PTL

\* Whatever the order of arrival and the interleaving of workers, every row has
\* the channel and the thread that following the parents would find.
THEOREM RootsCorrect == Spec => []RowsKnowTheirRoot
<1>1. TypeInv => RowsKnowTheirRoot
  BY DEF TypeInv
<1>2. QED BY <1>1, TypeInvariant, PTL

-----------------------------------------------------------------------------
(* The tables are closed, and refusals are final *)

\* everything that has ever been stored
Past == Stored \cup erased

\* what turns an attached post down: its size or proof, or the blacklist
Bad(e) ==
  /\ e \in Posts
  /\ \/ Root[e].thread = e /\ e \in WeakThread \cup LongThread
     \/ {Root[e].channel, Root[e].thread, e, Author[e]} \cap Blacklist # {}

Welcome(e) == /\ e \notin Forged
              /\ e \in Posts => Parent[e] \in Past
              /\ e \notin Identities => Author[e] \in announced \cup erased

\* A worker keeps what its assessment found, although tables change meanwhile.
FramePast(w) ==
  /\ pc[w] \in {"gate", "thread", "insert"} => Welcome(frame[w].entry)
  /\ pc[w] \in {"thread", "insert"} => ~Bad(frame[w].entry)
  /\ pc[w] = "weak" => Bad(frame[w].entry)
  /\ pc[w] = "refuse" =>
       /\ frame[w].entry \in Posts
       /\ Bad(frame[w].entry) \/ Parent[frame[w].entry] \in refused

PastClosed == \A e \in Past \cap Posts : Welcome(e) /\ ~Bad(e)

\* A refused post is bad or hangs from a refused one, so by PastClosed no refused
\* post has ever been stored.
RefusedClosed ==
  WeakProof = {} =>
    /\ \A e \in refused : e \in Posts /\ (Bad(e) \/ Parent[e] \in refused)
    /\ refused \cap Past = {}

PolicyInv == PastClosed /\ RefusedClosed /\ \A w \in Workers : FramePast(w)

\* A step of w leaves the control of the others alone.
LEMMA OthersStay ==
  ASSUME TypeInv, NEW w \in Workers, Step(w)
  PROVE  \A v \in Workers \ {w} : pc'[v] = pc[v] /\ frame'[v] = frame[v]
<1>1. ASSUME NEW left, Walk(w, left)
      PROVE  \A v \in Workers \ {w} : pc'[v] = pc[v] /\ frame'[v] = frame[v]
  BY <1>1 DEF Walk, TypeInv, TypeOK
<1>2. ASSUME NEW l, Goto(w, l)
      PROVE  \A v \in Workers \ {w} : pc'[v] = pc[v] /\ frame'[v] = frame[v]
  BY <1>2 DEF Goto, TypeInv, TypeOK
<1>3. CASE Assess(w)
  BY <1>1, <1>2, <1>3 DEF Assess, ReturnTrue, TypeInv, TypeOK
<1>4. CASE Gate(w)
  BY <1>1, <1>2, <1>4 DEF Gate, ReturnTrue, ReturnFalse, TypeInv, TypeOK
<1>5. CASE \/ Strike(w) \/ CheckParent(w) \/ Refuse(w) \/ Drop(w) \/ Detach(w)
           \/ RefuseThread(w) \/ InsertThread(w) \/ Insert(w) \/ Remember(w)
           \/ Accept(w)
  BY <1>1, <1>2, <1>5 DEF Strike, CheckParent, Refuse, Drop, Detach, RefuseThread,
     InsertThread, Insert, Remember, Accept, ReturnTrue, ReturnFalse
<1>6. QED BY <1>3, <1>4, <1>5 DEF Step

\* A worker that returns has no finding to keep.
LEMMA WalkForgets ==
  ASSUME TypeInv, NEW w \in Workers, NEW left, Walk(w, left)
  PROVE  FramePast(w)'
<1>1. pc'[w] \in {"idle", "assess"}
  BY DEF Walk, TypeInv, TypeOK
<1>2. QED BY <1>1 DEF FramePast

\* What suffices when the set of entries ever stored only grows.
LEMMA PastGrows ==
  ASSUME TypeInv, PolicyInv, NEW w \in Workers,
         Past \subseteq Past', (announced \cup erased) \subseteq (announced \cup erased)',
         refused \subseteq refused',
         \A v \in Workers \ {w} : pc'[v] = pc[v] /\ frame'[v] = frame[v],
         FramePast(w)'
  PROVE  \A v \in Workers : FramePast(v)'
BY DEF PolicyInv, FramePast, Welcome, Bad

LEMMA PastStays ==
  ASSUME PolicyInv, UNCHANGED <<tables, erased>>
  PROVE  /\ Past' = Past /\ (announced \cup erased)' = announced \cup erased
         /\ PastClosed'
         /\ \A e : Welcome(e)' = Welcome(e)
         /\ refused' = refused => RefusedClosed'
<1>1. Past' = Past /\ (announced \cup erased)' = announced \cup erased
  BY DEF Past, Stored, tables
<1>2. \A e : Welcome(e)' = Welcome(e)
  BY <1>1 DEF Welcome
<1>3. PastClosed'
  BY <1>1, <1>2 DEF PolicyInv, PastClosed, Bad
<1>4. ASSUME refused' = refused PROVE RefusedClosed'
  BY <1>1, <1>4 DEF PolicyInv, RefusedClosed, Bad
<1>5. QED BY <1>1, <1>2, <1>3, <1>4

\* A step of w that leaves the tables and `refused` alone.
LEMMA QuietStep ==
  ASSUME TypeInv, PolicyInv, NEW w \in Workers, Step(w),
         UNCHANGED <<tables, erased, refused>>, FramePast(w)'
  PROVE  PolicyInv'
<1>1. /\ Past' = Past /\ (announced \cup erased)' = announced \cup erased
      /\ PastClosed' /\ RefusedClosed'
  BY PastStays
<1>2. \A v \in Workers : FramePast(v)'
  BY <1>1, OthersStay, PastGrows
<1>3. QED BY <1>1, <1>2 DEF PolicyInv

LEMMA AssessPolicy ==
  ASSUME TypeInv, PolicyInv, NEW w \in Workers, Assess(w)
  PROVE  PolicyInv'
<1>0. PICK e : e = frame[w].entry
  OBVIOUS
<1>1. UNCHANGED <<tables, erased, refused>> /\ Step(w)
  BY DEF Assess, Step, caches, history
<1>2. FramePast(w)'
  <2>1. CASE ReturnTrue(w)
    BY <2>1, WalkForgets DEF ReturnTrue
  <2>2. CASE Goto(w, "strike")
    <3>1. pc'[w] = "strike"
      BY <2>2 DEF Goto, TypeInv, TypeOK
    <3>2. QED BY <3>1 DEF FramePast
  <2>3. ASSUME NEW l \in {"insert", "gate", "parent"}, NEW old, NEW top,
               pc' = [pc EXCEPT ![w] = l],
               frame' = [frame EXCEPT ![w].old = old, ![w].top = top],
               l = "parent" \/ Welcome(e), l = "insert" => e \notin Posts
        PROVE  FramePast(w)'
    <3>1. frame[w] \in Frames
      BY DEF Assess, TypeInv, FrameTyped, Active
    <3>2. pc'[w] = l /\ frame'[w].entry = e
      BY <1>0, <2>3, <3>1 DEF TypeInv, TypeOK, Frames
    <3>3. Welcome(e)' = Welcome(e) /\ Bad(e)' = Bad(e)
      BY <1>1, PastStays DEF Bad
    <3>4. l = "insert" => ~Bad(e)
      BY <2>3 DEF Bad
    <3>5. QED BY <2>3, <3>2, <3>3, <3>4 DEF FramePast, Bad, Welcome
  <2>4. Authentic(e) /\ (e \in Posts => Attached(e)) => Welcome(e)
    BY DEF Authentic, Attached, Welcome, Past
  <2>5. e \in Announcements => e \notin Posts
    BY EntryAssumption
  <2>6. QED BY <1>0, <2>1, <2>2, <2>3, <2>4, <2>5 DEF Assess
<1>3. QED BY <1>1, <1>2, QuietStep

\* Steps that end the embrace of an entry, or go on to a label nothing is
\* recorded for.
LEMMA ForgettingPolicy ==
  ASSUME TypeInv, PolicyInv, NEW w \in Workers,
         \/ Strike(w) \/ Drop(w) \/ Detach(w) \/ Remember(w) \/ Accept(w)
  PROVE  PolicyInv'
<1>1. UNCHANGED <<tables, erased, refused>> /\ Step(w)
  BY DEF Strike, Drop, Detach, Remember, Accept, Step, history, tables
<1>2. ASSUME Goto(w, "accept") PROVE FramePast(w)'
  <2>1. pc'[w] = "accept"
    BY <1>2 DEF Goto, TypeInv, TypeOK
  <2>2. QED BY <2>1 DEF FramePast
<1>3. FramePast(w)'
  BY <1>2, WalkForgets DEF Strike, Drop, Detach, Remember, Accept, ReturnTrue,
     ReturnFalse
<1>4. QED BY <1>1, <1>3, QuietStep

LEMMA CheckParentPolicy ==
  ASSUME TypeInv, PolicyInv, NEW w \in Workers, CheckParent(w)
  PROVE  PolicyInv'
<1>1. UNCHANGED <<tables, erased, refused>> /\ Step(w)
  BY DEF CheckParent, Step, caches, history
<1>2. frame[w].entry \in Posts /\ frame' = frame
  BY DEF CheckParent, Goto, TypeInv, FrameMeant, PostLabels
<1>3. pc'[w] = IF Parent[frame[w].entry] \in refused THEN "refuse" ELSE "detach"
  BY DEF CheckParent, Goto, TypeInv, TypeOK
<1>4. FramePast(w)'
  BY <1>1, <1>2, <1>3 DEF FramePast
<1>5. QED BY <1>1, <1>4, QuietStep

LEMMA GatePolicy ==
  ASSUME TypeInv, PolicyInv, NEW w \in Workers, Gate(w)
  PROVE  PolicyInv'
<1> DEFINE f == frame[w]
<1>0. PICK e : e = f.entry
  OBVIOUS
<1>1. UNCHANGED <<tables, erased, refused>> /\ Step(w)
  BY DEF Gate, Step
<1>2. /\ f \in Frames /\ e \in Posts /\ f.top = Root[e]
  BY <1>0 DEF Gate, Active, TypeInv, FrameTyped, FrameMeant, PostLabels
<1>3. Welcome(e) /\ Welcome(e)' = Welcome(e) /\ Bad(e)' = Bad(e)
  BY <1>0, <1>1, PastStays DEF PolicyInv, FramePast, Gate, Bad
<1>4. Blacklisted(f) => Bad(e)
  BY <1>0, <1>2 DEF Blacklisted, Keys, Bad
<1>5. IsThread(f) /\ e \in WeakThread \cup LongThread => Bad(e)
  BY <1>0, <1>2 DEF IsThread, Bad
<1>6. ~(IsThread(f) /\ e \in WeakThread \cup LongThread) /\ ~Blacklisted(f) => ~Bad(e)
  BY <1>0, <1>2 DEF IsThread, Bad, Blacklisted, Keys
<1>7. CASE ReturnTrue(w) \/ ReturnFalse(w)
  <2>1. FramePast(w)'
    BY <1>7, WalkForgets DEF ReturnTrue, ReturnFalse
  <2>2. QED BY <1>1, <2>1, QuietStep
<1>8. ASSUME NEW l \in {"weak", "refuse"}, Goto(w, l), Bad(e) PROVE PolicyInv'
  <2>1. pc'[w] = l /\ frame' = frame
    BY <1>8 DEF Goto, TypeInv, TypeOK
  <2>2. FramePast(w)'
    BY <1>0, <1>2, <1>3, <1>8, <2>1 DEF FramePast
  <2>3. QED BY <1>1, <2>2, QuietStep
<1>9. ASSUME NEW l \in {"thread", "insert"}, pc' = [pc EXCEPT ![w] = l],
             frame' = [frame EXCEPT ![w].gated = TRUE], ~Bad(e)
      PROVE  PolicyInv'
  <2>1. pc'[w] = l /\ frame'[w].entry = e
    BY <1>0, <1>2, <1>9 DEF TypeInv, TypeOK, Frames
  <2>2. FramePast(w)'
    BY <1>3, <1>9, <2>1 DEF FramePast, Welcome, Bad
  <2>3. QED BY <1>1, <2>2, QuietStep
<1>10. \/ ReturnTrue(w) \/ ReturnFalse(w)
       \/ Goto(w, "weak") /\ IsThread(f) /\ e \in WeakThread \cup LongThread
       \/ Goto(w, "refuse") /\ Blacklisted(f)
       \/ /\ pc' = [pc EXCEPT ![w] = IF IsThread(f) THEN "thread" ELSE "insert"]
          /\ frame' = [frame EXCEPT ![w].gated = TRUE]
          /\ ~(IsThread(f) /\ e \in WeakThread \cup LongThread) /\ ~Blacklisted(f)
  BY <1>0 DEF Gate
<1>11. QED BY <1>4, <1>5, <1>6, <1>7, <1>8, <1>9, <1>10

LEMMA RefusalPolicy ==
  ASSUME TypeInv, PolicyInv, NEW w \in Workers, Refuse(w) \/ RefuseThread(w)
  PROVE  PolicyInv'
<1> DEFINE e == frame[w].entry
<1>1. UNCHANGED <<tables, erased>> /\ Step(w) /\ refused' = refused \cup {e}
  BY DEF Refuse, RefuseThread, Step, history
<1>2. e \in Posts /\ (Bad(e) \/ Parent[e] \in refused)
  BY DEF Refuse, RefuseThread, PolicyInv, FramePast, TypeInv, FrameMeant, PostLabels
<1>3. Past' = Past /\ (announced \cup erased)' = announced \cup erased /\ PastClosed'
  BY <1>1, PastStays
<1>4. FramePast(w)'
  <2>1. CASE Goto(w, "drop")
    <3>1. pc'[w] = "drop"
      BY <2>1 DEF Goto, TypeInv, TypeOK
    <3>2. QED BY <3>1 DEF FramePast
  <2>2. QED BY <2>1, WalkForgets DEF Refuse, RefuseThread, ReturnTrue, ReturnFalse
<1>5. \A v \in Workers : FramePast(v)'
  BY <1>1, <1>3, <1>4, OthersStay, PastGrows
<1>6. RefusedClosed'
  <2> SUFFICES ASSUME WeakProof = {}
               PROVE  /\ \A d \in refused' : d \in Posts /\ (Bad(d) \/ Parent[d] \in refused')
                      /\ refused' \cap Past = {}
    BY <1>3 DEF RefusedClosed, Bad
  <2>1. \A d \in refused : d \in Posts /\ (Bad(d) \/ Parent[d] \in refused)
    BY DEF PolicyInv, RefusedClosed
  <2>2. e \notin Past
    BY <1>2 DEF PolicyInv, PastClosed, RefusedClosed, Welcome
  <2>3. QED BY <1>1, <1>2, <2>1, <2>2 DEF PolicyInv, RefusedClosed
<1>7. QED BY <1>3, <1>5, <1>6 DEF PolicyInv

\* Admitting a welcome entry keeps the tables closed and the refusals final.
LEMMA Admission ==
  ASSUME TypeInv, PolicyInv, NEW e \in Entries, Past' = Past \cup {e},
         (announced \cup erased) \subseteq (announced \cup erased)',
         refused' = refused, Welcome(e), ~Bad(e)
  PROVE  PastClosed' /\ RefusedClosed'
<1>1. \A d : Welcome(d) => Welcome(d)'
  BY DEF Welcome
<1>2. PastClosed'
  BY <1>1 DEF PolicyInv, PastClosed, Bad
<1>3. RefusedClosed'
  <2> SUFFICES ASSUME WeakProof = {}
               PROVE  /\ \A d \in refused : d \in Posts /\ (Bad(d) \/ Parent[d] \in refused)
                      /\ refused \cap (Past \cup {e}) = {}
    BY DEF RefusedClosed, Bad
  <2>1. /\ \A d \in refused : d \in Posts /\ (Bad(d) \/ Parent[d] \in refused)
        /\ refused \cap Past = {}
    BY DEF PolicyInv, RefusedClosed
  <2>2. e \notin refused
    BY <2>1 DEF Welcome
  <2>3. QED BY <2>1, <2>2
<1>4. QED BY <1>2, <1>3

\* What InsertThread and Insert do to the set of entries stored.
LEMMA InsertThreadStores ==
  ASSUME TypeInv, PolicyInv, NEW w \in Workers, InsertThread(w)
  PROVE  /\ Welcome(frame[w].entry) /\ ~Bad(frame[w].entry)
         /\ frame[w].entry \in Entries
         /\ UNCHANGED <<announced, erased, refused>>
         /\ Stored' = Stored \/ Stored' = Stored \cup {frame[w].entry}
         /\ pc'[w] \in {"idle", "assess"} \/ (pc'[w] = "insert" /\ frame' = frame)
<1>1. frame[w].entry \in Entries /\ Welcome(frame[w].entry) /\ ~Bad(frame[w].entry)
  BY DEF InsertThread, PolicyInv, FramePast, TypeInv, FrameTyped, Active, Frames
<1>2. UNCHANGED <<announced, data, erased, refused>>
  BY DEF InsertThread, caches, history
<1>3. Stored' = Stored \/ Stored' = Stored \cup {frame[w].entry}
  BY <1>2 DEF InsertThread, Stored
<1>4. pc'[w] \in {"idle", "assess"} \/ (pc'[w] = "insert" /\ frame' = frame)
  BY DEF InsertThread, Goto, ReturnTrue, Walk, TypeInv, TypeOK
<1>5. QED BY <1>1, <1>2, <1>3, <1>4

LEMMA InsertStores ==
  ASSUME TypeInv, PolicyInv, NEW w \in Workers, Insert(w)
  PROVE  /\ Welcome(frame[w].entry) /\ ~Bad(frame[w].entry)
         /\ frame[w].entry \in Entries
         /\ UNCHANGED <<threads, erased, refused>> /\ announced \subseteq announced'
         /\ Stored' = Stored \/ Stored' = Stored \cup {frame[w].entry}
         /\ pc'[w] \in {"idle", "assess", "accept", "remember"}
<1> DEFINE f == frame[w]
<1>1. /\ f \in Frames /\ f.entry \in Entries /\ Welcome(f.entry) /\ ~Bad(f.entry)
      /\ f.entry \in Posts => f.top = Root[f.entry]
  BY DEF Insert, PolicyInv, FramePast, TypeInv, FrameTyped, FrameMeant, Active, Frames
<1>2. UNCHANGED <<threads, erased, refused>>
  BY DEF Insert, caches
<1>3. \/ UNCHANGED <<announced, data>>
      \/ f.entry \in Posts /\ data' = [data EXCEPT ![f.entry] = f.top]
         /\ announced' = announced
      \/ f.entry \notin Posts /\ announced' = announced \cup {f.entry} /\ data' = data
  BY DEF Insert
<1>4. f.entry \in Posts => f.top # NoRow
  BY <1>1, EntryAssumption, NameAssumption
<1>5. Stored' = Stored \/ Stored' = Stored \cup {f.entry}
  <2>1. CASE UNCHANGED <<announced, data>>
    BY <1>2, <2>1 DEF Stored
  <2>2. CASE f.entry \in Posts /\ data' = [data EXCEPT ![f.entry] = f.top]
             /\ announced' = announced
    BY <1>2, <1>4, <2>2 DEF Stored, TypeInv, TypeOK
  <2>3. CASE f.entry \notin Posts /\ announced' = announced \cup {f.entry}
             /\ data' = data
    BY <1>2, <2>3 DEF Stored
  <2>4. QED BY <1>3, <2>1, <2>2, <2>3
<1>6. announced \subseteq announced'
  BY <1>3
<1>7. pc'[w] \in {"idle", "assess", "accept", "remember"}
  BY DEF Insert, Goto, ReturnTrue, Walk, TypeInv, TypeOK
<1>8. QED BY <1>1, <1>2, <1>5, <1>6, <1>7

LEMMA InsertionPolicy ==
  ASSUME TypeInv, PolicyInv, NEW w \in Workers, InsertThread(w) \/ Insert(w)
  PROVE  PolicyInv'
<1>0. PICK e : e = frame[w].entry
  OBVIOUS
<1>1. /\ Welcome(e) /\ ~Bad(e) /\ e \in Entries
      /\ UNCHANGED <<erased, refused>> /\ announced \subseteq announced'
      /\ Stored' = Stored \/ Stored' = Stored \cup {e}
      /\ \/ pc'[w] \in {"idle", "assess", "accept", "remember"}
         \/ pc'[w] = "insert" /\ frame' = frame
  BY <1>0, InsertThreadStores, InsertStores
<1>2. Past' = Past \/ Past' = Past \cup {e}
  BY <1>1 DEF Past
<1>3. (announced \cup erased) \subseteq (announced \cup erased)'
  BY <1>1
<1>4. PastClosed' /\ RefusedClosed'
  <2>1. CASE Past' = Past
    <3>1. \A d : Welcome(d) => Welcome(d)'
      BY <1>3, <2>1 DEF Welcome
    <3>2. QED BY <1>1, <2>1, <3>1 DEF PolicyInv, PastClosed, RefusedClosed, Bad
  <2>2. CASE Past' = Past \cup {e}
    BY <1>1, <1>3, <2>2, Admission
  <2>3. QED BY <1>2, <2>1, <2>2
<1>5. FramePast(w)'
  <2>1. Welcome(e)' /\ ~Bad(e)'
    BY <1>1, <1>2, <1>3 DEF Welcome, Bad
  <2>2. QED BY <1>0, <1>1, <2>1 DEF FramePast, Welcome, Bad
<1>6. \A v \in Workers : FramePast(v)'
  <2>1. Step(w)
    BY DEF Step
  <2>2. QED BY <1>1, <1>2, <1>3, <1>5, <2>1, OthersStay, PastGrows
<1>7. QED BY <1>4, <1>6 DEF PolicyInv

\* Arrivals, the coordinator and the clock: nothing is stored.
LEMMA ArrivalPolicy ==
  ASSUME TypeInv, PolicyInv, NEW w \in Workers, NEW e \in Entries,
         Submit(w, e) \/ \E c \in Connections : Receive(w, c, e)
  PROVE  PolicyInv'
<1>1. UNCHANGED <<tables, erased>>
  BY DEF Submit, Receive, history
<1>2. /\ Past' = Past /\ (announced \cup erased)' = announced \cup erased
      /\ PastClosed' /\ (refused' = refused => RefusedClosed')
  BY <1>1, PastStays
<1>3. refused' = refused \/ (refused' = refused \cup {e} /\ e \in WeakProof)
  BY DEF Submit, Receive, caches
<1>4. RefusedClosed'
  BY <1>2, <1>3 DEF RefusedClosed
<1>5. CASE UNCHANGED control
  <2>1. pc' = pc /\ frame' = frame
    BY <1>5 DEF control
  <2>2. QED BY <1>2, <1>3, <1>4, <2>1 DEF PolicyInv, FramePast, Welcome, Bad
<1>6. CASE \E s : Start(w, e, s)
  <2>1. /\ \A v \in Workers \ {w} : pc'[v] = pc[v] /\ frame'[v] = frame[v]
        /\ pc'[w] = "assess"
    BY <1>6 DEF Start, TypeInv, TypeOK
  <2>2. FramePast(w)'
    BY <2>1 DEF FramePast
  <2>3. \A v \in Workers : FramePast(v)'
    BY <1>2, <1>3, <2>1, <2>2, PastGrows
  <2>4. QED BY <1>2, <1>4, <2>3 DEF PolicyInv
<1>7. QED BY <1>5, <1>6 DEF Submit, Receive

LEMMA ErasePolicy ==
  ASSUME TypeInv, PolicyInv, NEW e \in Entries, Erase(e)
  PROVE  /\ PolicyInv' /\ e \in Stored
         /\ Stored' = Stored \ {e} /\ erased' = erased \cup {e}
<1>1. /\ pc' = pc /\ frame' = frame /\ refused' = refused
      /\ e \in Stored /\ erased' = erased \cup {e}
      /\ announced' = announced \ {e}
  BY DEF Erase, control, caches
<1>2. Stored' = Stored \ {e}
  BY DEF Erase, Stored, TypeInv, TypeOK
<1>3. Past' = Past
  BY <1>1, <1>2 DEF Past
<1>4. (announced \cup erased) \subseteq (announced \cup erased)'
  BY <1>1
<1>5. \A d : Welcome(d) => Welcome(d)'
  BY <1>3, <1>4 DEF Welcome
<1>6. PastClosed' /\ RefusedClosed'
  BY <1>1, <1>3, <1>5 DEF PolicyInv, PastClosed, RefusedClosed, Bad
<1>7. \A w \in Workers : FramePast(w)'
  BY <1>1, <1>5 DEF PolicyInv, FramePast, Bad
<1>8. QED BY <1>1, <1>2, <1>6, <1>7 DEF PolicyInv

LEMMA InitPolicyInv == Init => PolicyInv
<1> SUFFICES ASSUME Init PROVE PolicyInv
  OBVIOUS
<1>1. Past = Installed /\ refused = {}
  BY DEF Init, Past, Stored
<1>2. PastClosed
  BY <1>1, EntryAssumption DEF PastClosed
<1>3. \A w \in Workers : FramePast(w)
  BY DEF Init, FramePast
<1>4. QED BY <1>1, <1>2, <1>3 DEF PolicyInv, RefusedClosed

LEMMA NextPolicyInv == TypeInv /\ PolicyInv /\ [Next]_vars => PolicyInv'
<1> SUFFICES ASSUME TypeInv, PolicyInv, [Next]_vars PROVE PolicyInv'
  OBVIOUS
<1>1. ASSUME UNCHANGED <<pc, frame, refused>>, UNCHANGED <<tables, erased>>
      PROVE  PolicyInv'
  BY <1>1, PastStays DEF PolicyInv, FramePast, Bad
<1>2. CASE UNCHANGED vars \/ Clean \/ Tick
  BY <1>1, <1>2 DEF vars, Clean, Tick, control, caches, history
<1>3. ASSUME NEW w \in Workers, Step(w) PROVE PolicyInv'
  BY <1>3, AssessPolicy, ForgettingPolicy, CheckParentPolicy, GatePolicy,
     RefusalPolicy, InsertionPolicy DEF Step
<1>4. ASSUME NEW w \in Workers, NEW e \in Entries,
             Submit(w, e) \/ \E c \in Connections : Receive(w, c, e)
      PROVE  PolicyInv'
  BY <1>4, ArrivalPolicy
<1>5. ASSUME NEW e \in Entries, Erase(e) PROVE PolicyInv'
  BY <1>5, ErasePolicy
<1>6. QED BY <1>2, <1>3, <1>4, <1>5 DEF Next

LEMMA PolicyInvariant == Spec => []PolicyInv
<1>1. QED BY TypeInvariant, InitPolicyInv, NextPolicyInv, PTL DEF Spec

\* The tables are causally closed for any number of workers, any forest of
\* entries and any order of arrival.
THEOREM TablesClosed == Spec => []CausallyClosed
<1>1. PolicyInv /\ TypeInv => CausallyClosed
  <2> SUFFICES ASSUME PolicyInv, TypeInv, NEW e \in Stored \cap Posts
               PROVE  /\ e \notin Forged
                      /\ Parent[e] \in Stored \cup erased
                      /\ Author[e] \in announced \cup erased
    BY DEF CausallyClosed
  <2>1. Welcome(e)
    BY DEF PolicyInv, PastClosed, Past
  <2>2. e \notin Identities
    BY EntryAssumption DEF Announcements
  <2>3. QED BY <2>1, <2>2 DEF Welcome, Past
<1>2. QED BY <1>1, PolicyInvariant, TypeInvariant, PTL

\* The blacklist keeps out whatever hangs below a blacklisted entry.
THEOREM BlacklistHolds == Spec => []BlacklistedNeverStored
<1>1. PolicyInv => BlacklistedNeverStored
  BY DEF PolicyInv, PastClosed, Past, Bad, BlacklistedNeverStored
<1>2. QED BY <1>1, PolicyInvariant, PTL

\* Refusals are final: no interleaving stores what has been refused.
THEOREM RefusalsFinal == Spec => []RefusedNeverStored
<1>1. PolicyInv => RefusedNeverStored
  BY DEF PolicyInv, RefusedClosed, Past, RefusedNeverStored
<1>2. QED BY <1>1, PolicyInvariant, PTL

-----------------------------------------------------------------------------
(* The pipeline implements CausalStore *)

LEMMA StoreStep ==
  TypeInv /\ PolicyInv /\ [Next]_vars => [Store!Next]_<<Stored, erased>>
<1> SUFFICES ASSUME TypeInv, PolicyInv, [Next]_vars
             PROVE  [Store!Next]_<<Stored, erased>>
  OBVIOUS
<1>1. ASSUME UNCHANGED <<tables, erased>> PROVE UNCHANGED <<Stored, erased>>
  BY <1>1 DEF tables, Stored
<1>2. ASSUME NEW e \in Entries, Welcome(e), erased' = erased,
             Stored' = Stored \/ Stored' = Stored \cup {e}
      PROVE  [Store!Next]_<<Stored, erased>>
  <2>1. e \in Posts => e \notin Identities
    BY EntryAssumption DEF Announcements
  <2>2. e \in Channels => e \notin Identities
    BY EntryAssumption
  <2>3. Store!Refers(e) \subseteq Stored \cup erased
    BY <1>2, <2>1, <2>2 DEF Store!Refers, Welcome, Past, Stored
  <2>4. CASE Stored' = Stored \cup {e}
    BY <1>2, <2>3, <2>4 DEF Store!Next, Store!Admit, Entries, Announcements
  <2>5. QED BY <1>2, <2>4
<1>3. ASSUME NEW w \in Workers, InsertThread(w) \/ Insert(w)
      PROVE  [Store!Next]_<<Stored, erased>>
  BY <1>2, <1>3, InsertThreadStores, InsertStores
<1>4. ASSUME NEW w \in Workers, Step(w), ~InsertThread(w), ~Insert(w)
      PROVE  UNCHANGED <<Stored, erased>>
  BY <1>1, <1>4 DEF Step, Assess, Strike, CheckParent, Refuse, Drop, Detach, Gate,
     RefuseThread, Remember, Accept, history, tables
<1>5. ASSUME NEW e \in Entries, Erase(e)
      PROVE  Store!Next
  BY <1>5, ErasePolicy DEF Store!Next, Store!Remove
<1>6. ASSUME \/ UNCHANGED vars \/ Clean \/ Tick
             \/ \E w \in Workers, e \in Entries :
                  Submit(w, e) \/ \E c \in Connections : Receive(w, c, e)
      PROVE  UNCHANGED <<Stored, erased>>
  BY <1>1, <1>6 DEF vars, Clean, Tick, Submit, Receive, history
<1>7. QED BY <1>3, <1>4, <1>5, <1>6 DEF Next

\* Every behaviour of the pipeline is one of the abstract store.
THEOREM Implementation == Spec => ImplementsStore
<1>1. Init => Store!Init
  BY DEF Init, Store!Init, Stored
<1>2. QED BY <1>1, StoreStep, TypeInvariant, PolicyInvariant, PTL
          DEF Spec, ImplementsStore, Store!Spec

====
