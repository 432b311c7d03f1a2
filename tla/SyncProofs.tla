----------------------------- MODULE SyncProofs -----------------------------
(* Theorems about Sync, for any announcements, settings and contents.         *)
EXTENDS Sync, FiniteSetTheorems, SequenceTheorems, WellFoundedInduction, TLAPS

-----------------------------------------------------------------------------
(* Least and greatest elements. *)

LEMMA OtherNode ==
  /\ \A n \in Nodes : /\ Other(n) \in Nodes /\ Other(n) # n /\ Other(Other(n)) = n
                      /\ \A x \in Nodes : x = n \/ x = Other(n)
  BY SyncAssumption DEF Other

LEMMA SmallestOf ==
  ASSUME NEW T \in SUBSET Nat, T # {}
  PROVE  \E x \in T : \A y \in T : x <= y
  <1> DEFINE D == {0 .. x : x \in T}
             R == StrictSubsetOrdering(Nat)
  <1>1. \A x \in T : IsFiniteSet(0 .. x)
    BY FS_Interval
  <1>2. D \subseteq FiniteSubsetsOf(Nat) /\ D # {}
    <2>1. \A x \in T : 0 .. x \in FiniteSubsetsOf(Nat)
      BY <1>1 DEF FiniteSubsetsOf
    <2>2. PICK z \in T : TRUE
      OBVIOUS
    <2>3. 0 .. z \in D
      BY <2>2
    <2> QED
      BY <2>1, <2>3
  <1>3. IsWellFoundedOn(R, FiniteSubsetsOf(Nat))
    BY FS_StrictSubsetOrderingWellFounded
  <1>4. PICK d \in D : \A e \in D : <<e, d>> \notin R
    <2> HIDE DEF D, R
    <2> QED
      BY <1>2, <1>3, WFMin
  <1>5. PICK x \in T : d = 0 .. x
    BY <1>4
  <1>6. ASSUME NEW y \in T, y < x PROVE FALSE
    <2>1. 0 .. y \in D /\ 0 .. y \subseteq 0 .. x /\ x \in 0 .. x /\ x \notin 0 .. y
      BY <1>6
    <2>2. <<0 .. y, d>> \in R
      BY <1>5, <2>1 DEF StrictSubsetOrdering
    <2> QED
      BY <1>4, <2>1, <2>2
  <1> QED
    BY <1>6

LEMMA LeastOf ==
  ASSUME NEW S \in SUBSET Int, S # {}, NEW low \in Int, \A x \in S : low <= x
  PROVE  Least(S) \in S /\ \A y \in S : Least(S) <= y
  <1> DEFINE T == {x - low : x \in S}
  <1>1. T \in SUBSET Nat /\ T # {}
    <2>1. PICK z \in S : TRUE
      OBVIOUS
    <2>2. z - low \in T
      BY <2>1
    <2>3. \A x \in S : x - low \in Nat
      OBVIOUS
    <2> QED
      BY <2>2, <2>3
  <1>2. PICK d \in T : \A e \in T : d <= e
    <2> HIDE DEF T
    <2> QED
      BY <1>1, SmallestOf
  <1>3. PICK x \in S : d = x - low
    OBVIOUS
  <1>4. \A y \in S : x <= y
    BY <1>2, <1>3
  <1> QED
    BY <1>4 DEF Least

LEMMA GreatestOf ==
  ASSUME NEW S \in SUBSET Int, S # {}, NEW high \in Int, \A x \in S : x <= high
  PROVE  Greatest(S) \in S /\ \A y \in S : y <= Greatest(S)
  <1> DEFINE T == {high - x : x \in S}
  <1>1. T \in SUBSET Nat /\ T # {}
    <2>1. PICK z \in S : TRUE
      OBVIOUS
    <2>2. high - z \in T
      BY <2>1
    <2>3. \A x \in S : high - x \in Nat
      OBVIOUS
    <2> QED
      BY <2>2, <2>3
  <1>2. PICK d \in T : \A e \in T : d <= e
    <2> HIDE DEF T
    <2> QED
      BY <1>1, SmallestOf
  <1>3. PICK x \in S : d = high - x
    OBVIOUS
  <1>4. \A y \in S : y <= x
    BY <1>2, <1>3
  <1> QED
    BY <1>4 DEF Greatest

-----------------------------------------------------------------------------
(* The division of a history. *)

LEMMA AfterOf ==
  ASSUME NEW S \in SUBSET Int, NEW t \in S, NEW u \in S, t < u
  PROVE  /\ After(S, t) \in S /\ t < After(S, t)
         /\ \A x \in S : t < x => After(S, t) <= x
  <1> DEFINE T == {x \in S : x > t}
  <1>0. u \in Int /\ t \in Int /\ u > t
    OBVIOUS
  <1>1. T \in SUBSET Int /\ T # {} /\ t \in Int /\ \A x \in T : t <= x
    <2>1. u \in T
      BY <1>0
    <2>2. \A x \in T : x \in Int /\ x > t
      OBVIOUS
    <2>3. \A x \in T : t <= x
      BY <2>2, <1>0
    <2> QED
      BY <1>0, <2>1, <2>2, <2>3
  <1>2. Least(T) \in T /\ \A y \in T : Least(T) <= y
    BY <1>1, LeastOf
  <1> QED
    BY <1>2 DEF After

\* Where the span of `t` begins for the receiver, if `f` says it of later ones.
Begin(S, f, t) == IF t = Greatest(S) THEN t
                  ELSE f[After(S, t)] - 1 - ((After(S, t) - t - 1) % Width)

\* There is a decoding: had some end of the division none, so would a shorter one.
LEMMA DecodingExists ==
  ASSUME NEW S \in SUBSET Int, S # {},
         NEW low \in Int, NEW high \in Int, \A x \in S : low <= x /\ x <= high
  PROVE  \E f \in [S -> Int] : \A t \in S : f[t] = Begin(S, f, t)
  <1> DEFINE g == Greatest(S)
             R == StrictSubsetOrdering(S)
             End(T) == \A x \in T, y \in S : x < y => y \in T
             Good(T) == \E f \in [T -> Int] : \A t \in T : f[t] = Begin(S, f, t)
             Bad == {T \in SUBSET S : End(T) /\ ~Good(T)}
  <1>1. Width \in Nat \ {0}
    BY SyncAssumption
  <1>2. g \in S /\ \A x \in S : x <= g
    BY GreatestOf
  <1>3. IsWellFoundedOn(R, SUBSET S)
    <2>1. S \in SUBSET (low .. high) /\ IsFiniteSet(low .. high)
      BY FS_Interval
    <2>2. IsFiniteSet(S)
      BY <2>1, FS_Subset
    <2> QED
      BY <2>2, FS_FiniteSubsetsOfFinite, FS_StrictSubsetOrderingWellFounded
  <1>4. ASSUME Bad # {} PROVE FALSE
    <2>1. PICK T \in Bad : \A U \in Bad : <<U, T>> \notin R
      <3>1. Bad \subseteq SUBSET S
        OBVIOUS
      <3> HIDE DEF Bad, R
      <3> QED
        BY <1>3, <1>4, <3>1, WFMin
    <2>2. T \in SUBSET S /\ End(T) /\ ~Good(T)
      BY <2>1
    <2>3. T # {}
      <3> SUFFICES ASSUME T = {} PROVE Good(T)
        BY <2>2
      <3>1. [x \in T |-> 0] \in [T -> Int]
        OBVIOUS
      <3> QED
        BY <3>1
    <2>4. PICK t \in T : \A x \in T : t <= x
      <3>1. T \in SUBSET Int /\ \A x \in T : low <= x
        BY <2>2
      <3> QED
        BY <2>3, <3>1, LeastOf
    <2> DEFINE U == T \ {t}
    <2>5. U \in SUBSET S /\ End(U) /\ <<U, T>> \in R
      <3>1. U \in SUBSET S /\ U \subseteq T /\ U # T
        BY <2>2, <2>4
      <3>2. <<U, T>> \in R
        BY <2>2, <3>1 DEF StrictSubsetOrdering
      <3>3. End(U)
        <4> SUFFICES ASSUME NEW x \in U, NEW y \in S, x < y PROVE y \in U
          OBVIOUS
        <4>1. y \in T
          BY <2>2
        <4>2. t <= x /\ t \in Int /\ x \in Int /\ y \in Int
          BY <2>2, <2>4
        <4>3. y # t
          BY <4>2
        <4> QED
          BY <4>1, <4>3
      <3> QED
        BY <3>1, <3>2, <3>3
    <2>6. PICK f \in [U -> Int] : \A x \in U : f[x] = Begin(S, f, x)
      <3>1. U \notin Bad
        BY <2>1, <2>5
      <3> QED
        BY <2>5, <3>1
    <2>7. ASSUME NEW x \in T, x # g PROVE After(S, x) \in U
      <3>1. x \in S /\ x \in Int /\ t \in Int /\ t <= x /\ g \in Int
        BY <2>2, <2>4, <1>2
      <3>2. x < g
        BY <1>2, <2>7, <3>1
      <3>3. After(S, x) \in S /\ After(S, x) \in Int /\ x < After(S, x)
        BY <1>2, <3>1, <3>2, AfterOf
      <3>4. After(S, x) \in T
        BY <2>2, <3>3
      <3> QED
        BY <3>1, <3>3, <3>4
    <2> DEFINE h == [x \in T |-> IF x = t THEN Begin(S, f, t) ELSE f[x]]
    <2>8. Begin(S, f, t) \in Int
      <3>1. CASE t = g
        BY <2>2, <3>1 DEF Begin
      <3>2. CASE t # g
        <4>1. After(S, t) \in U /\ f[After(S, t)] \in Int /\ After(S, t) \in Int /\ t \in Int
          BY <2>2, <2>6, <2>7, <3>2
        <4> DEFINE d == After(S, t) - t - 1
        <4>2. d \in Int /\ d % Width \in Int
          BY <1>1, <4>1
        <4> HIDE DEF d
        <4>3. f[After(S, t)] - 1 - (d % Width) \in Int
          BY <4>1, <4>2
        <4> QED
          BY <3>2, <4>3 DEF Begin, d
      <3> QED
        BY <3>1, <3>2
    <2>9. h \in [T -> Int]
      BY <2>6, <2>8
    <2>10. ASSUME NEW x \in T PROVE h[x] = Begin(S, h, x)
      <3>1. Begin(S, h, x) = Begin(S, f, x)
        <4>1. CASE x = g
          BY <4>1 DEF Begin
        <4>2. CASE x # g
          <5>1. After(S, x) \in T /\ After(S, x) # t
            BY <2>7, <4>2
          <5>2. h[After(S, x)] = f[After(S, x)]
            BY <5>1
          <5> HIDE DEF h
          <5> QED
            BY <5>2 DEF Begin
        <4> QED
          BY <4>1, <4>2
      <3>2. h[x] = Begin(S, f, x)
        BY <2>6
      <3> QED
        BY <3>1, <3>2
    <2> HIDE DEF h
    <2> QED
      BY <2>2, <2>9, <2>10
  <1>5. S \notin Bad /\ End(S)
    BY <1>4
  <1> QED
    BY <1>5

LEMMA DecodedBegins ==
  ASSUME NEW S \in SUBSET Int, S # {},
         NEW low \in Int, NEW high \in Int, \A x \in S : low <= x /\ x <= high
  PROVE  \A t \in S : Decoded(S)[t] = Begin(S, Decoded(S), t)
  <1> DEFINE from == CHOOSE f : f = [t \in S |-> Begin(S, f, t)]
  <1>1. PICK f \in [S -> Int] : \A t \in S : f[t] = Begin(S, f, t)
    BY DecodingExists
  <1>2. f = [t \in S |-> Begin(S, f, t)]
    BY <1>1
  <1>3. from = [t \in S |-> Begin(S, from, t)]
    BY <1>2
  <1>4. Decoded(S) = from
    BY DEF Decoded, Begin
  <1> HIDE DEF from
  <1> QED
    BY <1>3, <1>4

\* What is decoded are times.
LEMMA DecodedInt ==
  ASSUME NEW S \in SUBSET Int, S # {},
         NEW low \in Int, NEW high \in Int, \A x \in S : low <= x /\ x <= high
  PROVE  \A t \in S : Decoded(S)[t] \in Int
  <1> DEFINE g == Greatest(S)
             Bad == {t \in S : Decoded(S)[t] \notin Int}
  <1> SUFFICES ASSUME Bad # {} PROVE FALSE
    OBVIOUS
  <1>1. g \in S /\ \A x \in S : x <= g
    BY GreatestOf
  <1>2. PICK b \in Bad : \A x \in Bad : x <= b
    <2>1. Bad \in SUBSET Int /\ \A x \in Bad : x <= high
      OBVIOUS
    <2> HIDE DEF Bad
    <2>2. Greatest(Bad) \in Bad /\ \A x \in Bad : x <= Greatest(Bad)
      BY <2>1, GreatestOf
    <2> QED
      BY <2>2
  <1>3. b \in S /\ b \in Int /\ Decoded(S)[b] = Begin(S, Decoded(S), b)
    BY <1>2, DecodedBegins
  <1>4. b # g
    BY <1>2, <1>3 DEF Begin
  <1> HIDE DEF g
  <1>5. After(S, b) \in S /\ After(S, b) \in Int /\ b < After(S, b)
    <2>1. g \in Int /\ b < g
      BY <1>1, <1>3, <1>4
    <2> QED
      BY <1>1, <1>3, <2>1, AfterOf
  <1>6. Decoded(S)[After(S, b)] \in Int
    <2>1. ~(After(S, b) <= b)
      BY <1>3, <1>5
    <2> QED
      BY <1>2, <1>5, <2>1
  <1>7. (After(S, b) - b - 1) % Width \in Int
    BY <1>3, <1>5, SyncAssumption
  <1> DEFINE w == (After(S, b) - b - 1) % Width
  <1> HIDE DEF w
  <1>8. Decoded(S)[After(S, b)] - 1 - w \in Int
    BY <1>6, <1>7 DEF w
  <1> QED
    BY <1>2, <1>3, <1>4, <1>8 DEF Begin, w, g

\* A request that does not wrap is decoded into the spans that it was made of.
LEMMA DecodedIs ==
  ASSUME NEW S \in SUBSET Int, S # {}, ~Wrapped(S),
         NEW low \in Int, NEW high \in Int, \A x \in S : low <= x /\ x <= high
  PROVE  \A t \in S : Decoded(S)[t] = t
  <1> DEFINE g == Greatest(S)
             from == Decoded(S)
  <1>1. g \in S /\ \A x \in S : x <= g
    BY GreatestOf
  <1>6. \A t \in S : from[t] = Begin(S, from, t)
    BY DecodedBegins
  <1> HIDE DEF g, from
  <1>2. ASSUME NEW t \in S, t # g
        PROVE  /\ After(S, t) \in S /\ t < After(S, t)
               /\ (After(S, t) - t - 1) % Width = After(S, t) - t - 1
    <2>1. t < g
      BY <1>1, <1>2
    <2>2. After(S, t) \in S /\ t < After(S, t)
      BY <1>1, <2>1, AfterOf
    <2>3. t \in Int /\ After(S, t) \in Int /\ Width \in Nat \ {0}
      BY <2>2, SyncAssumption
    <2>4. After(S, t) - t - 1 \in 0 .. Width - 1
      <3>1. ~(After(S, t) - t > Width)
        BY <1>2 DEF Wrapped, g
      <3> QED
        BY <2>2, <2>3, <3>1
    <2>5. \A d \in 0 .. Width - 1 : d % Width = d
      BY <2>3
    <2> QED
      BY <2>2, <2>4, <2>5
  <1>7. \A t \in S : from[t] = t
    <2> DEFINE Bad == {t \in S : from[t] # t}
    <2> SUFFICES ASSUME Bad # {} PROVE FALSE
      OBVIOUS
    <2>1. PICK b \in Bad : \A x \in Bad : x <= b
      <3>1. Bad \in SUBSET Int /\ \A x \in Bad : x <= high
        OBVIOUS
      <3> HIDE DEF Bad
      <3>2. Greatest(Bad) \in Bad /\ \A x \in Bad : x <= Greatest(Bad)
        BY <3>1, GreatestOf
      <3> QED
        BY <3>2
    <2>2. b \in S /\ b \in Int /\ b # g
      BY <1>6, <2>1 DEF Begin, g
    <2>3. After(S, b) \in S /\ After(S, b) \in Int /\ b < After(S, b)
      BY <1>2, <2>2
    <2>4. from[After(S, b)] = After(S, b)
      <3>1. ~(After(S, b) <= b)
        BY <2>2, <2>3
      <3> QED
        BY <2>1, <2>3, <3>1
    <2>5. from[b] = from[After(S, b)] - 1 - ((After(S, b) - b - 1) % Width)
      BY <1>6, <2>2 DEF Begin, g
    <2>6. from[b] = After(S, b) - 1 - (After(S, b) - b - 1)
      BY <1>2, <2>2, <2>4, <2>5
    <2> QED
      BY <2>1, <2>2, <2>3, <2>6
  <1> QED
    BY <1>7 DEF from

-----------------------------------------------------------------------------
(* What a request says. *)

\* Spans and a threshold leave no time out.
Complete(S, t) == \A x \in Nat : x >= t \/ \E s \in S : s.from <= x /\ x <= s.to

\* The node that asks has what it says it has.
Honest(n, S) ==
  \A s \in S : s.number # Many =>
    s.number <= Cardinality(Within(n, "identities", s.from, s.to))

AskedFor(S) == S \cup Ancient(S)

LEMMA FiniteRows == ASSUME NEW S \in SUBSET Rows
                    PROVE  IsFiniteSet(S) /\ Cardinality(S) \in Nat
  BY FS_Subset, FS_CardinalityType, SyncAssumption

LEMMA WithinOf ==
  ASSUME TypeOK, NEW n \in Nodes, NEW k, NEW x, NEW y
  PROVE  /\ Within(n, k, x, y) \in SUBSET Rows
         /\ Cardinality(Within(n, k, x, y)) \in Nat
  <1>1. Within(n, k, x, y) \in SUBSET Rows
    BY DEF Within, Of, TypeOK
  <1> QED
    BY <1>1, FiniteRows

LEMMA NumberOf ==
  ASSUME TypeOK, NEW n \in Nodes, NEW k, NEW x, NEW y
  PROVE  /\ Number(n, k, x, y) \in Nat \cup {Many}
         /\ Number(n, k, x, y) # Many =>
              Number(n, k, x, y) = Cardinality(Within(n, k, x, y))
  BY WithinOf DEF Number

\* The spans of a request, where it does not wrap.
Spans(n, k, S) ==
  {[from |-> t, to |-> After(S, t) - 1,
    number |-> Number(n, k, t, After(S, t) - 1)] : t \in S \ {Greatest(S)}}

LEMMA SpansOf ==
  ASSUME NEW n, NEW k, NEW S \in SUBSET Int, ~Wrapped(S), ~(Cardinality(S) <= 1),
         NEW low \in Int, NEW high \in Int, \A x \in S : low <= x /\ x <= high
  PROVE  /\ Greatest(S) \in S /\ \A x \in S : x <= Greatest(S)
         /\ Report(n, k, S).threshold = Greatest(S)
         /\ Report(n, k, S).spans = Spans(n, k, S)
  <1>1. S # {}
    BY FS_EmptySet
  <1>2. Greatest(S) \in S /\ \A x \in S : x <= Greatest(S)
    BY <1>1, GreatestOf
  <1>3. \A t \in S : Decoded(S)[t] = t
    BY <1>1, DecodedIs
  <1>4. \A t \in S \ {Greatest(S)} : After(S, t) \in S
    <2> TAKE t \in S \ {Greatest(S)}
    <2>1. t \in Int /\ Greatest(S) \in Int /\ t # Greatest(S) /\ t <= Greatest(S)
      BY <1>2
    <2>2. t < Greatest(S)
      BY <2>1
    <2> QED
      BY <1>2, <2>2, AfterOf
  <1> DEFINE ends == S \ {Greatest(S)}
             told == {[from |-> Decoded(S)[t], to |-> Decoded(S)[After(S, t)] - 1,
                       number |-> Number(n, k, t, After(S, t) - 1)] : t \in ends}
  <1>5. told = Spans(n, k, S)
    BY <1>3, <1>4 DEF Spans
  <1>6. Report(n, k, S) = History(k, Greatest(S), told)
    BY DEF Report
  <1> HIDE DEF told
  <1>7. Report(n, k, S).threshold = Greatest(S) /\ Report(n, k, S).spans = told
    BY <1>6 DEF History
  <1> QED
    BY <1>2, <1>5, <1>7

\* A request that does not wrap leaves no time out.
LEMMA ReportComplete ==
  ASSUME NEW n, NEW k, NEW S \in SUBSET Int, ~Wrapped(S),
         NEW low \in Int, NEW high \in Int, \A x \in S : low <= x /\ x <= high
  PROVE  Complete(AskedFor(Report(n, k, S).spans), Report(n, k, S).threshold)
  <1>1. CASE Cardinality(S) <= 1
    <2>1. Report(n, k, S).threshold = 0
      BY <1>1 DEF Report, History
    <2> QED
      BY <2>1 DEF Complete
  <1>2. CASE ~(Cardinality(S) <= 1)
    <2> DEFINE g == Greatest(S)
               ends == S \ {g}
               span(t) == [from |-> t, to |-> After(S, t) - 1,
                           number |-> Number(n, k, t, After(S, t) - 1)]
               spans == Spans(n, k, S)
               L == Least(ends)
    <2>1. /\ g \in S /\ \A x \in S : x <= g
          /\ Report(n, k, S).threshold = g /\ Report(n, k, S).spans = spans
      <3>1. g \in S /\ \A x \in S : x <= g
        BY <1>2, SpansOf
      <3>2. Report(n, k, S).threshold = g
        BY <1>2, SpansOf
      <3>3. Report(n, k, S).spans = spans
        BY <1>2, SpansOf
      <3> QED
        BY <3>1, <3>2, <3>3
    <2>a. \A t \in ends : span(t) \in spans
      BY DEF Spans
    <2>b. \A s \in spans : \E t \in ends : s = span(t)
      BY DEF Spans
    <2> HIDE DEF spans
    <2>2. ends # {}
      <3> SUFFICES ASSUME ends = {} PROVE FALSE
        OBVIOUS
      <3>1. S = {g}
        BY <2>1
      <3>2. Cardinality({g}) = 1
        BY FS_Singleton
      <3> QED
        BY <1>2, <3>1, <3>2
    <2> HIDE DEF g
    <2>3. ends \in SUBSET Int /\ \A x \in ends : low <= x
      OBVIOUS
    <2>4. L \in ends /\ \A t \in ends : L <= t
      <3> HIDE DEF ends
      <3> QED
        BY <2>2, <2>3, LeastOf
    <2>7. [from |-> 0, to |-> L - 1, number |-> 0] \in AskedFor(spans)
      <3>1. span(L) \in spans /\ span(L).from = L
        BY <2>4, <2>a
      <3>2. \A t \in ends : span(t).from = t
        OBVIOUS
      <3> HIDE DEF ends, L, span
      <3>3. span(L) \in First(spans)
        BY <2>4, <2>b, <3>1, <3>2 DEF First
      <3> QED
        BY <3>1, <3>3 DEF AskedFor, Ancient
    <2>8. \A t \in ends : span(t) \in AskedFor(spans)
      BY <2>a DEF AskedFor
    <2>9. ASSUME NEW x \in Nat, x < g
          PROVE  \E s \in AskedFor(spans) : s.from <= x /\ x <= s.to
      <3>1. CASE x < L
        <4>1. x <= L - 1
          BY <3>1, <2>3, <2>4
        <4> DEFINE s == [from |-> 0, to |-> L - 1, number |-> 0]
        <4>2. s.from <= x /\ x <= s.to
          BY <4>1
        <4> QED
          BY <2>7, <4>2
      <3>2. CASE ~(x < L)
        <4> DEFINE T == {t \in S : t <= x}
                   b == Greatest(T)
        <4>1. T \in SUBSET Int /\ T # {} /\ x \in Int /\ \A t \in T : t <= x
          <5>1. L \in S /\ L \in Int
            BY <2>4
          <5>2. L <= x
            BY <3>2, <5>1
          <5>3. L \in T
            BY <5>1, <5>2
          <5>4. T \in SUBSET Int /\ \A t \in T : t <= x
            OBVIOUS
          <5> QED
            BY <5>3, <5>4
        <4>2. b \in T /\ \A t \in T : t <= b
          <5> HIDE DEF T
          <5> QED
            BY <4>1, GreatestOf
        <4>3. b \in S /\ b \in Int /\ g \in Int /\ b <= x /\ b < g
          <5> HIDE DEF b
          <5>1. b \in S /\ b <= x
            BY <4>2
          <5>2. b \in Int /\ g \in Int /\ x \in Int
            BY <5>1, <2>1
          <5> QED
            BY <2>9, <5>1, <5>2
        <4>9. b \in ends
          BY <4>3
        <4>4. After(S, b) \in S /\ After(S, b) \in Int /\ b < After(S, b)
          BY <2>1, <4>3, AfterOf
        <4>5. x < After(S, b)
          <5> SUFFICES ASSUME After(S, b) <= x PROVE FALSE
            BY <4>4
          <5>1. After(S, b) \in T
            BY <4>4
          <5> QED
            BY <4>2, <4>3, <4>4, <5>1
        <4>6. span(b).from <= x /\ x <= span(b).to
          BY <4>3, <4>4, <4>5
        <4> HIDE DEF b, span, T
        <4> QED
          BY <2>8, <4>9, <4>6
      <3> QED
        BY <3>1, <3>2
    <2>10. g \in Int
      BY <2>1
    <2> HIDE DEF spans
    <2> QED
      BY <2>1, <2>9, <2>10 DEF Complete
  <1> QED
    BY <1>1, <1>2

\* A request that does not wrap tells what the node has.
LEMMA ReportHonest ==
  ASSUME TypeOK, NEW n \in Nodes, NEW S \in SUBSET Int, ~Wrapped(S),
         NEW low \in Int, NEW high \in Int, \A x \in S : low <= x /\ x <= high
  PROVE  Honest(n, AskedFor(Report(n, "identities", S).spans))
  <1> DEFINE R == Report(n, "identities", S).spans
  <1>1. ASSUME NEW s \in Ancient(R) PROVE s.number = 0
    BY DEF Ancient
  <1>2. ASSUME NEW s \in R, s.number # Many
        PROVE  s.number <= Cardinality(Within(n, "identities", s.from, s.to))
    <2>1. CASE Cardinality(S) <= 1
      BY <1>2, <2>1 DEF Report, History
    <2>2. CASE ~(Cardinality(S) <= 1)
      <3>1. R = Spans(n, "identities", S)
        BY <2>2, SpansOf
      <3>2. PICK t \in S \ {Greatest(S)} :
              s = [from |-> t, to |-> After(S, t) - 1,
                   number |-> Number(n, "identities", t, After(S, t) - 1)]
        <4> HIDE DEF R
        <4> QED
          BY <1>2, <3>1 DEF Spans
      <3>3. /\ s.from = t /\ s.to = After(S, t) - 1
            /\ s.number = Number(n, "identities", t, After(S, t) - 1)
        BY <3>2
      <3>4. s.number = Cardinality(Within(n, "identities", s.from, s.to))
        BY <1>2, <3>3, NumberOf
      <3> QED
        BY <3>4, WithinOf
    <2> QED
      BY <2>1, <2>2
  <1> HIDE DEF R
  <1>3. ASSUME NEW s \in AskedFor(R), s.number # Many
        PROVE  s.number <= Cardinality(Within(n, "identities", s.from, s.to))
    BY <1>1, <1>2, <1>3, WithinOf DEF AskedFor
  <1> QED
    BY <1>3 DEF Honest, R

-----------------------------------------------------------------------------
(* Messages and sequences of them. *)

Has(w, m) == \E i \in DOMAIN w : w[i] = m

LEMMA MessageTypes ==
  /\ Initial \in Message /\ Initial.type = "initial"
  /\ \A r \in Rows : Entry(r) \in Message /\ Entry(r).type = "entry" /\ Entry(r).row = r
  /\ \A m \in Message : m.type \in {"initial", "entry", "history"}
  /\ \A m \in Message : m.type = "initial" => m = Initial
  /\ \A m \in Message : m.type = "entry" => m.row \in Rows /\ m = Entry(m.row)
  /\ \A m \in Message : m.type = "history" =>
       m.of \in Kinds /\ m.threshold \in Int /\ m.spans \in SUBSET Span
  BY DEF Message, Initial, Entry

LEMMA HistoryType ==
  ASSUME NEW k \in Kinds, NEW t \in Int, NEW S \in SUBSET Span
  PROVE  /\ History(k, t, S) \in Message /\ History(k, t, S).type = "history"
         /\ History(k, t, S).of = k /\ History(k, t, S).threshold = t
         /\ History(k, t, S).spans = S
  BY DEF History, Message

LEMMA HasConcat ==
  ASSUME NEW s \in Seq(Message), NEW t \in Seq(Message)
  PROVE  /\ s \o t \in Seq(Message)
         /\ \A m : Has(s \o t, m) <=> Has(s, m) \/ Has(t, m)
  <1>1. /\ s \o t \in Seq(Message) /\ Len(s \o t) = Len(s) + Len(t)
        /\ \A i \in 1 .. Len(s) + Len(t) :
             (s \o t)[i] = IF i <= Len(s) THEN s[i] ELSE t[i - Len(s)]
    BY ConcatProperties
  <1>2. /\ DOMAIN s = 1 .. Len(s) /\ DOMAIN t = 1 .. Len(t)
        /\ DOMAIN (s \o t) = 1 .. Len(s) + Len(t)
        /\ Len(s) \in Nat /\ Len(t) \in Nat
    BY <1>1, LenProperties
  <1>3. ASSUME NEW m, Has(s \o t, m) PROVE Has(s, m) \/ Has(t, m)
    <2>1. PICK i \in 1 .. Len(s) + Len(t) : (s \o t)[i] = m
      BY <1>2, <1>3 DEF Has
    <2>2. CASE i <= Len(s)
      <3>1. i \in DOMAIN s /\ s[i] = m
        BY <1>1, <1>2, <2>1, <2>2
      <3> QED
        BY <3>1 DEF Has
    <2>3. CASE ~(i <= Len(s))
      <3>1. i - Len(s) \in DOMAIN t /\ t[i - Len(s)] = m
        BY <1>1, <1>2, <2>1, <2>3
      <3> QED
        BY <3>1 DEF Has
    <2> QED
      BY <2>2, <2>3
  <1>4. ASSUME NEW m, Has(s, m) PROVE Has(s \o t, m)
    <2>1. PICK i \in 1 .. Len(s) : s[i] = m
      BY <1>2, <1>4 DEF Has
    <2>2. i \in DOMAIN (s \o t) /\ (s \o t)[i] = m
      BY <1>1, <1>2, <2>1
    <2> QED
      BY <2>2 DEF Has
  <1>5. ASSUME NEW m, Has(t, m) PROVE Has(s \o t, m)
    <2>1. PICK i \in 1 .. Len(t) : t[i] = m
      BY <1>2, <1>5 DEF Has
    <2>2. i + Len(s) \in DOMAIN (s \o t) /\ (s \o t)[i + Len(s)] = t[(i + Len(s)) - Len(s)]
      BY <1>1, <1>2
    <2>3. (i + Len(s)) - Len(s) = i
      BY <1>2
    <2> QED
      BY <2>1, <2>2, <2>3 DEF Has
  <1> QED
    BY <1>1, <1>3, <1>4, <1>5

LEMMA HasTail ==
  ASSUME NEW s \in Seq(Message), s # <<>>
  PROVE  /\ Tail(s) \in Seq(Message) /\ Head(s) \in Message
         /\ \A m : Has(s, m) <=> m = Head(s) \/ Has(Tail(s), m)
  <1>1. /\ Head(s) \in Message /\ Tail(s) \in Seq(Message) /\ Len(Tail(s)) = Len(s) - 1
        /\ \A i \in 1 .. Len(Tail(s)) : Tail(s)[i] = s[i + 1]
    BY HeadTailProperties
  <1>2. /\ DOMAIN s = 1 .. Len(s) /\ Len(s) \in Nat \ {0} /\ Head(s) = s[1]
        /\ DOMAIN Tail(s) = 1 .. Len(s) - 1
    <2>1. DOMAIN s = 1 .. Len(s) /\ DOMAIN Tail(s) = 1 .. Len(Tail(s))
      BY <1>1, LenProperties
    <2>2. Len(s) \in Nat \ {0}
      BY EmptySeq
    <2> QED
      BY <1>1, <2>1, <2>2
  <1>3. ASSUME NEW m, Has(s, m) PROVE m = Head(s) \/ Has(Tail(s), m)
    <2>1. PICK i \in 1 .. Len(s) : s[i] = m
      BY <1>2, <1>3 DEF Has
    <2>2. CASE i = 1
      BY <1>2, <2>1, <2>2
    <2>3. CASE i # 1
      <3>1. i - 1 \in DOMAIN Tail(s) /\ Tail(s)[i - 1] = s[(i - 1) + 1] /\ (i - 1) + 1 = i
        BY <1>1, <1>2, <2>3
      <3> QED
        BY <2>1, <3>1 DEF Has
    <2> QED
      BY <2>2, <2>3
  <1>4. ASSUME NEW m, Has(Tail(s), m) PROVE Has(s, m)
    <2>1. PICK i \in 1 .. Len(s) - 1 : Tail(s)[i] = m
      BY <1>2, <1>4 DEF Has
    <2>2. i + 1 \in DOMAIN s /\ s[i + 1] = m
      BY <1>1, <1>2, <2>1
    <2> QED
      BY <2>2 DEF Has
  <1>5. Has(s, Head(s))
    BY <1>2 DEF Has
  <1> QED
    BY <1>1, <1>3, <1>4, <1>5

LEMMA HasFew ==
  /\ <<>> \in Seq(Message) /\ \A m : ~Has(<<>>, m)
  /\ \A x \in Message : <<x>> \in Seq(Message) /\ \A m : Has(<<x>>, m) <=> m = x
  /\ \A x, y \in Message : /\ <<x, y>> \in Seq(Message)
                           /\ \A m : Has(<<x, y>>, m) <=> m = x \/ m = y
  BY DEF Has

\* An answer is made of the entries of what was found.
LEMMA SentAll ==
  ASSUME NEW n \in Nodes, NEW S \in SUBSET Rows, SendAll(n, S)
  PROVE  \E q \in Seq(Message) : /\ Send(n, q)
                                 /\ \A m : Has(q, m) <=> \E r \in S : m = Entry(r)
  <1>1. PICK f \in Listings(S) : Send(n, [i \in DOMAIN f |-> Entry(f[i])])
    BY DEF SendAll
  <1> DEFINE q == [i \in DOMAIN f |-> Entry(f[i])]
             N == Cardinality(S)
  <1>2. /\ f \in [1 .. N -> S] /\ N \in Nat
        /\ \A r \in S : \E i \in DOMAIN f : f[i] = r
    BY FiniteRows DEF Listings
  <1>3. q \in [1 .. N -> Message]
    BY <1>2, MessageTypes
  <1>4. q \in Seq(Message)
    BY <1>2, <1>3, SeqDef
  <1>5. \A m : Has(q, m) <=> \E r \in S : m = Entry(r)
    <2>1. ASSUME NEW m, Has(q, m) PROVE \E r \in S : m = Entry(r)
      <3>1. PICK i \in 1 .. N : m = Entry(f[i])
        BY <1>2, <2>1 DEF Has
      <3> QED
        BY <1>2, <3>1
    <2>2. ASSUME NEW r \in S PROVE Has(q, Entry(r))
      <3>1. PICK i \in DOMAIN f : f[i] = r
        BY <1>2
      <3> QED
        BY <3>1 DEF Has
    <2> QED
      BY <2>1, <2>2
  <1> QED
    BY <1>1, <1>4, <1>5

-----------------------------------------------------------------------------
(* Types. The bases of the shards of a table do not descend for ever.         *)

Bounded == \A n \in Nodes, k \in Kinds : \E low \in Int : \A b \in bases[n][k] : low <= b

TypeInv == TypeOK /\ Bounded

LEMMA Reporting ==
  ASSUME TypeInv, NEW n \in Nodes, NEW k \in Kinds, NEW S \in SUBSET Reported(n, k)
  PROVE  /\ S \in SUBSET Int /\ now \in Int
         /\ \E low \in Int : \A x \in S : low <= x /\ x <= now
  <1>1. PICK low \in Int : \A b \in bases[n][k] : low <= b
    BY DEF TypeInv, Bounded
  <1>2. bases[n][k] \in SUBSET Int /\ now \in Int /\ Offset \in Nat
    BY SyncAssumption, SMTT(30) DEF TypeInv, TypeOK
  <1>3. \A x \in S : x \in bases[n][k] /\ x + Offset < now
    BY DEF Reported
  <1>4. \A x \in S : x \in Int /\ low <= x /\ x <= now
    BY <1>1, <1>2, <1>3
  <1> QED
    BY <1>2, <1>4

LEMMA ReportType ==
  ASSUME TypeInv, NEW n \in Nodes, NEW k \in Kinds, NEW S \in SUBSET Reported(n, k)
  PROVE  /\ Report(n, k, S) \in Message
         /\ Report(n, k, S).type = "history" /\ Report(n, k, S).of = k
  <1>1. PICK low \in Int : \A x \in S : low <= x /\ x <= now
    BY Reporting
  <1>2. S \in SUBSET Int /\ now \in Int
    BY Reporting
  <1>3. CASE Cardinality(S) <= 1
    <2>1. Report(n, k, S) = History(k, 0, {})
      BY <1>3 DEF Report
    <2> QED
      BY <2>1, HistoryType
  <1>4. CASE ~(Cardinality(S) <= 1)
    <2> DEFINE ends == S \ {Greatest(S)}
               told == {[from |-> Decoded(S)[t], to |-> Decoded(S)[After(S, t)] - 1,
                         number |-> Number(n, k, t, After(S, t) - 1)] : t \in ends}
    <2>1. S # {}
      BY <1>4, FS_EmptySet
    <2>2. Greatest(S) \in S /\ \A x \in S : x <= Greatest(S)
      BY <1>1, <1>2, <2>1, GreatestOf
    <2>3. \A t \in S : Decoded(S)[t] \in Int
      BY <1>1, <1>2, <2>1, DecodedInt
    <2>4. ASSUME NEW t \in ends
          PROVE  [from |-> Decoded(S)[t], to |-> Decoded(S)[After(S, t)] - 1,
                  number |-> Number(n, k, t, After(S, t) - 1)] \in Span
      <3>1. t \in S /\ t \in Int /\ Greatest(S) \in Int /\ t < Greatest(S)
        <4>1. t \in S /\ t # Greatest(S)
          OBVIOUS
        <4>2. t \in Int /\ Greatest(S) \in Int /\ t <= Greatest(S)
          BY <1>2, <2>2, <4>1
        <4> QED
          BY <4>1, <4>2
      <3>2. After(S, t) \in S
        BY <1>2, <2>2, <3>1, AfterOf
      <3>3. Decoded(S)[t] \in Int /\ Decoded(S)[After(S, t)] - 1 \in Int
        <4>1. Decoded(S)[t] \in Int /\ Decoded(S)[After(S, t)] \in Int
          BY <2>3, <3>1, <3>2
        <4> QED
          BY <4>1
      <3>4. Number(n, k, t, After(S, t) - 1) \in Nat \cup {Many}
        BY NumberOf DEF TypeInv
      <3> QED
        BY <3>3, <3>4 DEF Span
    <2>5. told \in SUBSET Span
      BY <2>4
    <2>6. Report(n, k, S) = History(k, Greatest(S), told)
      BY <1>4 DEF Report
    <2>7. Greatest(S) \in Int
      BY <1>2, <2>2
    <2> HIDE DEF told
    <2> QED
      BY <2>5, <2>6, <2>7, HistoryType
  <1> QED
    BY <1>3, <1>4

LEMMA Sends ==
  ASSUME TypeOK, NEW n \in Nodes, NEW q \in Seq(Message), Send(n, q)
  PROVE  /\ wire' \in [Nodes -> Seq(Message)]
         /\ wire'[n] = wire[n] /\ wire'[Other(n)] = wire[Other(n)] \o q
         /\ \A m : Has(wire'[Other(n)], m) <=> Has(wire[Other(n)], m) \/ Has(q, m)
  <1>1. /\ wire \in [Nodes -> Seq(Message)] /\ Other(n) \in Nodes /\ Other(n) # n
        /\ wire' = [wire EXCEPT ![Other(n)] = @ \o q]
    BY OtherNode DEF TypeOK, Send
  <1>2. /\ wire[Other(n)] \o q \in Seq(Message)
        /\ \A m : Has(wire[Other(n)] \o q, m) <=> Has(wire[Other(n)], m) \/ Has(q, m)
    BY <1>1, HasConcat
  <1> QED
    BY <1>1, <1>2

\* A message is taken off the wire.
LEMMA Takes ==
  ASSUME TypeOK, NEW n \in Nodes, wire[n] # <<>>, wire' = [wire EXCEPT ![n] = Tail(@)]
  PROVE  /\ wire' \in [Nodes -> Seq(Message)]
         /\ wire'[Other(n)] = wire[Other(n)] /\ wire'[n] = Tail(wire[n])
         /\ Head(wire[n]) \in Message
         /\ \A m : Has(wire[n], m) <=> m = Head(wire[n]) \/ Has(wire'[n], m)
  <1>1. wire \in [Nodes -> Seq(Message)] /\ Other(n) \in Nodes /\ Other(n) # n
    BY OtherNode DEF TypeOK
  <1>2. /\ Tail(wire[n]) \in Seq(Message) /\ Head(wire[n]) \in Message
        /\ \A m : Has(wire[n], m) <=> m = Head(wire[n]) \/ Has(Tail(wire[n]), m)
    BY <1>1, HasTail
  <1> QED
    BY <1>1, <1>2

LEMMA Inserts ==
  ASSUME TypeInv, NEW n \in Nodes, NEW r \in Rows, Insert(n, r)
  PROVE  /\ table' = [table EXCEPT ![n] = @ \cup {r}]
         /\ table' \in [Nodes -> SUBSET Rows]
         /\ bases' \in [Nodes -> [Kinds -> SUBSET Int]] /\ Bounded'
  <1> DEFINE k == Kind[r]
             stamps == {Stamp[x] : x \in Of(table[n], k) \cup {r}}
  <1>1. /\ table' = [table EXCEPT ![n] = @ \cup {r}]
        /\ \E B \in Sharded(bases[n][k], stamps, Stamp[r]) : bases' = [bases EXCEPT ![n][k] = B]
    BY DEF Insert
  <1>2. PICK B \in Sharded(bases[n][k], stamps, Stamp[r]) :
          bases' = [bases EXCEPT ![n][k] = B]
    BY <1>1
  <1>3. /\ k \in Kinds /\ Stamp[r] \in Int /\ Backtrack \in Int /\ bases[n][k] \in SUBSET Int
        /\ table \in [Nodes -> SUBSET Rows] /\ bases \in [Nodes -> [Kinds -> SUBSET Int]]
    BY SyncAssumption, SMTT(30) DEF TypeInv, TypeOK
  <1>4. PICK low \in Int : \A b \in bases[n][k] : low <= b
    BY <1>3 DEF TypeInv, Bounded
  <1> HIDE DEF k, stamps
  <1>5. B \in SUBSET Int /\ \E x \in Int : B \subseteq bases[n][k] \cup {x}
    <2>1. CASE bases[n][k] = {}
      BY <1>2, <1>3, <2>1 DEF Sharded
    <2>2. CASE bases[n][k] # {} /\ Stamp[r] < Least(bases[n][k])
      <3> DEFINE q == (Least(bases[n][k]) - Stamp[r] + Backtrack - 1) \div Backtrack
                 x == Least(bases[n][k]) - Backtrack * q
      <3>1. Least(bases[n][k]) \in Int
        BY <1>3, <1>4, <2>2, LeastOf
      <3>2. q \in Int
        <4> DEFINE y == Least(bases[n][k]) - Stamp[r] + Backtrack - 1
        <4>1. y \in Int /\ Backtrack \in Nat \ {0}
          BY <1>3, <3>1, SyncAssumption
        <4> HIDE DEF y
        <4>2. y \div Backtrack \in Int
          BY <4>1
        <4> QED
          BY <4>2 DEF y
      <3>3. x \in Int
        <4> HIDE DEF q
        <4> QED
          BY <1>3, <3>1, <3>2
      <3>4. B = bases[n][k] \cup {x}
        BY <1>2, <2>2 DEF Sharded
      <3> HIDE DEF x
      <3> QED
        BY <1>3, <3>3, <3>4
    <2>3. CASE bases[n][k] # {} /\ ~(Stamp[r] < Least(bases[n][k]))
      <3>1. B = bases[n][k] \/ \E d \in Int : B = bases[n][k] \cup {d}
        BY <1>2, <2>3 DEF Sharded
      <3> QED
        BY <1>3, <3>1
    <2> QED
      BY <2>1, <2>2, <2>3
  <1>6. \E l \in Int : \A b \in B : l <= b
    <2>1. PICK x \in Int : B \subseteq bases[n][k] \cup {x}
      BY <1>5
    <2>2. CASE low <= x
      <3>1. \A b \in B : low <= b
        BY <1>4, <2>1, <2>2
      <3> QED
        BY <3>1
    <2>3. CASE ~(low <= x)
      <3>1. \A b \in bases[n][k] : x <= b
        BY <1>3, <1>4, <2>1, <2>3
      <3> QED
        BY <2>1, <3>1
    <2> QED
      BY <2>2, <2>3
  <1>7. bases' \in [Nodes -> [Kinds -> SUBSET Int]]
    BY <1>2, <1>3, <1>5
  <1>8. Bounded'
    <2> SUFFICES ASSUME NEW m \in Nodes, NEW j \in Kinds
                 PROVE  \E l \in Int : \A b \in bases'[m][j] : l <= b
      BY DEF Bounded
    <2>1. CASE m = n /\ j = k
      <3>1. bases'[m][j] = B
        BY <1>2, <1>3, <2>1
      <3> QED
        BY <1>6, <3>1
    <2>2. CASE ~(m = n /\ j = k)
      <3>1. bases'[m][j] = bases[m][j]
        BY <1>2, <1>3, <2>2
      <3> QED
        BY <3>1 DEF TypeInv, Bounded
    <2> QED
      BY <2>1, <2>2
  <1>9. table' \in [Nodes -> SUBSET Rows]
    BY <1>1, <1>3
  <1> QED
    BY <1>1, <1>7, <1>8, <1>9

Reply == {Idle} \cup [of : Kinds, threshold : Int, spans : SUBSET Span]

TypesBut == \* all of TypeInv but for the table, the wire and the answer
  /\ state \in [Nodes -> {"closed", "securing", "secured"}]
  /\ passing \in [Nodes -> SUBSET Rows] /\ left \in [Nodes -> SUBSET Rows]
  /\ now \in Start .. MaxNow /\ breaks \in 0 .. MaxBreaks
StoreType == table \in [Nodes -> SUBSET Rows]
             /\ bases \in [Nodes -> [Kinds -> SUBSET Int]] /\ Bounded
WireType  == wire \in [Nodes -> Seq(Message)]
ReplyType == reply \in [Nodes -> Reply]

LEMMA TypeParts ==
  /\ TypeInv <=> TypesBut /\ StoreType /\ WireType /\ ReplyType
  /\ TypeInv' <=> TypesBut' /\ StoreType' /\ WireType' /\ ReplyType'
  <1>1. TypeInv <=> TypesBut /\ StoreType /\ WireType /\ ReplyType
    BY DEF TypeInv, TypeOK, TypesBut, StoreType, WireType, ReplyType, Reply
  <1>2. TypeInv' <=> TypesBut' /\ StoreType' /\ WireType' /\ ReplyType'
    BY DEF TypeInv, TypeOK, TypesBut, StoreType, WireType, ReplyType, Reply
  <1> QED
    BY <1>1, <1>2

LEMMA SameStore == ASSUME StoreType, UNCHANGED <<table, bases>> PROVE StoreType'
  BY DEF StoreType, Bounded

LEMMA InitType == Init => TypeInv
  <1> SUFFICES ASSUME Init PROVE TypeInv
    OBVIOUS
  <1>1. ASSUME NEW n \in Nodes, NEW k \in Kinds
        PROVE  bases[n][k] \in SUBSET Nat
    <2>1. bases[n][k] \in Bases(Of(table[n], k))
      BY DEF Init
    <2>2. \A r \in Of(table[n], k) : Stamp[r] \in Nat
      BY SyncAssumption DEF Init, Of
    <2> QED
      BY <2>1, <2>2 DEF Bases
  <1>2. \A n \in Nodes, k \in Kinds : bases[n][k] \in SUBSET Int
    BY <1>1
  <1>3. bases \in [Nodes -> [Kinds -> SUBSET Int]]
    <2> DEFINE X == UNION {Bases(Of(table[n], k)) : n \in Nodes, k \in Kinds}
    <2>1. bases \in [Nodes -> [Kinds -> X]]
      BY DEF Init
    <2> HIDE DEF X
    <2> QED
      BY <1>2, <2>1
  <1>4. Bounded
    <2>1. \A n \in Nodes, k \in Kinds : \A b \in bases[n][k] : 0 <= b
      BY <1>1
    <2> QED
      BY <2>1 DEF Bounded
  <1>5. table \in [Nodes -> SUBSET Rows] /\ TypesBut /\ ReplyType
    BY SyncAssumption DEF Init, TypesBut, ReplyType, Reply
  <1>6. WireType
    BY HasFew DEF Init, WireType
  <1> QED
    BY <1>3, <1>4, <1>5, <1>6, TypeParts DEF StoreType

LEMMA StepType == TypeInv /\ [Next]_vars => TypeInv'
  <1> SUFFICES ASSUME TypeInv, [Next]_vars PROVE TypeInv'
    OBVIOUS
  <1>0. TypesBut /\ StoreType /\ WireType /\ ReplyType /\ TypeOK
    BY TypeParts DEF TypeInv
  <1>1. CASE Tick
    <2>1. TypesBut' /\ WireType' /\ ReplyType'
      BY <1>0, <1>1, SyncAssumption, SMTT(30) DEF Tick, TypesBut, WireType, ReplyType
    <2> QED
      BY <1>0, <1>1, <2>1, SameStore, TypeParts DEF Tick
  <1>2. CASE Break
    <2>1. state' = [n \in Nodes |-> "closed"] /\ wire' = [n \in Nodes |-> <<>>]
          /\ reply' = [n \in Nodes |-> Idle] /\ breaks' \in 0 .. MaxBreaks
          /\ UNCHANGED <<table, bases, now, left>>
      BY <1>0, <1>2, SyncAssumption, SMTT(30) DEF Break, TypesBut
    <2>2. PICK S \in SUBSET Nodes :
            passing' = [n \in Nodes |-> IF n \in S THEN {} ELSE passing[n]]
      BY <1>2 DEF Break
    <2>3. passing' \in [Nodes -> SUBSET Rows]
      BY <1>0, <2>2 DEF TypesBut
    <2>4. TypesBut' /\ ReplyType'
      BY <1>0, <2>1, <2>3 DEF TypesBut, ReplyType, Reply
    <2>5. WireType'
      BY <2>1, HasFew DEF WireType
    <2> QED
      BY <1>0, <2>1, <2>4, <2>5, SameStore, TypeParts
  <1>3. ASSUME NEW n \in Nodes, Established(n) PROVE TypeInv'
    <2>1. wire' \in [Nodes -> Seq(Message)]
      BY <1>0, <1>3, Sends, HasFew, MessageTypes DEF Established
    <2>2. TypesBut' /\ ReplyType'
      BY <1>0, <1>3 DEF Established, TypesBut, ReplyType
    <2> QED
      BY <1>0, <1>3, <2>1, <2>2, SameStore, TypeParts DEF Established, WireType
  <1>4. ASSUME NEW n \in Nodes, Secure(n) PROVE TypeInv'
    <2>1. TypesBut' /\ WireType' /\ ReplyType'
      BY <1>0, <1>4 DEF Secure, TypesBut, WireType, ReplyType
    <2> QED
      BY <1>0, <1>4, <2>1, SameStore, TypeParts DEF Secure
  <1>5. ASSUME NEW n \in Nodes, Receive(n) PROVE TypeInv'
    <2> DEFINE m == Head(wire[n])
    <2>1. wire[n] # <<>> /\ UNCHANGED <<state, now, breaks>> /\ m \in Message
      BY <1>0, <1>5, HasTail DEF Receive, WireType
    <2>2. CASE m.type = "initial" /\ Corroborated(n)
      <3>1. PICK I \in SUBSET Reported(n, "identities"), C \in SUBSET Reported(n, "channels") :
              /\ wire' = [wire EXCEPT ![n] = Tail(@), ![Other(n)] = @ \o
                            <<Report(n, "identities", I), Report(n, "channels", C)>>]
              /\ left' = [left EXCEPT ![n] = IF Wrapped(I) \/ Wrapped(C) THEN Rows ELSE {}]
              /\ UNCHANGED <<table, bases, reply, passing>>
        BY <2>2 DEF Corroborated
      <3>2. Report(n, "identities", I) \in Message /\ Report(n, "channels", C) \in Message
        BY ReportType DEF Kinds
      <3>3. <<Report(n, "identities", I), Report(n, "channels", C)>> \in Seq(Message)
        BY <3>2, HasFew
      <3>4. Other(n) \in Nodes /\ Tail(wire[n]) \in Seq(Message)
            /\ wire[Other(n)] \o <<Report(n, "identities", I), Report(n, "channels", C)>>
                 \in Seq(Message)
        BY <1>0, <2>1, <3>3, HasTail, HasConcat, OtherNode DEF WireType
      <3>5. WireType'
        BY <1>0, <3>1, <3>4 DEF WireType
      <3>6. TypesBut' /\ ReplyType'
        BY <1>0, <2>1, <3>1 DEF TypesBut, ReplyType
      <3> QED
        BY <1>0, <3>1, <3>5, <3>6, SameStore, TypeParts
    <2>3. CASE m.type = "history" /\ Process(n, m)
      <3>1. /\ m.of \in Kinds /\ m.threshold \in Int /\ m.spans \in SUBSET Span
        BY <2>1, <2>3, MessageTypes
      <3>2. m.spans \cup Ancient(m.spans) \in SUBSET Span
        BY <3>1 DEF Ancient, First, Span
      <3> DEFINE answer == [of |-> m.of, threshold |-> m.threshold,
                            spans |-> m.spans \cup Ancient(m.spans)]
      <3>3. answer \in Reply /\ Idle \in Reply
        BY <3>1, <3>2 DEF Reply
      <3>4. /\ reply' = [reply EXCEPT ![n] = IF ~Participates[n] THEN Idle ELSE answer]
            /\ left' = [left EXCEPT ![Other(n)] = IF Participates[n] THEN @ ELSE Rows]
            /\ wire' = [wire EXCEPT ![n] = Tail(@)]
            /\ UNCHANGED <<table, bases, passing>>
        BY <2>3 DEF Process
      <3> HIDE DEF answer, m
      <3>5. ReplyType'
        BY <1>0, <3>3, <3>4 DEF ReplyType
      <3>6. left' \in [Nodes -> SUBSET Rows]
        BY <1>0, <3>4 DEF TypesBut
      <3>7. TypesBut'
        BY <1>0, <2>1, <3>4, <3>6 DEF TypesBut
      <3>8. WireType'
        BY <1>0, <2>1, <3>4, Takes DEF WireType
      <3> QED
        BY <1>0, <3>4, <3>5, <3>7, <3>8, SameStore, TypeParts
    <2>4. CASE m.type = "entry" /\ Embrace(n, m.row)
      <3>1. m.row \in Rows
        BY <2>1, <2>4, MessageTypes
      <3>2. StoreType'
        <4>1. CASE Insert(n, m.row)
          BY <3>1, <4>1, Inserts DEF StoreType
        <4>2. CASE UNCHANGED <<table, bases>>
          BY <1>0, <4>2, SameStore
        <4> QED
          BY <2>4, <4>1, <4>2 DEF Embrace
      <3>3. WireType'
        BY <1>0, <2>1, <2>4, Takes DEF Embrace, WireType
      <3>4. TypesBut' /\ ReplyType'
        BY <1>0, <2>1, <2>4 DEF Embrace, TypesBut, ReplyType
      <3> QED
        BY <3>2, <3>3, <3>4, TypeParts
    <2> QED
      BY <1>5, <2>2, <2>3, <2>4 DEF Receive
  <1>6. ASSUME NEW n \in Nodes, Compare(n) PROVE TypeInv'
    <2> DEFINE k == reply[n].of
    <2>1. PICK s \in reply[n].spans :
            /\ reply' = [reply EXCEPT ![n].spans = @ \ {s}]
            /\ IF HasMore(n, k, s) THEN SendAll(n, Selected(n, k, s)) ELSE UNCHANGED wire
            /\ left' = [left EXCEPT ![Other(n)] = @ \cup Hidden(n, k, s)]
            /\ UNCHANGED <<table, bases, state, passing, now, breaks>>
      BY <1>6 DEF Compare, First
    <2>2. /\ reply[n] # Idle
          /\ reply[n] \in [of : Kinds, threshold : Int, spans : SUBSET Span]
      BY <1>0, <2>1 DEF ReplyType, Reply, Idle
    <2>3. ReplyType'
      <3>1. [reply[n] EXCEPT !.spans = @ \ {s}] \in Reply
        BY <2>2 DEF Reply
      <3>2. reply' = [reply EXCEPT ![n] = [reply[n] EXCEPT !.spans = @ \ {s}]]
        BY <2>1
      <3> QED
        BY <1>0, <3>1, <3>2 DEF ReplyType
    <2>4. WireType'
      <3>1. CASE HasMore(n, k, s)
        <4>1. Selected(n, k, s) \in SUBSET Rows
          BY <1>0, WithinOf DEF Selected
        <4>2. SendAll(n, Selected(n, k, s))
          BY <2>1, <3>1
        <4>3. PICK q \in Seq(Message) : Send(n, q)
          BY <4>1, <4>2, SentAll
        <4> QED
          BY <1>0, <4>3, Sends DEF WireType
      <3>2. CASE ~HasMore(n, k, s)
        BY <1>0, <2>1, <3>2 DEF WireType
      <3> QED
        BY <3>1, <3>2
    <2>5. Hidden(n, k, s) \in SUBSET Rows
      BY <1>0, WithinOf DEF Hidden
    <2>6. TypesBut'
      BY <1>0, <2>1, <2>5 DEF TypesBut
    <2> QED
      BY <1>0, <2>1, <2>3, <2>4, <2>6, SameStore, TypeParts
  <1>7. ASSUME NEW n \in Nodes, Finish(n) PROVE TypeInv'
    <2>1. /\ SendAll(n, Recent(n)) /\ reply' = [reply EXCEPT ![n] = Idle]
          /\ left' = [left EXCEPT ![Other(n)] =
               @ \cup {r \in Of(table[n], reply[n].of) \ passing[n] : Stamp[r] > now}]
          /\ UNCHANGED <<table, bases, state, passing, now, breaks>>
      BY <1>7 DEF Finish
    <2>2. Recent(n) \in SUBSET Rows
      BY <1>0, WithinOf DEF Recent
    <2>3. PICK q \in Seq(Message) : Send(n, q)
      BY <2>1, <2>2, SentAll
    <2>4. WireType'
      BY <1>0, <2>3, Sends DEF WireType
    <2>5. {r \in Of(table[n], reply[n].of) \ passing[n] : Stamp[r] > now} \in SUBSET Rows
      BY <1>0 DEF StoreType, Of
    <2>6. TypesBut' /\ ReplyType'
      BY <1>0, <2>1, <2>5 DEF TypesBut, ReplyType, Reply
    <2> QED
      BY <1>0, <2>1, <2>4, <2>6, SameStore, TypeParts
  <1>8. ASSUME NEW n \in Nodes, NEW r \in Rows, Arrive(n, r) PROVE TypeInv'
    <2>1. StoreType'
      BY <1>8, Inserts DEF Arrive, StoreType
    <2>2. TypesBut' /\ WireType' /\ ReplyType'
      <3>1. passing' \in [Nodes -> SUBSET Rows] /\ left' \in [Nodes -> SUBSET Rows]
        <4>1. CASE Old(r)
          BY <1>0, <1>8, <4>1, OtherNode DEF Arrive, TypesBut
        <4>2. CASE ~Old(r)
          BY <1>0, <1>8, <4>2 DEF Arrive, TypesBut
        <4> QED
          BY <4>1, <4>2
      <3> QED
        BY <1>0, <1>8, <3>1 DEF Arrive, TypesBut, WireType, ReplyType
    <2> QED
      BY <2>1, <2>2, TypeParts
  <1>9. ASSUME NEW n \in Nodes, NEW r \in Rows, Broadcast(n, r) PROVE TypeInv'
    <2>1. WireType'
      <3>1. CASE Reaches(n)
        <4>1. Send(n, <<Entry(r)>>) /\ <<Entry(r)>> \in Seq(Message)
          BY <1>9, <3>1, HasFew, MessageTypes DEF Broadcast
        <4> QED
          BY <1>0, <4>1, Sends DEF WireType
      <3>2. CASE ~Reaches(n)
        BY <1>0, <1>9, <3>2 DEF Broadcast, WireType
      <3> QED
        BY <3>1, <3>2
    <2>2. TypesBut' /\ ReplyType'
      BY <1>0, <1>9 DEF Broadcast, TypesBut, ReplyType
    <2> QED
      BY <1>0, <1>9, <2>1, <2>2, SameStore, TypeParts DEF Broadcast
  <1>10. CASE UNCHANGED vars
    <2>1. TypesBut' /\ WireType' /\ ReplyType'
      BY <1>0, <1>10 DEF vars, TypesBut, WireType, ReplyType
    <2> QED
      BY <1>0, <1>10, <2>1, SameStore, TypeParts DEF vars
  <1> QED
    BY <1>1, <1>2, <1>3, <1>4, <1>5, <1>6, <1>7, <1>8, <1>9, <1>10 DEF Next, Handle

\* Sync keeps its types.
THEOREM TypeCorrect == Spec => []TypeOK
  <1>1. TypeInv => TypeOK
    BY DEF TypeInv
  <1> QED
    BY <1>1, InitType, StepType, PTL DEF Spec

-----------------------------------------------------------------------------
(* The invariant behind CaughtUp. What a node does not have of the identities  *)
(* of the other is covered until it comes: by a request that has still to be    *)
(* made, by one that is under way, by what is left to answer of it, by a        *)
(* worker that has to pass it on, or by the entry under way.                   *)

IsRequest(m) == m.type = "history" /\ m.of = "identities"

Unasked(n)   == state[Other(n)] = "closed" \/ Has(wire[n], Initial)
Asking(n)    == \E m \in Message : IsRequest(m) /\ Has(wire[Other(n)], m)
Answering(n) == reply[Other(n)].of = "identities"

AtFront(w) == \A i \in DOMAIN w : w[i] = Initial => i = 1

\* A message comes from a connection, the first of them is Initial, and requests
\* are answered only over a connection that is secured.
Orderly(n) ==
  /\ state[Other(n)] = "closed" => wire[n] = <<>>
  /\ AtFront(wire[n])
  /\ reply[n] # Idle => state[n] = "secured"

\* There is no request before the node has been asked for it, and it waits for the
\* other to be secured.
Asked(n) ==
  /\ Unasked(n) => ~Asking(n) /\ ~Answering(n)
  /\ state[Other(n)] # "secured" => Unasked(n) \/ Asking(n)

\* What is asked is complete and true, unless it wrapped.
Sound(n) ==
  /\ \A m \in Message : IsRequest(m) /\ Has(wire[Other(n)], m) =>
       \/ left[n] = Rows
       \/ /\ Complete(AskedFor(m.spans), m.threshold)
          /\ Honest(n, AskedFor(m.spans))
  /\ Answering(n) => left[n] = Rows \/ Honest(n, reply[Other(n)].spans)

\* What is sent is there.
Owned(n) ==
  /\ \A r \in Rows : Has(wire[n], Entry(r)) => r \in table[Other(n)]
  /\ passing[n] \subseteq table[n]

Remains(n, r) ==
  \/ reply[Other(n)].threshold <= Stamp[r]
  \/ \E s \in reply[Other(n)].spans : s.from <= Stamp[r] /\ Stamp[r] <= s.to

Covered(n) ==
  \A r \in Rows :
    Kind[r] = "identities" /\ r \in table[Other(n)] /\ r \notin table[n] \cup left[n] =>
      \/ Unasked(n) \/ Asking(n)
      \/ Answering(n) /\ Remains(n, r)
      \/ Has(wire[n], Entry(r))
      \/ r \in passing[Other(n)]

NodeInv(n) == Orderly(n) /\ Asked(n) /\ Sound(n) /\ Owned(n) /\ Covered(n)
SyncInv == TypeInv /\ \A n \in Nodes : NodeInv(n)

LEMMA AtFrontConcat ==
  ASSUME NEW s \in Seq(Message), NEW t \in Seq(Message), AtFront(s), ~Has(t, Initial)
  PROVE  AtFront(s \o t)
  <1>1. /\ s \o t \in Seq(Message) /\ Len(s \o t) = Len(s) + Len(t)
        /\ \A i \in 1 .. Len(s) + Len(t) :
             (s \o t)[i] = IF i <= Len(s) THEN s[i] ELSE t[i - Len(s)]
    BY ConcatProperties
  <1>2. /\ DOMAIN s = 1 .. Len(s) /\ DOMAIN t = 1 .. Len(t)
        /\ DOMAIN (s \o t) = 1 .. Len(s) + Len(t)
        /\ Len(s) \in Nat /\ Len(t) \in Nat
    BY <1>1, LenProperties
  <1>3. ASSUME NEW i \in 1 .. Len(s) + Len(t), (s \o t)[i] = Initial PROVE i = 1
    <2>1. CASE i <= Len(s)
      <3>1. i \in DOMAIN s /\ s[i] = Initial
        BY <1>1, <1>2, <1>3, <2>1
      <3> QED
        BY <3>1 DEF AtFront
    <2>2. CASE ~(i <= Len(s))
      <3>1. i - Len(s) \in DOMAIN t /\ t[i - Len(s)] = Initial
        BY <1>1, <1>2, <1>3, <2>2
      <3> QED
        BY <3>1 DEF Has
    <2> QED
      BY <2>1, <2>2
  <1> QED
    BY <1>2, <1>3 DEF AtFront

LEMMA AtFrontTail ==
  ASSUME NEW s \in Seq(Message), s # <<>>, AtFront(s)
  PROVE  ~Has(Tail(s), Initial) /\ AtFront(Tail(s))
  <1>1. /\ Tail(s) \in Seq(Message) /\ Len(Tail(s)) = Len(s) - 1
        /\ \A i \in 1 .. Len(Tail(s)) : Tail(s)[i] = s[i + 1]
    BY HeadTailProperties
  <1>2. DOMAIN s = 1 .. Len(s) /\ DOMAIN Tail(s) = 1 .. Len(s) - 1 /\ Len(s) \in Nat
    BY <1>1, LenProperties
  <1>3. ~Has(Tail(s), Initial)
    <2> SUFFICES ASSUME NEW i \in 1 .. Len(s) - 1, Tail(s)[i] = Initial PROVE FALSE
      BY <1>2 DEF Has
    <2>1. i + 1 \in DOMAIN s /\ s[i + 1] = Initial
      BY <1>1, <1>2
    <2>2. i + 1 = 1
      BY <2>1 DEF AtFront
    <2> QED
      BY <1>2, <2>2
  <1> QED
    BY <1>3 DEF AtFront, Has

LEMMA AtFrontFew == AtFront(<<>>) /\ AtFront(<<Initial>>)
  BY DEF AtFront

LEMMA AskedSpans ==
  /\ \A S \in SUBSET Span : AskedFor(S) \in SUBSET Span
  /\ \A m \in Message : IsRequest(m) => AskedFor(m.spans) \in SUBSET Span
  <1>1. \A S \in SUBSET Span : AskedFor(S) \in SUBSET Span
    BY DEF AskedFor, Ancient, First, Span
  <1> QED
    BY <1>1, MessageTypes DEF IsRequest

\* A node that comes to have more still has what it said.
LEMMA HonestGrows ==
  ASSUME TypeInv, TypeInv', NEW n \in Nodes, NEW S \in SUBSET Span,
         Honest(n, S), table[n] \subseteq table'[n]
  PROVE  Honest(n, S)'
  <1> SUFFICES ASSUME NEW s \in S, s.number # Many
               PROVE  s.number <= Cardinality(Within(n, "identities", s.from, s.to))'
    BY DEF Honest
  <1> DEFINE W == Within(n, "identities", s.from, s.to)
  <1>1. W \in SUBSET W' /\ W' \in SUBSET Rows
    BY DEF Within, Of, TypeInv, TypeOK
  <1>2. Cardinality(W) \in Nat /\ Cardinality(W') \in Nat /\ Cardinality(W) <= Cardinality(W')
    <2> DEFINE V == W'
    <2>1. V \in SUBSET Rows /\ W \in SUBSET V
      BY <1>1
    <2> HIDE DEF V, W
    <2>2. IsFiniteSet(V) /\ Cardinality(V) \in Nat
      BY <2>1, FiniteRows
    <2>3. IsFiniteSet(W) /\ Cardinality(W) \in Nat /\ Cardinality(W) <= Cardinality(V)
      BY <2>1, <2>2, FS_Subset, FS_CardinalityType
    <2> QED
      BY <2>2, <2>3 DEF V
  <1>3. s.number <= Cardinality(W)
    BY DEF Honest
  <1>4. s.number \in Nat
    BY DEF Span
  <1> DEFINE a == Cardinality(W)
             b == Cardinality(W')
  <1>5. a \in Nat /\ b \in Nat /\ a <= b /\ s.number <= a
    BY <1>2, <1>3
  <1> HIDE DEF a, b
  <1>6. s.number <= b
    BY <1>4, <1>5
  <1> QED
    BY <1>6 DEF b

LEMMA SoundGrows ==
  ASSUME TypeInv, TypeInv', NEW n \in Nodes, Sound(n),
         table[n] \subseteq table'[n], left[n] \subseteq left'[n],
         \A m \in Message : IsRequest(m) /\ Has(wire'[Other(n)], m) => Has(wire[Other(n)], m),
         Answering(n)' => /\ Answering(n)
                          /\ reply'[Other(n)].spans \subseteq reply[Other(n)].spans
  PROVE  Sound(n)'
  <1>1. left[n] = Rows => left'[n] = Rows
    BY SMTT(30), ZenonT(60) DEF TypeInv, TypeOK
  <1>2. ASSUME NEW m \in Message, IsRequest(m), Has(wire'[Other(n)], m), left'[n] # Rows
        PROVE  /\ Complete(AskedFor(m.spans), m.threshold)
               /\ Honest(n, AskedFor(m.spans))'
    <2>1. /\ Complete(AskedFor(m.spans), m.threshold)
          /\ Honest(n, AskedFor(m.spans))
      BY <1>1, <1>2 DEF Sound
    <2>2. AskedFor(m.spans) \in SUBSET Span
      BY <1>2, AskedSpans
    <2> QED
      BY <2>1, <2>2, HonestGrows
  <1>3. ASSUME Answering(n)', left'[n] # Rows
        PROVE  Honest(n, reply[Other(n)].spans)'
    <2>1. PICK S : S = reply'[Other(n)].spans
      OBVIOUS
    <2>2. S \in SUBSET Span
      <3>1. reply' \in [Nodes -> Reply] /\ Other(n) \in Nodes
        BY TypeParts, OtherNode DEF ReplyType
      <3>2. reply'[Other(n)] \in Reply
        BY <3>1
      <3> QED
        BY <2>1, <3>2 DEF Reply, Idle
    <2>3. Honest(n, reply[Other(n)].spans)
      BY <1>1, <1>3 DEF Sound
    <2>4. Honest(n, S)
      BY <1>3, <2>1, <2>3 DEF Honest
    <2>5. Honest(n, S)'
      BY <2>2, <2>4, HonestGrows
    <2> QED
      BY <2>1, <2>5 DEF Honest
  <1> QED
    BY <1>2, <1>3 DEF Sound

LEMMA InitInv == Init => SyncInv
  <1> SUFFICES ASSUME Init PROVE SyncInv
    OBVIOUS
  <1>1. TypeInv
    BY InitType
  <1>2. ASSUME NEW n \in Nodes PROVE NodeInv(n)
    <2>1. /\ Other(n) \in Nodes /\ state[Other(n)] = "closed" /\ wire[n] = <<>>
          /\ wire[Other(n)] = <<>> /\ reply[n] = Idle /\ reply[Other(n)] = Idle
          /\ passing[n] = {}
      BY OtherNode DEF Init
    <2>2. Orderly(n)
      BY <2>1, AtFrontFew DEF Orderly
    <2>3. ~Asking(n) /\ ~Answering(n)
      BY <2>1, HasFew DEF Asking, Answering, Idle
    <2>4. Unasked(n)
      BY <2>1 DEF Unasked
    <2>5. Sound(n) /\ Owned(n)
      BY <2>1, <2>3, HasFew DEF Sound, Owned, Asking
    <2> QED
      BY <2>2, <2>3, <2>4, <2>5 DEF NodeInv, Asked, Covered
  <1> QED
    BY <1>1, <1>2 DEF SyncInv

\* Steps that leave the tables, the wire and the answers alone.
LEMMA StillInv ==
  ASSUME SyncInv, TypeInv', UNCHANGED <<table, wire, reply, passing, left>>,
         \A n \in Nodes : /\ state'[n] = "closed" <=> state[n] = "closed"
                          /\ state[n] = "secured" => state'[n] = "secured"
  PROVE  SyncInv'
  <1> SUFFICES ASSUME NEW n \in Nodes PROVE NodeInv(n)'
    BY DEF SyncInv
  <1>1. NodeInv(n) /\ TypeInv /\ Other(n) \in Nodes
    BY OtherNode DEF SyncInv
  <1>2. Orderly(n)'
    BY <1>1 DEF NodeInv, Orderly
  <1>3. Unasked(n)' <=> Unasked(n)
    BY <1>1 DEF Unasked
  <1>4. (Asking(n)' <=> Asking(n)) /\ (Answering(n)' <=> Answering(n))
    BY DEF Asking, Answering
  <1>5. Asked(n)'
    BY <1>1, <1>3, <1>4 DEF NodeInv, Asked
  <1>6. Sound(n)'
    BY <1>1, <1>4, SoundGrows DEF NodeInv
  <1>7. Owned(n)'
    BY <1>1 DEF NodeInv, Owned
  <1>9. Covered(n)'
    BY <1>1, <1>3, <1>4 DEF NodeInv, Covered, Remains
  <1> QED
    BY <1>2, <1>5, <1>6, <1>7, <1>9 DEF NodeInv

LEMMA BreakInv == ASSUME SyncInv, TypeInv', Break PROVE SyncInv'
  <1> SUFFICES ASSUME NEW n \in Nodes PROVE NodeInv(n)'
    BY DEF SyncInv
  <1>1. /\ Other(n) \in Nodes /\ state'[n] = "closed" /\ state'[Other(n)] = "closed"
        /\ wire'[n] = <<>> /\ wire'[Other(n)] = <<>>
        /\ reply'[n] = Idle /\ reply'[Other(n)] = Idle /\ table' = table
    BY OtherNode DEF Break
  <1>2. passing'[n] \subseteq passing[n] /\ passing[n] \subseteq table[n]
    BY DEF Break, SyncInv, NodeInv, Owned
  <1>3. Orderly(n)'
    BY <1>1, AtFrontFew DEF Orderly
  <1>4. ~Asking(n)' /\ ~Answering(n)' /\ Unasked(n)'
    BY <1>1, HasFew DEF Asking, Answering, Unasked, Idle
  <1>5. Sound(n)' /\ Owned(n)'
    BY <1>1, <1>2, <1>4, HasFew DEF Sound, Owned, Asking
  <1> QED
    BY <1>3, <1>4, <1>5 DEF NodeInv, Asked, Covered

LEMMA EstablishedInv ==
  ASSUME SyncInv, TypeInv', NEW x \in Nodes, Established(x) PROVE SyncInv'
  <1> DEFINE y == Other(x)
  <1>1. /\ y \in Nodes /\ x # y /\ Other(y) = x /\ \A n \in Nodes : n = x \/ n = y
        /\ TypeInv /\ NodeInv(x) /\ NodeInv(y) /\ TypeOK
    BY OtherNode DEF SyncInv, TypeInv
  <1> HIDE DEF y
  <1>2. /\ state[x] = "closed" /\ state'[x] = "securing" /\ state'[y] = state[y]
        /\ UNCHANGED <<table, reply, passing, left>>
    BY <1>1 DEF Established, TypeOK
  <1>3. wire[y] = <<>> /\ reply[x] = Idle
    BY <1>1, <1>2 DEF NodeInv, Orderly
  <1>4. wire'[x] = wire[x] /\ wire'[y] = <<Initial>>
    <2>1. Send(x, <<Initial>>) /\ <<Initial>> \in Seq(Message)
      BY HasFew, MessageTypes DEF Established
    <2>2. wire'[x] = wire[x] /\ wire'[y] = wire[y] \o <<Initial>>
      BY <1>1, <2>1, Sends DEF y
    <2> QED
      BY <1>3, <2>1, <2>2, ConcatEmptySeq
  <1>5. \A m : Has(wire'[y], m) <=> m = Initial
    BY <1>4, HasFew, MessageTypes
  <1>6. \A m : ~Has(wire[y], m)
    BY <1>3, HasFew
  <1>7. NodeInv(y)'
    <2>1. Orderly(y)'
      BY <1>1, <1>2, <1>3, <1>4, AtFrontFew DEF NodeInv, Orderly
    <2>2. Unasked(y)' /\ Unasked(y)
      BY <1>1, <1>2, <1>5 DEF Unasked
    <2>3. ~Asking(y)' /\ ~Answering(y)'
      BY <1>1, <1>2, <1>4, <2>2 DEF NodeInv, Asked, Asking, Answering
    <2>4. Sound(y)'
      BY <2>3 DEF Sound, Asking
    <2>5. Owned(y)'
      BY <1>1, <1>2, <1>5, MessageTypes DEF NodeInv, Owned
    <2> QED
      BY <2>1, <2>2, <2>3, <2>4, <2>5 DEF NodeInv, Asked, Covered
  <1>8. NodeInv(x)'
    <2>1. Orderly(x)'
      BY <1>1, <1>2, <1>3, <1>4 DEF NodeInv, Orderly, y
    <2>2. ~Asking(x)' /\ ~Asking(x)
      BY <1>1, <1>5, <1>6 DEF Asking, IsRequest, Initial, y
    <2>3. Unasked(x)' <=> Unasked(x)
      BY <1>1, <1>2, <1>4 DEF Unasked, y
    <2>4. Answering(x)' <=> Answering(x)
      BY <1>2 DEF Answering
    <2>5. Asked(x)'
      BY <1>1, <1>2, <2>2, <2>3, <2>4 DEF NodeInv, Asked, y
    <2>6. Sound(x)'
      BY <1>1, <1>2, <2>2, <2>4, SoundGrows DEF NodeInv, Asking
    <2>7. Owned(x)'
      BY <1>1, <1>2, <1>4 DEF NodeInv, Owned
    <2>8. Covered(x)'
      BY <1>1, <1>2, <1>4, <2>2, <2>3, <2>4 DEF NodeInv, Covered, Remains
    <2> QED
      BY <2>1, <2>5, <2>6, <2>7, <2>8 DEF NodeInv
  <1> QED
    BY <1>1, <1>7, <1>8 DEF SyncInv

-----------------------------------------------------------------------------
(* Steps of a node that send entries: Compare, Finish and Broadcast.           *)

\* What `x` puts on the wire are the entries of `S`.
Posted(x, S) ==
  /\ wire'[x] = wire[x]
  /\ AtFront(wire[Other(x)]) => AtFront(wire'[Other(x)])
  /\ \A m : Has(wire'[Other(x)], m) <=>
              Has(wire[Other(x)], m) \/ \E r \in S : m = Entry(r)

LEMMA PostedBy ==
  ASSUME TypeInv, NEW x \in Nodes, NEW S \in SUBSET Rows, NEW q \in Seq(Message),
         Send(x, q), \A m : Has(q, m) <=> \E r \in S : m = Entry(r)
  PROVE  Posted(x, S)
  <1>1. /\ wire'[x] = wire[x] /\ wire'[Other(x)] = wire[Other(x)] \o q
        /\ \A m : Has(wire'[Other(x)], m) <=> Has(wire[Other(x)], m) \/ Has(q, m)
    BY Sends DEF TypeInv
  <1>2. ~Has(q, Initial)
    BY MessageTypes
  <1>3. wire[Other(x)] \in Seq(Message)
    BY OtherNode DEF TypeInv, TypeOK
  <1>4. AtFront(wire[Other(x)]) => AtFront(wire'[Other(x)])
    BY <1>1, <1>2, <1>3, AtFrontConcat
  <1> QED
    BY <1>1, <1>4 DEF Posted

LEMMA PostedAll ==
  ASSUME TypeInv, NEW x \in Nodes, NEW S \in SUBSET Rows, SendAll(x, S)
  PROVE  Posted(x, S)
  <1>1. PICK q \in Seq(Message) : /\ Send(x, q)
                                  /\ \A m : Has(q, m) <=> \E r \in S : m = Entry(r)
    BY SentAll
  <1> QED
    BY <1>1, PostedBy

LEMMA PostedOne ==
  ASSUME TypeInv, NEW x \in Nodes, NEW r \in Rows, Send(x, <<Entry(r)>>)
  PROVE  Posted(x, {r})
  <1>1. /\ <<Entry(r)>> \in Seq(Message)
        /\ \A m : Has(<<Entry(r)>>, m) <=> \E o \in {r} : m = Entry(o)
    BY MessageTypes, HasFew
  <1> QED
    BY <1>1, PostedBy

LEMMA PostedNone == ASSUME NEW x, UNCHANGED wire PROVE Posted(x, {})
  BY DEF Posted

\* What such a step leaves to be shown is what the other node is told.
LEMMA Delivers ==
  ASSUME SyncInv, TypeInv', NEW x \in Nodes, NEW S \in SUBSET table[x], Posted(x, S),
         state[x] = "secured" \/ UNCHANGED wire, UNCHANGED <<table, state>>,
         reply'[Other(x)] = reply[Other(x)], reply'[x] # Idle => reply[x] # Idle,
         left'[x] = left[x],
         passing'[x] \subseteq passing[x], passing'[Other(x)] = passing[Other(x)]
  PROVE  /\ NodeInv(x)' /\ Orderly(Other(x))' /\ Owned(Other(x))'
         /\ Unasked(Other(x))' <=> Unasked(Other(x))
         /\ Asking(Other(x))' <=> Asking(Other(x))
  <1> DEFINE y == Other(x)
  <1>1. /\ y \in Nodes /\ x # y /\ Other(y) = x /\ \A n \in Nodes : n = x \/ n = y
        /\ TypeInv /\ NodeInv(x) /\ NodeInv(y) /\ TypeOK /\ y = Other(x)
    BY OtherNode DEF SyncInv, TypeInv
  <1> HIDE DEF y
  <1>2. /\ wire'[x] = wire[x]
        /\ AtFront(wire[y]) => AtFront(wire'[y])
        /\ \A m : Has(wire'[y], m) <=> Has(wire[y], m) \/ \E r \in S : m = Entry(r)
    BY DEF Posted, y
  <1>3. S \in SUBSET Rows /\ \A r \in S : Entry(r) # Initial /\ ~IsRequest(Entry(r))
    BY <1>1, MessageTypes DEF TypeOK, IsRequest
  <1>4. Has(wire'[y], Initial) <=> Has(wire[y], Initial)
    BY <1>2, <1>3
  <1>5. \A m \in Message : IsRequest(m) => (Has(wire'[y], m) <=> Has(wire[y], m))
    BY <1>2, <1>3
  <1>6. /\ Unasked(y)' <=> Unasked(y)
        /\ Asking(y)' <=> Asking(y)
    BY <1>1, <1>2, <1>4 DEF Unasked, Asking
  <1>7. /\ Unasked(x)' <=> Unasked(x)
        /\ Asking(x)' <=> Asking(x)
        /\ Answering(x)' <=> Answering(x)
    BY <1>1, <1>2, <1>5 DEF Unasked, Asking, Answering
  <1>8. Orderly(y)'
    BY <1>1, <1>2 DEF NodeInv, Orderly
  <1>9. Owned(y)'
    <2>1. ASSUME NEW r \in Rows, Has(wire'[y], Entry(r)) PROVE r \in table'[x]
      <3>1. CASE Has(wire[y], Entry(r))
        BY <1>1, <3>1 DEF NodeInv, Owned
      <3>2. CASE ~Has(wire[y], Entry(r))
        <4>1. PICK o \in S : Entry(r) = Entry(o)
          BY <1>2, <2>1, <3>2
        <4> QED
          BY <1>3, <4>1, MessageTypes
      <3> QED
        BY <3>1, <3>2
    <2> QED
      BY <1>1, <2>1 DEF NodeInv, Owned, y
  <1>10. NodeInv(x)'
    <2>1. Orderly(x)'
      BY <1>1, <1>2 DEF NodeInv, Orderly
    <2>2. Asked(x)'
      BY <1>1, <1>7 DEF NodeInv, Asked
    <2>3. Sound(x)'
      <3>1. \A m \in Message : IsRequest(m) /\ Has(wire'[y], m) => Has(wire[y], m)
        BY <1>5
      <3>2. Answering(x)' => Answering(x) /\ reply'[y].spans \subseteq reply[y].spans
        BY <1>1, <1>7 DEF y
      <3> QED
        BY <1>1, <3>1, <3>2, SoundGrows DEF NodeInv
    <2>4. Owned(x)'
      BY <1>1, <1>2 DEF NodeInv, Owned
    <2>5. Covered(x)'
      BY <1>1, <1>2, <1>7 DEF NodeInv, Covered, Remains
    <2> QED
      BY <2>1, <2>2, <2>3, <2>4, <2>5 DEF NodeInv
  <1> QED
    BY <1>6, <1>8, <1>9, <1>10 DEF y

-----------------------------------------------------------------------------
(* Steps of a node that takes a message.                                       *)

\* What holds whatever the message is, but for the first of a connection.
LEMMA Handled ==
  ASSUME SyncInv, NEW x \in Nodes, wire[x] # <<>>, wire' = [wire EXCEPT ![x] = Tail(@)],
         Head(wire[x]).type # "initial", state[x] = "secured",
         UNCHANGED state, reply'[Other(x)] = reply[Other(x)]
  PROVE  /\ wire'[Other(x)] = wire[Other(x)] /\ Head(wire[x]) \in Message
         /\ \A m : Has(wire[x], m) <=> m = Head(wire[x]) \/ Has(wire'[x], m)
         /\ Orderly(x)' /\ Orderly(Other(x))'
         /\ Unasked(x)' <=> Unasked(x)
         /\ Unasked(Other(x))' <=> Unasked(Other(x))
         /\ Asking(x)' <=> Asking(x)
         /\ Answering(x)' <=> Answering(x)
  <1> DEFINE y == Other(x)
  <1>1. /\ y \in Nodes /\ x # y /\ Other(y) = x
        /\ TypeInv /\ NodeInv(x) /\ NodeInv(y) /\ TypeOK /\ y = Other(x)
    BY OtherNode DEF SyncInv, TypeInv
  <1> HIDE DEF y
  <1>2. /\ wire'[y] = wire[y] /\ wire'[x] = Tail(wire[x]) /\ Head(wire[x]) \in Message
        /\ \A m : Has(wire[x], m) <=> m = Head(wire[x]) \/ Has(wire'[x], m)
    BY <1>1, Takes
  <1>3. Has(wire'[x], Initial) <=> Has(wire[x], Initial)
    BY <1>2, MessageTypes
  <1>4. AtFront(wire'[x])
    <2>1. wire[x] \in Seq(Message) /\ AtFront(wire[x])
      BY <1>1 DEF TypeOK, NodeInv, Orderly
    <2> QED
      BY <1>2, <2>1, AtFrontTail
  <1>5. Orderly(x)'
    BY <1>1, <1>4 DEF NodeInv, Orderly
  <1>6. Orderly(y)'
    BY <1>1, <1>2 DEF NodeInv, Orderly
  <1>7. /\ Unasked(x)' <=> Unasked(x)
        /\ Unasked(y)' <=> Unasked(y)
    BY <1>1, <1>2, <1>3 DEF Unasked
  <1>8. /\ Asking(x)' <=> Asking(x)
        /\ Answering(x)' <=> Answering(x)
    BY <1>1, <1>2 DEF Asking, Answering
  <1> QED
    BY <1>2, <1>5, <1>6, <1>7, <1>8 DEF y

LEMMA ProcessInv ==
  ASSUME SyncInv, TypeInv', NEW x \in Nodes, Receive(x),
         Head(wire[x]).type = "history", Process(x, Head(wire[x]))
  PROVE  SyncInv'
  <1> DEFINE y == Other(x)
             m == Head(wire[x])
  <1>1. /\ y \in Nodes /\ x # y /\ Other(y) = x /\ \A n \in Nodes : n = x \/ n = y
        /\ TypeInv /\ NodeInv(x) /\ NodeInv(y) /\ TypeOK /\ y = Other(x)
    BY OtherNode DEF SyncInv, TypeInv
  <1>2. /\ state[x] = "secured" /\ reply[x] = Idle /\ wire[x] # <<>>
        /\ wire' = [wire EXCEPT ![x] = Tail(@)]
        /\ UNCHANGED <<table, state, passing>>
    BY DEF Receive, Process
  <1>3. /\ reply'[y] = reply[y] /\ left'[x] = left[x]
        /\ reply'[x] = IF ~Participates[x] THEN Idle
                       ELSE [of |-> m.of, threshold |-> m.threshold, spans |-> AskedFor(m.spans)]
        /\ left'[y] = IF Participates[x] THEN left[y] ELSE Rows
    BY <1>1 DEF Process, TypeOK, AskedFor
  <1> HIDE DEF y, m
  <1>4. /\ wire'[y] = wire[y] /\ m \in Message
        /\ \A o : Has(wire[x], o) <=> o = m \/ Has(wire'[x], o)
        /\ Orderly(x)' /\ Orderly(y)'
        /\ Unasked(x)' <=> Unasked(x)
        /\ Unasked(y)' <=> Unasked(y)
        /\ Asking(x)' <=> Asking(x)
        /\ Answering(x)' <=> Answering(x)
    BY <1>2, <1>3, Handled DEF y, m
  <1>5. m.type = "history"
    BY DEF m
  <1>6. NodeInv(x)'
    <2>1. Asked(x)'
      BY <1>1, <1>2, <1>4 DEF NodeInv, Asked
    <2>2. Sound(x)'
      <3>1. \A o \in Message : IsRequest(o) /\ Has(wire'[y], o) => Has(wire[y], o)
        BY <1>4
      <3>2. Answering(x)' => Answering(x) /\ reply'[y].spans \subseteq reply[y].spans
        BY <1>3, <1>4
      <3> QED
        BY <1>1, <1>2, <1>3, <3>1, <3>2, SoundGrows DEF NodeInv
    <2>3. Owned(x)'
      BY <1>1, <1>2, <1>4 DEF NodeInv, Owned
    <2>4. Covered(x)'
      BY <1>1, <1>2, <1>3, <1>4, <1>5, MessageTypes DEF NodeInv, Covered, Remains
    <2> QED
      BY <1>4, <2>1, <2>2, <2>3, <2>4 DEF NodeInv
  <1>7. Answering(y)' => IsRequest(m) /\ Participates[x]
    BY <1>1, <1>3, <1>5 DEF Answering, IsRequest, Idle
  <1>8. Asking(y)' => Asking(y)
    BY <1>1, <1>4 DEF Asking
  <1>9. IsRequest(m) => Asking(y)
    BY <1>1, <1>4 DEF Asking
  <1>10. NodeInv(y)'
    <2>1. Asked(y)'
      BY <1>1, <1>2, <1>4, <1>7, <1>8, <1>9 DEF NodeInv, Asked
    <2>2. Sound(y)'
      <3>1. left[y] = Rows => left'[y] = Rows
        BY <1>3
      <3>2. ASSUME NEW o \in Message, IsRequest(o), Has(wire[x], o), left'[y] # Rows
            PROVE  /\ Complete(AskedFor(o.spans), o.threshold)
                   /\ Honest(y, AskedFor(o.spans)) /\ Honest(y, AskedFor(o.spans))'
        <4>1. /\ Complete(AskedFor(o.spans), o.threshold)
              /\ Honest(y, AskedFor(o.spans))
          BY <1>1, <3>1, <3>2 DEF NodeInv, Sound
        <4>2. AskedFor(o.spans) \in SUBSET Span
          BY <3>2, AskedSpans
        <4>3. table[y] \subseteq table'[y]
          BY <1>2
        <4>4. Honest(y, AskedFor(o.spans))'
          BY <1>1, <4>1, <4>2, <4>3, HonestGrows
        <4> QED
          BY <4>1, <4>4
      <3>3. ASSUME NEW o \in Message, IsRequest(o), Has(wire'[x], o), left'[y] # Rows
            PROVE  /\ Complete(AskedFor(o.spans), o.threshold)
                   /\ Honest(y, AskedFor(o.spans))'
        BY <1>4, <3>2, <3>3
      <3>4. ASSUME Answering(y)', left'[y] # Rows
            PROVE  Honest(y, reply[x].spans)'
        <4>1. PICK o \in Message : o = m
          BY <1>4
        <4>2. IsRequest(o) /\ Has(wire[x], o) /\ reply'[x].spans = AskedFor(o.spans)
          BY <1>3, <1>4, <1>7, <3>4, <4>1
        <4>3. Honest(y, AskedFor(o.spans))'
          BY <3>2, <3>4, <4>2
        <4>4. reply[x].spans' = AskedFor(o.spans)'
          BY <4>2
        <4> QED
          BY <4>3, <4>4 DEF Honest
      <3> QED
        BY <1>1, <3>3, <3>4 DEF Sound
    <2>3. Owned(y)'
      BY <1>1, <1>2, <1>4 DEF NodeInv, Owned
    <2>4. Covered(y)'
      <3> SUFFICES ASSUME NEW r \in Rows, Kind[r] = "identities", r \in table[x],
                          r \notin table[y], r \notin left'[y]
                   PROVE  \/ Unasked(y)' \/ Asking(y)'
                          \/ Answering(y)' /\ Remains(y, r)'
                          \/ Has(wire[y], Entry(r)) \/ r \in passing[x]
        BY <1>1, <1>2, <1>4 DEF Covered
      <3>1. left'[y] = left[y] /\ Participates[x] /\ left[y] # Rows
        BY <1>3
      <3>2. Unasked(y) \/ Asking(y) \/ Has(wire[y], Entry(r)) \/ r \in passing[x]
        <4>1. ~Answering(y)
          BY <1>1, <1>2 DEF Answering, Idle
        <4> QED
          BY <1>1, <3>1, <4>1 DEF NodeInv, Covered
      <3>3. ASSUME Asking(y), ~Asking(y)' PROVE Answering(y)' /\ Remains(y, r)'
        <4>1. IsRequest(m)
          BY <1>1, <1>4, <3>3 DEF Asking
        <4>2. /\ reply'[x].of = "identities" /\ reply'[x].threshold = m.threshold
              /\ reply'[x].spans = AskedFor(m.spans)
          BY <1>3, <3>1, <4>1 DEF IsRequest
        <4>3. Complete(AskedFor(m.spans), m.threshold)
          BY <1>1, <1>4, <3>1, <4>1 DEF NodeInv, Sound
        <4>4. Stamp[r] \in Nat /\ m.threshold \in Int
          BY <1>4, <1>5, MessageTypes, SyncAssumption
        <4> QED
          BY <1>1, <4>2, <4>3, <4>4 DEF Answering, Remains, Complete
      <3> QED
        BY <1>4, <3>2, <3>3
    <2> QED
      BY <1>4, <2>1, <2>2, <2>3, <2>4 DEF NodeInv
  <1> QED
    BY <1>1, <1>6, <1>10 DEF SyncInv

LEMMA EmbraceInv ==
  ASSUME SyncInv, TypeInv', NEW x \in Nodes, Receive(x),
         Head(wire[x]).type = "entry", Embrace(x, Head(wire[x]).row)
  PROVE  SyncInv'
  <1> DEFINE y == Other(x)
  <1>1. /\ y \in Nodes /\ x # y /\ Other(y) = x /\ \A n \in Nodes : n = x \/ n = y
        /\ TypeInv /\ NodeInv(x) /\ NodeInv(y) /\ TypeOK /\ y = Other(x)
    BY OtherNode DEF SyncInv, TypeInv
  <1>2. /\ state[x] = "secured" /\ reply[x] = Idle /\ wire[x] # <<>>
        /\ wire' = [wire EXCEPT ![x] = Tail(@)]
        /\ UNCHANGED <<state, reply, passing, left>>
    BY DEF Receive, Embrace
  <1> HIDE DEF y
  <1>3. /\ wire'[y] = wire[y] /\ Head(wire[x]) \in Message
        /\ \A o : Has(wire[x], o) <=> o = Head(wire[x]) \/ Has(wire'[x], o)
        /\ Orderly(x)' /\ Orderly(y)'
        /\ Unasked(x)' <=> Unasked(x)
        /\ Unasked(y)' <=> Unasked(y)
        /\ Asking(x)' <=> Asking(x)
        /\ Answering(x)' <=> Answering(x)
    BY <1>2, Handled DEF y
  <1>4. PICK r \in Rows : r = Head(wire[x]).row /\ Head(wire[x]) = Entry(r)
    BY <1>3, MessageTypes
  <1>5. /\ table'[y] = table[y] /\ table[x] \subseteq table'[x]
        /\ table'[x] \subseteq table[x] \cup {r}
        /\ Kind[r] = "identities" => r \in table'[x]
    <2>1. DOMAIN table = Nodes /\ x \in Nodes /\ y \in Nodes /\ x # y
      BY <1>1 DEF TypeOK
    <2>2. \/ r \notin table[x] /\ Known(x, r) /\ table' = [table EXCEPT ![x] = @ \cup {r}]
          \/ (r \in table[x] \/ ~Known(x, r)) /\ table' = table
      BY <1>4 DEF Embrace, Insert
    <2> QED BY <2>1, <2>2 DEF Known
  <1>6. r \in table[y]
    BY <1>1, <1>3, <1>4 DEF NodeInv, Owned
  <1>7. \A o \in Message : IsRequest(o) => (Has(wire'[x], o) <=> Has(wire[x], o))
    BY <1>3, <1>4, MessageTypes DEF IsRequest
  <1>8. /\ Asking(y)' <=> Asking(y)
        /\ Answering(y)' <=> Answering(y)
    BY <1>1, <1>2, <1>7 DEF Asking, Answering
  <1>9. NodeInv(x)'
    <2>1. Asked(x)'
      BY <1>1, <1>2, <1>3 DEF NodeInv, Asked
    <2>2. Sound(x)'
      BY <1>1, <1>2, <1>3, <1>5, SoundGrows DEF NodeInv
    <2>3. Owned(x)'
      BY <1>1, <1>2, <1>3, <1>5 DEF NodeInv, Owned
    <2>4. \A q \in Rows : Has(wire[x], Entry(q)) => q = r \/ Has(wire'[x], Entry(q))
      BY <1>3, <1>4, MessageTypes
    <2>5. Covered(x)'
      BY <1>1, <1>2, <1>3, <1>5, <2>4 DEF NodeInv, Covered, Remains
    <2> QED
      BY <1>3, <2>1, <2>2, <2>3, <2>5 DEF NodeInv
  <1>10. NodeInv(y)'
    <2>1. Asked(y)'
      BY <1>1, <1>2, <1>3, <1>8 DEF NodeInv, Asked
    <2>2. Sound(y)'
      BY <1>1, <1>2, <1>5, <1>7, <1>8, SoundGrows DEF NodeInv
    <2>3. Owned(y)'
      BY <1>1, <1>2, <1>3, <1>5 DEF NodeInv, Owned
    <2>4. Covered(y)'
      BY <1>1, <1>2, <1>3, <1>5, <1>6, <1>8 DEF NodeInv, Covered, Remains
    <2> QED
      BY <1>3, <2>1, <2>2, <2>3, <2>4 DEF NodeInv
  <1> QED
    BY <1>1, <1>9, <1>10 DEF SyncInv

LEMMA ArriveInv ==
  ASSUME SyncInv, TypeInv', NEW x \in Nodes, NEW r \in Rows, Arrive(x, r)
  PROVE  SyncInv'
  <1> DEFINE y == Other(x)
  <1>1. /\ y \in Nodes /\ x # y /\ Other(y) = x /\ \A n \in Nodes : n = x \/ n = y
        /\ TypeInv /\ NodeInv(x) /\ NodeInv(y) /\ TypeOK /\ y = Other(x)
    BY OtherNode DEF SyncInv, TypeInv
  <1>2. UNCHANGED <<state, wire, reply>>
    BY DEF Arrive
  <1>3. /\ table'[y] = table[y] /\ table'[x] = table[x] \cup {r}
        /\ left'[x] = left[x] /\ left[y] \subseteq left'[y]
        /\ passing'[y] = passing[y] /\ passing[x] \subseteq passing'[x]
        /\ passing'[x] \subseteq passing[x] \cup {r}
        /\ r \in left'[y] \cup passing'[x]
    <2>1. table' = [table EXCEPT ![x] = @ \cup {r}]
      BY DEF Arrive, Insert
    <2>2. CASE Old(r)
      <3>1. left' = [left EXCEPT ![y] = @ \cup {r}] /\ UNCHANGED passing
        BY <2>2 DEF Arrive
      <3> HIDE DEF y
      <3> QED
        BY <1>1, <2>1, <3>1 DEF TypeOK
    <2>3. CASE ~Old(r)
      <3>1. passing' = [passing EXCEPT ![x] = @ \cup {r}] /\ UNCHANGED left
        BY <2>3 DEF Arrive
      <3> HIDE DEF y
      <3> QED
        BY <1>1, <2>1, <3>1 DEF TypeOK
    <2> QED
      BY <2>2, <2>3
  <1> HIDE DEF y
  <1>4. ASSUME NEW n \in Nodes
        PROVE  /\ Orderly(n)' /\ Asked(n)' /\ Owned(n)'
               /\ Unasked(n)' <=> Unasked(n)
               /\ Asking(n)' <=> Asking(n)
               /\ Answering(n)' <=> Answering(n)
    <2>1. NodeInv(n)
      BY <1>1
    <2>2. Orderly(n)'
      BY <1>2, <2>1 DEF NodeInv, Orderly
    <2>3. /\ Unasked(n)' <=> Unasked(n)
          /\ Asking(n)' <=> Asking(n)
          /\ Answering(n)' <=> Answering(n)
      BY <1>2 DEF Unasked, Asking, Answering
    <2>4. Asked(n)'
      BY <1>2, <2>1, <2>3 DEF NodeInv, Asked
    <2>5. Owned(n)'
      BY <1>1, <1>2, <1>3, <2>1 DEF NodeInv, Owned
    <2> QED
      BY <2>2, <2>3, <2>4, <2>5
  <1>5. Sound(x)' /\ Sound(y)'
    BY <1>1, <1>2, <1>3, <1>4, SoundGrows DEF NodeInv
  <1>6. Covered(x)'
    BY <1>1, <1>2, <1>3, <1>4 DEF NodeInv, Covered, Remains
  <1>7. Covered(y)'
    BY <1>1, <1>2, <1>3, <1>4 DEF NodeInv, Covered, Remains
  <1> QED
    BY <1>1, <1>4, <1>5, <1>6, <1>7 DEF SyncInv, NodeInv

LEMMA BroadcastInv ==
  ASSUME SyncInv, TypeInv', NEW x \in Nodes, NEW r \in Rows, Broadcast(x, r)
  PROVE  SyncInv'
  <1> DEFINE y == Other(x)
             S == IF Reaches(x) THEN {r} ELSE {}
  <1>1. /\ y \in Nodes /\ x # y /\ Other(y) = x /\ \A n \in Nodes : n = x \/ n = y
        /\ TypeInv /\ NodeInv(x) /\ NodeInv(y) /\ TypeOK /\ y = Other(x)
    BY OtherNode DEF SyncInv, TypeInv
  <1> HIDE DEF y
  <1>2. /\ UNCHANGED <<table, state, reply, left>>
        /\ passing'[x] = passing[x] \ {r} /\ passing'[y] = passing[y] /\ r \in passing[x]
    BY <1>1 DEF Broadcast, TypeOK
  <1>3. S \in SUBSET table[x] /\ Posted(x, S) /\ (state[x] = "secured" \/ UNCHANGED wire)
    <2>1. r \in table[x]
      BY <1>1, <1>2 DEF NodeInv, Owned
    <2>2. CASE Reaches(x)
      BY <1>1, <2>1, <2>2, PostedOne DEF Broadcast, Reaches
    <2>3. CASE ~Reaches(x)
      BY <2>3, PostedNone DEF Broadcast
    <2> QED
      BY <2>2, <2>3
  <1> HIDE DEF S
  <1>4. /\ NodeInv(x)' /\ Orderly(y)' /\ Owned(y)'
        /\ Unasked(y)' <=> Unasked(y)
        /\ Asking(y)' <=> Asking(y)
    BY <1>2, <1>3, Delivers DEF y
  <1>5. Answering(y)' <=> Answering(y)
    BY <1>2 DEF Answering
  <1>6. NodeInv(y)'
    <2>1. Asked(y)'
      BY <1>1, <1>2, <1>4, <1>5 DEF NodeInv, Asked
    <2>2. \A m : Has(wire'[y], m) <=> Has(wire[y], m) \/ \E q \in S : m = Entry(q)
      BY <1>3 DEF Posted, y
    <2>3. Sound(y)'
      <3>1. wire'[x] = wire[x]
        BY <1>3 DEF Posted
      <3> QED
        BY <1>1, <1>2, <1>5, <3>1, SoundGrows DEF NodeInv
    <2>4. Covered(y)'
      <3>1. CASE Reaches(x)
        <4>1. Has(wire'[y], Entry(r))
          BY <2>2, <3>1 DEF S
        <4> QED
          BY <1>1, <1>2, <1>4, <1>5, <2>2, <4>1 DEF NodeInv, Covered, Remains
      <3>2. CASE ~Reaches(x)
        <4>1. Unasked(y)' \/ Asking(y)'
          BY <1>1, <1>4, <3>2 DEF NodeInv, Asked, Reaches
        <4> QED
          BY <4>1 DEF Covered
      <3> QED
        BY <3>1, <3>2
    <2> QED
      BY <1>4, <2>1, <2>3, <2>4 DEF NodeInv
  <1> QED
    BY <1>1, <1>4, <1>6 DEF SyncInv

\* A row in a span that is not sent is known to the other, or Hidden.
LEMMA Compared ==
  ASSUME TypeOK, NEW x \in Nodes, NEW s \in Span, NEW r \in Rows,
         ~HasMore(x, "identities", s),
         s.number # Many =>
           s.number <= Cardinality(Within(Other(x), "identities", s.from, s.to)),
         r \in Within(x, "identities", s.from, s.to)
  PROVE  r \in table[Other(x)] \cup Hidden(x, "identities", s)
  <1> DEFINE Mine  == Within(x, "identities", s.from, s.to)
             Other1 == Within(Other(x), "identities", s.from, s.to)
  <1>1. /\ Mine \in SUBSET Rows /\ Cardinality(Mine) \in Nat
        /\ Other1 \in SUBSET Rows /\ Cardinality(Other1) \in Nat
        /\ Other1 \in SUBSET table[Other(x)]
    <2>1. Other(x) \in Nodes
      BY OtherNode
    <2>2. Other1 \in SUBSET table[Other(x)]
      BY DEF Within, Of
    <2> QED
      BY <2>1, <2>2, WithinOf
  <1>2. CASE s.number = Many \/ ~(Other1 \subseteq table[x])
    BY <1>2 DEF Hidden
  <1>3. CASE s.number # Many /\ Other1 \subseteq table[x]
    <2>1. Other1 \in SUBSET Mine
      BY <1>3 DEF Within, Of
    <2>2. ~(Cardinality(Mine) > s.number) /\ s.number <= Cardinality(Other1)
      BY <1>3 DEF HasMore
    <2>3. s.number \in Nat
      BY <1>3 DEF Span
    <2> HIDE DEF Mine, Other1
    <2>4. IsFiniteSet(Mine)
      BY <1>1, FiniteRows
    <2>5. Cardinality(Mine) <= Cardinality(Other1)
      <3> DEFINE a == Cardinality(Mine)
                 b == Cardinality(Other1)
      <3>1. a \in Nat /\ b \in Nat /\ ~(a > s.number) /\ s.number <= b
        BY <1>1, <2>2
      <3> HIDE DEF a, b
      <3>2. a <= b
        BY <2>3, <3>1
      <3> QED
        BY <3>2 DEF a, b
    <2>6. /\ Cardinality(Other1) <= Cardinality(Mine)
          /\ Cardinality(Mine) = Cardinality(Other1) => Mine = Other1
      BY <2>1, <2>4, FS_Subset
    <2>7. Cardinality(Mine) = Cardinality(Other1)
      <3> DEFINE a == Cardinality(Mine)
                 b == Cardinality(Other1)
      <3>1. a \in Nat /\ b \in Nat /\ a <= b /\ b <= a
        BY <1>1, <2>5, <2>6
      <3> HIDE DEF a, b
      <3>2. a = b
        BY <3>1
      <3> QED
        BY <3>2 DEF a, b
    <2>8. Mine = Other1 /\ r \in Mine
      BY <2>6, <2>7 DEF Mine
    <2> QED
      BY <1>1, <2>8
  <1> QED
    BY <1>2, <1>3

LEMMA CompareInv ==
  ASSUME SyncInv, TypeInv', NEW x \in Nodes, Compare(x) PROVE SyncInv'
  <1> DEFINE y == Other(x)
             k == reply[x].of
  <1>1. /\ y \in Nodes /\ x # y /\ Other(y) = x /\ \A n \in Nodes : n = x \/ n = y
        /\ TypeInv /\ NodeInv(x) /\ NodeInv(y) /\ TypeOK /\ y = Other(x)
    BY OtherNode DEF SyncInv, TypeInv
  <1>2. PICK s \in reply[x].spans :
          /\ reply' = [reply EXCEPT ![x].spans = @ \ {s}]
          /\ IF HasMore(x, k, s) THEN SendAll(x, Selected(x, k, s)) ELSE UNCHANGED wire
          /\ left' = [left EXCEPT ![y] = @ \cup Hidden(x, k, s)]
          /\ UNCHANGED <<table, bases, state, passing, now, breaks>>
    BY DEF Compare, First
  <1>3. /\ reply[x] # Idle /\ s \in Span /\ k \in Kinds
        /\ reply[x] \in [of : Kinds, threshold : Int, spans : SUBSET Span]
    BY <1>1, <1>2 DEF TypeOK, Idle
  <1> DEFINE S == IF HasMore(x, k, s) THEN Selected(x, k, s) ELSE {}
  <1> HIDE DEF y, k
  <1>4. /\ reply'[y] = reply[y] /\ reply'[x].of = k
        /\ reply'[x].threshold = reply[x].threshold
        /\ reply'[x].spans = reply[x].spans \ {s}
        /\ left'[x] = left[x] /\ left'[y] = left[y] \cup Hidden(x, k, s)
        /\ state[x] = "secured"
    <2>1. reply' = [reply EXCEPT ![x] = [reply[x] EXCEPT !.spans = @ \ {s}]]
      BY <1>2
    <2>2. reply'[x] = [reply[x] EXCEPT !.spans = @ \ {s}]
      BY <1>1, <2>1 DEF TypeOK
    <2>3. /\ reply'[x].of = k /\ reply'[x].threshold = reply[x].threshold
          /\ reply'[x].spans = reply[x].spans \ {s}
      BY <1>3, <2>2 DEF k
    <2>4. state[x] = "secured"
      BY <1>1, <1>3 DEF NodeInv, Orderly
    <2> QED
      BY <1>1, <1>2, <2>1, <2>3, <2>4 DEF TypeOK
  <1>5. S \in SUBSET table[x] /\ Posted(x, S)
    <2>1. CASE HasMore(x, k, s)
      <3>1. Selected(x, k, s) \in SUBSET table[x] /\ Selected(x, k, s) \in SUBSET Rows
        BY <1>1, WithinOf DEF Selected, Within, Of
      <3> QED
        BY <1>1, <1>2, <2>1, <3>1, PostedAll
    <2>2. CASE ~HasMore(x, k, s)
      BY <1>2, <2>2, PostedNone
    <2> QED
      BY <2>1, <2>2
  <1> HIDE DEF S
  <1>6. /\ NodeInv(x)' /\ Orderly(y)' /\ Owned(y)'
        /\ Unasked(y)' <=> Unasked(y)
        /\ Asking(y)' <=> Asking(y)
    BY <1>2, <1>3, <1>4, <1>5, Delivers DEF y
  <1>7. Answering(y)' <=> Answering(y)
    BY <1>1, <1>4 DEF Answering, k
  <1>8. wire'[x] = wire[x]
        /\ \A m : Has(wire'[y], m) <=> Has(wire[y], m) \/ \E q \in S : m = Entry(q)
    BY <1>5 DEF Posted, y
  <1>9. NodeInv(y)'
    <2>1. Asked(y)'
      BY <1>1, <1>2, <1>6, <1>7 DEF NodeInv, Asked
    <2>2. Sound(y)'
      BY <1>1, <1>2, <1>4, <1>7, <1>8, SoundGrows DEF NodeInv
    <2>3. Covered(y)'
      <3> SUFFICES ASSUME NEW r \in Rows, Kind[r] = "identities", r \in table[x],
                          r \notin table[y], r \notin left'[y],
                          ~Unasked(y)', ~Asking(y)',
                          ~(Answering(y)' /\ Remains(y, r)'), r \notin passing[x],
                          ~Has(wire[y], Entry(r))
                   PROVE  r \in S
        BY <1>1, <1>2, <1>8 DEF Covered
      <3>1. Answering(y) /\ Remains(y, r)
        BY <1>1, <1>4, <1>6 DEF NodeInv, Covered
      <3>2. s.from <= Stamp[r] /\ Stamp[r] <= s.to
        BY <1>1, <1>4, <1>7, <3>1 DEF Remains
      <3>3. k = "identities" /\ r \in Within(x, "identities", s.from, s.to)
        BY <1>1, <3>1, <3>2 DEF Answering, Within, Of, k
      <3>4. s.number # Many =>
              s.number <= Cardinality(Within(y, "identities", s.from, s.to))
        <4>1. left[y] # Rows
          BY <1>4
        <4> QED
          BY <1>1, <3>1, <4>1 DEF NodeInv, Sound, Honest
      <3>5. HasMore(x, "identities", s)
        <4>1. r \notin table[y] \cup Hidden(x, "identities", s)
          BY <1>4, <3>3
        <4> QED
          BY <1>1, <1>3, <3>3, <3>4, <4>1, Compared DEF y
      <3>6. Selected(x, "identities", s) = Within(x, "identities", s.from, s.to)
        BY DEF Selected
      <3> QED
        BY <3>3, <3>5, <3>6 DEF S
    <2> QED
      BY <1>6, <2>1, <2>2, <2>3 DEF NodeInv
  <1> QED
    BY <1>1, <1>6, <1>9 DEF SyncInv

LEMMA FinishInv ==
  ASSUME SyncInv, TypeInv', NEW x \in Nodes, Finish(x) PROVE SyncInv'
  <1> DEFINE y == Other(x)
             S == Recent(x)
             k == reply[x].of
             future == {r \in Of(table[x], k) \ passing[x] : Stamp[r] > now}
  <1>1. /\ y \in Nodes /\ x # y /\ Other(y) = x /\ \A n \in Nodes : n = x \/ n = y
        /\ TypeInv /\ NodeInv(x) /\ NodeInv(y) /\ TypeOK /\ y = Other(x)
    BY OtherNode DEF SyncInv, TypeInv
  <1>2. /\ reply[x] # Idle /\ reply[x].spans = {} /\ SendAll(x, S)
        /\ left' = [left EXCEPT ![y] = @ \cup future]
        /\ reply' = [reply EXCEPT ![x] = Idle]
        /\ UNCHANGED <<table, bases, state, passing, now, breaks>>
    BY DEF Finish
  <1> HIDE DEF y
  <1>3. /\ reply'[y] = reply[y] /\ reply'[x] = Idle /\ left'[x] = left[x]
        /\ left'[y] = left[y] \cup future /\ state[x] = "secured"
    <2>1. state[x] = "secured"
      BY <1>1, <1>2 DEF NodeInv, Orderly
    <2> HIDE DEF future, S
    <2> QED
      BY <1>1, <1>2, <2>1 DEF TypeOK
  <1>4. S \in SUBSET table[x] /\ Posted(x, S)
    <2>1. S \in SUBSET table[x] /\ S \in SUBSET Rows
      BY <1>1, WithinOf DEF Recent, Within, Of
    <2> QED
      BY <1>1, <1>2, <2>1, PostedAll
  <1> HIDE DEF S
  <1>5. /\ NodeInv(x)' /\ Orderly(y)' /\ Owned(y)'
        /\ Unasked(y)' <=> Unasked(y)
        /\ Asking(y)' <=> Asking(y)
    BY <1>2, <1>3, <1>4, Delivers DEF y
  <1>6. ~Answering(y)'
    BY <1>1, <1>3 DEF Answering, Idle
  <1>7. wire'[x] = wire[x]
        /\ \A m : Has(wire'[y], m) <=> Has(wire[y], m) \/ \E q \in S : m = Entry(q)
    BY <1>4 DEF Posted, y
  <1>8. NodeInv(y)'
    <2>1. Asked(y)'
      BY <1>1, <1>2, <1>5, <1>6 DEF NodeInv, Asked
    <2>2. Sound(y)'
      BY <1>1, <1>2, <1>3, <1>6, <1>7, SoundGrows DEF NodeInv
    <2>3. Covered(y)'
      <3> SUFFICES ASSUME NEW r \in Rows, Kind[r] = "identities", r \in table[x],
                          r \notin table[y], r \notin left'[y],
                          ~Unasked(y)', ~Asking(y)', r \notin passing[x],
                          ~Has(wire[y], Entry(r))
                   PROVE  r \in S
        BY <1>1, <1>2, <1>7 DEF Covered
      <3>1. Answering(y) /\ Remains(y, r)
        BY <1>1, <1>3, <1>5 DEF NodeInv, Covered
      <3>2. k = "identities" /\ reply[x].threshold <= Stamp[r]
        BY <1>1, <1>2, <3>1 DEF Answering, Remains
      <3>3. ~(Stamp[r] > now)
        BY <1>3, <3>2 DEF Of
      <3>4. Stamp[r] \in Nat /\ now \in Int
        BY <1>1, SyncAssumption DEF TypeOK
      <3>5. Stamp[r] <= now
        BY <3>3, <3>4
      <3> QED
        BY <3>2, <3>5 DEF S, Recent, Within, Of
    <2> QED
      BY <1>5, <2>1, <2>2, <2>3 DEF NodeInv
  <1> QED
    BY <1>1, <1>5, <1>8 DEF SyncInv

\* What a node asks for is complete and true, unless it wraps.
LEMMA RequestSound ==
  ASSUME TypeInv, NEW n \in Nodes, NEW S \in SUBSET Reported(n, "identities"), ~Wrapped(S),
         NEW m, m = Report(n, "identities", S)
  PROVE  Complete(AskedFor(m.spans), m.threshold) /\ Honest(n, AskedFor(m.spans))
  <1>1. "identities" \in Kinds
    BY DEF Kinds
  <1>2. S \in SUBSET Int /\ now \in Int /\ \E low \in Int : \A x \in S : low <= x /\ x <= now
    BY <1>1, Reporting
  <1>3. PICK low \in Int : \A x \in S : low <= x /\ x <= now
    BY <1>2
  <1>4. Complete(AskedFor(m.spans), m.threshold)
    BY <1>2, <1>3, ReportComplete
  <1>5. Honest(n, AskedFor(m.spans))
    BY <1>2, <1>3, ReportHonest DEF TypeInv
  <1> QED
    BY <1>4, <1>5

LEMMA CorroboratedInv ==
  ASSUME SyncInv, TypeInv', NEW x \in Nodes, Receive(x),
         Head(wire[x]).type = "initial", Corroborated(x)
  PROVE  SyncInv'
  <1> DEFINE y == Other(x)
  <1>1. /\ y \in Nodes /\ x # y /\ Other(y) = x /\ \A n \in Nodes : n = x \/ n = y
        /\ TypeInv /\ NodeInv(x) /\ NodeInv(y) /\ TypeOK /\ y = Other(x)
    BY OtherNode DEF SyncInv, TypeInv
  <1>2. PICK I \in SUBSET Reported(x, "identities"), C \in SUBSET Reported(x, "channels") :
          /\ wire' = [wire EXCEPT ![x] = Tail(@), ![y] = @ \o
                        <<Report(x, "identities", I), Report(x, "channels", C)>>]
          /\ left' = [left EXCEPT ![x] = IF Wrapped(I) \/ Wrapped(C) THEN Rows ELSE {}]
          /\ UNCHANGED <<table, bases, reply, passing>>
    BY DEF Corroborated
  <1> HIDE DEF y
  <1>3. /\ state[x] = "secured" /\ wire[x] # <<>> /\ UNCHANGED <<state, now, breaks>>
        /\ wire[x] \in Seq(Message) /\ wire[y] \in Seq(Message) /\ state[y] # "closed"
    BY <1>1 DEF Receive, TypeOK, NodeInv, Orderly
  <1>4. PICK i, c : i = Report(x, "identities", I) /\ c = Report(x, "channels", C)
    OBVIOUS
  <1>5. i \in Message /\ c \in Message /\ i.type = "history" /\ c.type = "history"
        /\ i.of = "identities" /\ c.of = "channels"
    BY <1>1, <1>4, ReportType DEF Kinds
  <1>6. /\ <<i, c>> \in Seq(Message)
        /\ \A m : Has(<<i, c>>, m) <=> m = i \/ m = c
    BY <1>5, HasFew
  <1>7. /\ wire'[x] = Tail(wire[x]) /\ wire'[y] = wire[y] \o <<i, c>>
        /\ left'[y] = left[y] /\ left'[x] = IF Wrapped(I) \/ Wrapped(C) THEN Rows ELSE {}
    BY <1>1, <1>2, <1>4 DEF TypeOK
  <1>8. /\ Head(wire[x]) = Initial /\ ~Has(wire'[x], Initial) /\ AtFront(wire'[x])
        /\ \A m : Has(wire[x], m) <=> m = Initial \/ Has(wire'[x], m)
    <2>1. /\ Head(wire[x]) \in Message
          /\ \A m : Has(wire[x], m) <=> m = Head(wire[x]) \/ Has(wire'[x], m)
      BY <1>3, <1>7, HasTail
    <2>2. Head(wire[x]) = Initial
      BY <2>1, MessageTypes
    <2>3. AtFront(wire[x])
      BY <1>1 DEF NodeInv, Orderly
    <2>4. ~Has(wire'[x], Initial) /\ AtFront(wire'[x])
      BY <1>3, <1>7, <2>3, AtFrontTail
    <2> QED
      BY <2>1, <2>2, <2>4
  <1>9. \A m : Has(wire'[y], m) <=> Has(wire[y], m) \/ m = i \/ m = c
    <2>1. PICK s \in Seq(Message), t \in Seq(Message) : s = wire[y] /\ t = <<i, c>>
      BY <1>3, <1>6
    <2>2. \A m : Has(s \o t, m) <=> Has(s, m) \/ Has(t, m)
      BY HasConcat
    <2>3. wire'[y] = s \o t
      BY <1>7, <2>1
    <2> QED
      BY <1>6, <2>1, <2>2, <2>3
  <1>10. Unasked(x) /\ ~Asking(x) /\ ~Answering(x)
    <2>1. Unasked(x)
      BY <1>8 DEF Unasked
    <2> QED
      BY <1>1, <2>1 DEF NodeInv, Asked
  <1>11. NodeInv(x)'
    <2>1. Orderly(x)'
      BY <1>1, <1>2, <1>3, <1>8 DEF NodeInv, Orderly
    <2>2. ~Unasked(x)' /\ Asking(x)' /\ ~Answering(x)'
      <3>1. ~Unasked(x)'
        BY <1>1, <1>3, <1>8 DEF Unasked
      <3>2. Asking(x)'
        BY <1>1, <1>5, <1>9 DEF Asking, IsRequest
      <3>3. ~Answering(x)'
        BY <1>2, <1>10 DEF Answering
      <3> QED
        BY <3>1, <3>2, <3>3
    <2>3. Sound(x)'
      <3>1. ASSUME NEW m \in Message, IsRequest(m), Has(wire'[y], m), left'[x] # Rows
            PROVE  /\ Complete(AskedFor(m.spans), m.threshold)
                   /\ Honest(x, AskedFor(m.spans))'
        <4>1. m = i
          BY <1>1, <1>5, <1>9, <1>10, <3>1 DEF Asking, IsRequest
        <4>2. ~Wrapped(I)
          BY <1>7, <3>1
        <4>3. /\ Complete(AskedFor(m.spans), m.threshold)
              /\ Honest(x, AskedFor(m.spans))
          BY <1>1, <1>4, <4>1, <4>2, RequestSound
        <4>4. AskedFor(m.spans) \in SUBSET Span /\ table[x] \subseteq table'[x]
          BY <1>2, <3>1, AskedSpans
        <4>5. Honest(x, AskedFor(m.spans))'
          BY <1>1, <4>3, <4>4, HonestGrows
        <4> QED
          BY <4>3, <4>5
      <3> QED
        BY <1>1, <2>2, <3>1 DEF Sound
    <2>4. Owned(x)'
      BY <1>1, <1>2, <1>8 DEF NodeInv, Owned
    <2> QED
      BY <2>1, <2>2, <2>3, <2>4 DEF NodeInv, Asked, Covered
  <1>12. /\ Has(wire'[y], Initial) <=> Has(wire[y], Initial)
         /\ \A r \in Rows : Has(wire'[y], Entry(r)) <=> Has(wire[y], Entry(r))
    BY <1>5, <1>9, MessageTypes
  <1>13. \A m \in Message : IsRequest(m) => (Has(wire'[x], m) <=> Has(wire[x], m))
    BY <1>8, MessageTypes DEF IsRequest
  <1>14. /\ Unasked(y)' <=> Unasked(y)
         /\ Asking(y)' <=> Asking(y)
         /\ Answering(y)' <=> Answering(y)
    BY <1>1, <1>2, <1>3, <1>12, <1>13 DEF Unasked, Asking, Answering
  <1>15. NodeInv(y)'
    <2>1. Orderly(y)'
      <3>1. ~Has(<<i, c>>, Initial) /\ AtFront(wire[y])
        BY <1>1, <1>5, <1>6, MessageTypes DEF NodeInv, Orderly
      <3>2. AtFront(wire'[y])
        BY <1>3, <1>6, <1>7, <3>1, AtFrontConcat
      <3> QED
        BY <1>1, <1>2, <1>3, <3>2 DEF NodeInv, Orderly
    <2>2. Asked(y)'
      BY <1>1, <1>3, <1>14 DEF NodeInv, Asked
    <2>3. Sound(y)'
      BY <1>1, <1>2, <1>7, <1>13, <1>14, SoundGrows DEF NodeInv
    <2>4. Owned(y)'
      BY <1>1, <1>2, <1>12 DEF NodeInv, Owned
    <2>5. Covered(y)'
      BY <1>1, <1>2, <1>7, <1>12, <1>14 DEF NodeInv, Covered, Remains
    <2> QED
      BY <2>1, <2>2, <2>3, <2>4, <2>5 DEF NodeInv
  <1> QED
    BY <1>1, <1>11, <1>15 DEF SyncInv

LEMMA StepInv == SyncInv /\ [Next]_vars => SyncInv'
  <1> SUFFICES ASSUME SyncInv, [Next]_vars PROVE SyncInv'
    OBVIOUS
  <1>0. TypeInv'
    BY StepType DEF SyncInv
  <1>1. CASE Tick
    BY <1>0, <1>1, StillInv DEF Tick
  <1>2. CASE Break
    BY <1>0, <1>2, BreakInv
  <1>3. ASSUME NEW n \in Nodes, Established(n) PROVE SyncInv'
    BY <1>0, <1>3, EstablishedInv
  <1>4. ASSUME NEW n \in Nodes, Secure(n) PROVE SyncInv'
    <2>1. \A x \in Nodes : /\ state'[x] = "closed" <=> state[x] = "closed"
                           /\ state[x] = "secured" => state'[x] = "secured"
      BY <1>4 DEF Secure, SyncInv, TypeInv, TypeOK
    <2> QED
      BY <1>0, <1>4, <2>1, StillInv DEF Secure
  <1>5. ASSUME NEW n \in Nodes, Receive(n) PROVE SyncInv'
    <2>1. \/ Head(wire[n]).type = "initial" /\ Corroborated(n)
          \/ Head(wire[n]).type = "history" /\ Process(n, Head(wire[n]))
          \/ Head(wire[n]).type = "entry" /\ Embrace(n, Head(wire[n]).row)
      BY <1>5 DEF Receive
    <2> QED
      BY <1>0, <1>5, <2>1, CorroboratedInv, ProcessInv, EmbraceInv
  <1>6. ASSUME NEW n \in Nodes, Compare(n) PROVE SyncInv'
    BY <1>0, <1>6, CompareInv
  <1>7. ASSUME NEW n \in Nodes, Finish(n) PROVE SyncInv'
    BY <1>0, <1>7, FinishInv
  <1>8. ASSUME NEW n \in Nodes, NEW r \in Rows, Arrive(n, r) PROVE SyncInv'
    BY <1>0, <1>8, ArriveInv
  <1>9. ASSUME NEW n \in Nodes, NEW r \in Rows, Broadcast(n, r) PROVE SyncInv'
    BY <1>0, <1>9, BroadcastInv
  <1>10. CASE UNCHANGED vars
    BY <1>0, <1>10, StillInv DEF vars
  <1> QED
    BY <1>1, <1>2, <1>3, <1>4, <1>5, <1>6, <1>7, <1>8, <1>9, <1>10 DEF Next, Handle

LEMMA InvCaughtUp == SyncInv => CaughtUp
  <1> SUFFICES ASSUME SyncInv, Quiet, NEW n \in Nodes, NEW r \in Rows,
                      Kind[r] = "identities", r \in table[Other(n)]
               PROVE  r \in table[n] \cup left[n]
    BY OtherNode DEF CaughtUp, InStep, Of, SyncInv, TypeInv, TypeOK
  <1>1. /\ Other(n) \in Nodes /\ state[Other(n)] = "secured" /\ wire[n] = <<>>
        /\ wire[Other(n)] = <<>> /\ reply[Other(n)] = Idle /\ passing[Other(n)] = {}
    BY OtherNode DEF Quiet
  <1>2. ~Unasked(n) /\ ~Asking(n) /\ ~Answering(n) /\ ~Has(wire[n], Entry(r))
    BY <1>1, HasFew DEF Unasked, Asking, Answering, Idle
  <1> QED
    BY <1>1, <1>2 DEF SyncInv, NodeInv, Covered

\* When all has been said, the nodes are in step: no row slips through between the
\* answer to a request (process_table_history) and the broadcast of what is new,
\* however many rows and spans there are and whatever is inserted meanwhile.
THEOREM NothingMissed == Spec => []CaughtUp
  BY InitInv, StepInv, InvCaughtUp, PTL DEF Spec
=============================================================================
