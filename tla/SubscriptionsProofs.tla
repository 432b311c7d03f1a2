------------------------ MODULE SubscriptionsProofs ------------------------
(* Theorems about Subscriptions, for any applications, peers and rows.        *)
EXTENDS Subscriptions, FiniteSetTheorems, SequenceTheorems, WellFoundedInduction, TLAPS

-----------------------------------------------------------------------------
(* Least and greatest elements. *)

LEMMA SmallestOf ==
  ASSUME NEW T \in SUBSET Nat, T # {}
  PROVE  \E x \in T : \A y \in T : x <= y
  <1> DEFINE D == {0 .. x : x \in T}
             R == StrictSubsetOrdering(Nat)
  <1>1. \A x \in T : IsFiniteSet(0 .. x)
    BY FS_Interval
  <1>2. D \subseteq FiniteSubsetsOf(Nat) /\ D # {}
    <2>1. \A x \in T : 0 .. x \in FiniteSubsetsOf(Nat)
      BY <1>1 DEF FiniteSubsetsOf
    <2>2. PICK z \in T : TRUE
      OBVIOUS
    <2>3. 0 .. z \in D
      BY <2>2
    <2> QED
      BY <2>1, <2>3
  <1>3. IsWellFoundedOn(R, FiniteSubsetsOf(Nat))
    BY FS_StrictSubsetOrderingWellFounded
  <1>4. PICK d \in D : \A e \in D : <<e, d>> \notin R
    <2> HIDE DEF D, R
    <2> QED
      BY <1>2, <1>3, WFMin
  <1>5. PICK x \in T : d = 0 .. x
    BY <1>4
  <1>6. ASSUME NEW y \in T, y < x PROVE FALSE
    <2>1. 0 .. y \in D /\ 0 .. y \subseteq 0 .. x /\ x \in 0 .. x /\ x \notin 0 .. y
      BY <1>6
    <2>2. <<0 .. y, d>> \in R
      BY <1>5, <2>1 DEF StrictSubsetOrdering
    <2> QED
      BY <1>4, <2>1, <2>2
  <1> QED
    BY <1>6

LEMMA MinOf ==
  ASSUME NEW S \in SUBSET Int, S # {}, NEW low \in Int, \A x \in S : low <= x
  PROVE  Min(S) \in S
  <1> DEFINE T == {x - low : x \in S}
  <1>1. T \in SUBSET Nat /\ T # {}
    <2>1. PICK z \in S : TRUE
      OBVIOUS
    <2>2. z - low \in T
      BY <2>1
    <2>3. \A x \in S : x - low \in Nat
      OBVIOUS
    <2> QED
      BY <2>2, <2>3
  <1>2. PICK d \in T : \A e \in T : d <= e
    <2> HIDE DEF T
    <2> QED
      BY <1>1, SmallestOf
  <1>3. PICK x \in S : d = x - low
    OBVIOUS
  <1>4. \A y \in S : x <= y
    BY <1>2, <1>3
  <1> QED
    BY <1>4 DEF Min

LEMMA MaxOf ==
  ASSUME NEW S \in SUBSET Int, S # {}, NEW high \in Int, \A x \in S : x <= high
  PROVE  Max(S) \in S
  <1> DEFINE T == {high - x : x \in S}
  <1>1. T \in SUBSET Nat /\ T # {}
    <2>1. PICK z \in S : TRUE
      OBVIOUS
    <2>2. high - z \in T
      BY <2>1
    <2>3. \A x \in S : high - x \in Nat
      OBVIOUS
    <2> QED
      BY <2>2, <2>3
  <1>2. PICK d \in T : \A e \in T : d <= e
    <2> HIDE DEF T
    <2> QED
      BY <1>1, SmallestOf
  <1>3. PICK x \in S : d = high - x
    OBVIOUS
  <1>4. \A y \in S : x >= y
    BY <1>2, <1>3
  <1> QED
    BY <1>4 DEF Max

-----------------------------------------------------------------------------
(* Where the spans of a request begin is recursive: the function exists up to    *)
(* any depth, for had some depth none, so would a smaller one.                 *)

Step(S, f, i) == IF i = 0 THEN Min(S)
                 ELSE IF Beyond(S, f[i - 1]) = {} THEN f[i - 1] ELSE Min(Beyond(S, f[i - 1]))

LEMMA StepIn ==
  ASSUME NEW S \in SUBSET Int, S # {}, NEW low \in Int, \A x \in S : low <= x,
         NEW f, NEW i \in Nat, i # 0 => f[i - 1] \in S
  PROVE  Step(S, f, i) \in S
  <1>1. CASE i = 0
    BY <1>1, MinOf DEF Step
  <1>2. CASE i # 0 /\ Beyond(S, f[i - 1]) = {}
    BY <1>2 DEF Step
  <1>3. CASE i # 0 /\ Beyond(S, f[i - 1]) # {}
    <2> DEFINE B == Beyond(S, f[i - 1])
    <2>1. B \subseteq S
      BY DEF Beyond
    <2>2. B \in SUBSET Int /\ B # {} /\ \A x \in B : low <= x
      BY <1>3, <2>1
    <2> HIDE DEF B
    <2>3. Min(B) \in B
      BY <2>2, MinOf
    <2> QED
      BY <1>3, <2>1, <2>3 DEF Step, B
  <1> QED
    BY <1>1, <1>2, <1>3

LEMMA BeginsExist ==
  ASSUME NEW S \in SUBSET Int, S # {}, NEW low \in Int, \A x \in S : low <= x, NEW d \in Nat
  PROVE  \E f \in [0 .. d -> S] : \A i \in 0 .. d : f[i] = Step(S, f, i)
  <1> DEFINE Good(n) == \E f \in [0 .. n -> S] : \A i \in 0 .. n : f[i] = Step(S, f, i)
             Bad == {n \in Nat : ~Good(n)}
  <1> SUFFICES ASSUME Bad # {} PROVE FALSE
    OBVIOUS
  <1>1. PICK n \in Bad : \A m \in Bad : n <= m
    <2>1. Bad \in SUBSET Nat
      OBVIOUS
    <2> HIDE DEF Bad
    <2> QED
      BY <2>1, SmallestOf
  <1>2. n # 0
    <2> SUFFICES Good(0)
      BY <1>1
    <2> DEFINE g == [i \in 0 .. 0 |-> Min(S)]
    <2>1. Min(S) \in S
      BY MinOf
    <2>2. g \in [0 .. 0 -> S]
      BY <2>1
    <2>3. \A i \in 0 .. 0 : g[i] = Step(S, g, i)
      BY DEF Step
    <2> QED
      BY <2>2, <2>3
  <1>3. n \in Nat /\ n - 1 \in Nat /\ n - 1 \notin Bad
    <2>1. n \in Nat /\ n - 1 \in Nat /\ ~(n <= n - 1)
      BY <1>1, <1>2
    <2> HIDE DEF Bad
    <2> QED
      BY <1>1, <2>1
  <1>4. PICK f \in [0 .. n - 1 -> S] : \A i \in 0 .. n - 1 : f[i] = Step(S, f, i)
    BY <1>3
  <1> DEFINE g == [i \in 0 .. n |-> IF i = n THEN Step(S, f, n) ELSE f[i]]
  <1>5. Step(S, f, n) \in S
    <2>1. f[n - 1] \in S
      BY <1>3, <1>4
    <2> QED
      BY <1>3, <2>1, StepIn
  <1>6. g \in [0 .. n -> S]
    BY <1>3, <1>4, <1>5
  <1>7. ASSUME NEW i \in 0 .. n PROVE g[i] = Step(S, g, i)
    <2>1. CASE i = 0
      <3>1. g[i] = f[0]
        BY <1>2, <1>3, <2>1
      <3> QED
        BY <1>3, <1>4, <2>1, <3>1 DEF Step
    <2>2. CASE i # 0
      <3>1. g[i - 1] = f[i - 1]
        BY <1>3, <2>2
      <3>2. Step(S, g, i) = Step(S, f, i)
        <4> HIDE DEF g
        <4> QED
          BY <2>2, <3>1 DEF Step
      <3>3. CASE i = n
        <4>1. g[i] = Step(S, f, n)
          BY <1>3, <3>3
        <4> HIDE DEF g, Step
        <4> QED
          BY <3>2, <3>3, <4>1
      <3>4. CASE i # n
        <4>1. i \in 0 .. n - 1 /\ g[i] = f[i]
          BY <1>3, <3>4
        <4> QED
          BY <1>4, <3>2, <4>1
      <3> QED
        BY <3>3, <3>4
    <2> QED
      BY <2>1, <2>2
  <1>8. Good(n)
    <2> HIDE DEF g
    <2> QED
      BY <1>6, <1>7
  <1> QED
    BY <1>1, <1>8

LEMMA BeginsOf ==
  ASSUME NEW S \in SUBSET Int, S # {}, NEW low \in Int, \A x \in S : low <= x
  PROVE  Begins(S) \subseteq S /\ Begins(S) # {}
  <1> DEFINE begin == CHOOSE f : f = [i \in 0 .. Depth |-> Step(S, f, i)]
  <1>0. Depth \in Nat
    BY SubscriptionsAssumption
  <1>1. PICK f \in [0 .. Depth -> S] : \A i \in 0 .. Depth : f[i] = Step(S, f, i)
    BY <1>0, BeginsExist
  <1>2. f = [i \in 0 .. Depth |-> Step(S, f, i)]
    BY <1>1
  <1>3. begin = [i \in 0 .. Depth |-> Step(S, begin, i)]
    BY <1>2
  <1>4. Begins(S) = {begin[i] : i \in 0 .. Depth}
    BY DEF Begins, Step
  <1> HIDE DEF begin
  <1>5. ASSUME NEW k \in 0 .. Depth, begin[k] \notin S PROVE FALSE
    <2> DEFINE Out == {i \in 0 .. Depth : begin[i] \notin S}
    <2>1. Out \in SUBSET Nat /\ Out # {}
      BY <1>5
    <2>2. PICK n \in Out : \A m \in Out : n <= m
      <3> HIDE DEF Out
      <3> QED
        BY <2>1, SmallestOf
    <2>3. ASSUME n # 0 PROVE begin[n - 1] \in S
      <3>1. n - 1 \in 0 .. Depth /\ ~(n <= n - 1)
        BY <1>0, <2>2, <2>3
      <3>2. n - 1 \notin Out
        <4> HIDE DEF Out
        <4> QED
          BY <2>2, <3>1
      <3> QED
        BY <3>1, <3>2
    <2>4. Step(S, begin, n) \in S
      <3>1. n \in Nat
        BY <2>2
      <3> HIDE DEF Step, Out
      <3> QED
        BY <2>3, <3>1, StepIn
    <2>5. begin[n] = Step(S, begin, n)
      BY <1>3, <2>2
    <2> QED
      BY <2>2, <2>4, <2>5
  <1> QED
    BY <1>0, <1>4, <1>5

LEMMA GatheredIs ==
  ASSUME stored \subseteq Rows, now \in Nat, NEW t \in Topics
  PROVE  /\ Gathered(t) \in Request
         /\ Gathered(t).type = "subscribe" /\ Gathered(t).topic = t
  <1> DEFINE S == Counted(t)
             low == now - Since
             high == now - Offset
             B == IF S = {} THEN {} ELSE Begins(S)
  <1>1. low \in Int /\ high \in Int
    BY SubscriptionsAssumption
  <1>2. S \subseteq low .. high
    BY DEF Counted
  <1>3. S \in SUBSET Int /\ \A x \in S : low <= x /\ x <= high
    BY <1>1, <1>2
  <1>4. B \subseteq S
    <2> HIDE DEF S, low
    <2>1. CASE S = {}
      BY <2>1
    <2>2. CASE S # {}
      <3>1. Begins(S) \subseteq S
        BY <1>1, <1>3, <2>2, BeginsOf
      <3> QED
        BY <2>2, <3>1
    <2> QED
      BY <2>1, <2>2
  <1>5. Gathered(t) = IF Cardinality(B) <= 1 THEN Subscribe(t, low, 0)
                      ELSE Subscribe(t, Max(B), Cardinality(B) - 1)
    BY DEF Gathered
  <1> HIDE DEF S, low, high
  <1>6. IsFiniteSet(B) /\ Cardinality(B) \in Nat
    <2>1. IsFiniteSet(low .. high) /\ B \in SUBSET (low .. high)
      BY <1>1, <1>2, <1>4, FS_Interval
    <2>2. IsFiniteSet(B)
      BY <2>1, FS_Subset
    <2> QED
      BY <2>2, FS_CardinalityType
  <1>7. ASSUME ~(Cardinality(B) <= 1)
        PROVE  Max(B) \in Int /\ Cardinality(B) - 1 \in Nat
    <2>1. B # {}
      BY <1>7, FS_EmptySet
    <2>2. B \in SUBSET Int /\ \A x \in B : x <= high
      BY <1>3, <1>4
    <2>3. Max(B) \in B
      BY <1>1, <2>1, <2>2, MaxOf
    <2> QED
      BY <1>6, <1>7, <2>2, <2>3
  <1> HIDE DEF B
  <1>8. CASE Cardinality(B) <= 1
    <2>1. Gathered(t) = Subscribe(t, low, 0)
      BY <1>5, <1>8
    <2> QED
      BY <1>1, <2>1 DEF Subscribe, Request
  <1>9. CASE ~(Cardinality(B) <= 1)
    <2>1. Gathered(t) = Subscribe(t, Max(B), Cardinality(B) - 1)
      BY <1>5, <1>9
    <2> QED
      BY <1>7, <1>9, <2>1 DEF Subscribe, Request
  <1> QED
    BY <1>8, <1>9

-----------------------------------------------------------------------------
(* The lists, enumerated: each that is wanted, and nothing else. *)

Copies(a, t) == {<<a, t>>} \X (1 .. wanted[a][t])

LEMMA CopiesOf ==
  ASSUME wanted \in [Apps -> [Topics -> Nat]], NEW a \in Apps, NEW t \in Topics
  PROVE  /\ IsFiniteSet(Copies(a, t))
         /\ \A d \in Copies(a, t) : d[1][2] = t
         /\ wanted[a][t] > 0 => Copies(a, t) # {}
  <1>1. wanted[a][t] \in Nat
    OBVIOUS
  <1>2. IsFiniteSet({<<a, t>>}) /\ IsFiniteSet(1 .. wanted[a][t])
    <2>1. 1 \in Int /\ wanted[a][t] \in Int
      BY <1>1
    <2> HIDE DEF Copies
    <2>2. IsFiniteSet(1 .. wanted[a][t])
      BY <2>1, FS_Interval
    <2> QED
      BY <2>2, FS_Singleton
  <1>3. IsFiniteSet(Copies(a, t))
    BY <1>2, FS_Product DEF Copies
  <1>4. \A d \in Copies(a, t) : d[1][2] = t
    BY DEF Copies
  <1>5. ASSUME wanted[a][t] > 0 PROVE Copies(a, t) # {}
    <2>1. 1 \in 1 .. wanted[a][t]
      BY <1>1, <1>5
    <2>2. <<<<a, t>>, 1>> \in Copies(a, t)
      BY <2>1 DEF Copies
    <2> QED
      BY <2>2
  <1> QED
    BY <1>3, <1>4, <1>5

LEMMA EnumerationOf ==
  ASSUME wanted \in [Apps -> [Topics -> Nat]], NEW T \in SUBSET Topics
  PROVE  \E n \in Nat :
           /\ DOMAIN Enumeration(T) = 1 .. n
           /\ \A i \in 1 .. n : Enumeration(T)[i][1][2] \in T
           /\ \A t \in T : Wants(wanted, {t}) =>
                             \E i \in 1 .. n : Enumeration(T)[i][1][2] = t
  <1> DEFINE f == [x \in Apps \X T |-> Copies(x[1], x[2])]
             F == {Copies(a, t) : a \in Apps, t \in T}
             D == UNION F
  <1>1. IsFiniteSet(D)
    <2>1. IsFiniteSet(Apps \X T)
      <3>1. IsFiniteSet(Apps) /\ IsFiniteSet(T)
        BY SubscriptionsAssumption, FS_Subset
      <3> QED
        BY <3>1, FS_Product
    <2>2. \A x \in F : IsFiniteSet(x)
      BY CopiesOf
    <2>3. IsFiniteSet(F)
      <3>1. f \in [Apps \X T -> F]
        OBVIOUS
      <3>2. ASSUME NEW z \in F PROVE \E x \in Apps \X T : f[x] = z
        <4>1. PICK a \in Apps, t \in T : z = Copies(a, t)
          BY <3>2
        <4>2. <<a, t>> \in Apps \X T /\ f[<<a, t>>] = Copies(a, t)
          OBVIOUS
        <4> HIDE DEF f
        <4> QED
          BY <4>1, <4>2
      <3> HIDE DEF f, F
      <3>3. f \in Surjection(Apps \X T, F)
        BY <3>1, <3>2 DEF Surjection
      <3> QED
        BY <2>1, <3>3, FS_Surjection
    <2> HIDE DEF F
    <2> QED
      BY <2>2, <2>3, FS_UNION
  <1> DEFINE n == Cardinality(D)
             Good(q) == \A d \in D : \E i \in DOMAIN q : q[i] = d
  <1>2. n \in Nat /\ \E q \in [1 .. n -> D] : Good(q)
    <2>1. n \in Nat /\ ExistsBijection(1 .. n, D)
      <3> HIDE DEF D
      <3> QED
        BY <1>1, FS_CardinalityType
    <2> HIDE DEF D, n
    <2>2. PICK q \in Bijection(1 .. n, D) : TRUE
      BY <2>1 DEF ExistsBijection
    <2>3. q \in [1 .. n -> D] /\ \A d \in D : \E i \in 1 .. n : q[i] = d
      BY <2>2 DEF Bijection, Surjection, Injection
    <2> QED
      BY <2>1, <2>3
  <1> DEFINE q == Enumeration(T)
  <1>3. q \in [1 .. n -> D] /\ Good(q)
    <2>1. q = CHOOSE g \in [1 .. n -> D] : Good(g)
      BY DEF Enumeration, Copies
    <2> HIDE DEF Good, q, D, n
    <2> QED
      BY <1>2, <2>1
  <1>4. ASSUME NEW d \in D PROVE d[1][2] \in T
    <2>1. PICK a \in Apps, t \in T : d \in Copies(a, t)
      BY <1>4
    <2> QED
      BY <2>1, CopiesOf
  <1>5. ASSUME NEW t \in T, Wants(wanted, {t}) PROVE \E d \in D : d[1][2] = t
    <2>1. PICK a \in Apps : wanted[a][t] > 0
      BY <1>5 DEF Wants
    <2>2. PICK d \in Copies(a, t) : d[1][2] = t
      BY <2>1, CopiesOf
    <2>3. d \in D
      BY <2>2
    <2> QED
      BY <2>2, <2>3
  <1> HIDE DEF q, D, n
  <1>6. DOMAIN q = 1 .. n /\ \A i \in 1 .. n : q[i] \in D
    BY <1>3
  <1>7. \A t \in T : Wants(wanted, {t}) => \E i \in 1 .. n : q[i][1][2] = t
    BY <1>3, <1>5, <1>6
  <1>8. \A i \in 1 .. n : q[i][1][2] \in T
    BY <1>4, <1>6
  <1> QED
    BY <1>2, <1>6, <1>7, <1>8 DEF q

-----------------------------------------------------------------------------
(* Requests under way: whether a peer will have been asked for a topic when all  *)
(* of them have come, and whether nothing takes it back.                       *)

Asks(m, t) == m.type = "subscribe" /\ m.topic = t
AsksAll(w) == \E i \in DOMAIN w : w[i] = Everything
Stays(w, t) == \A i \in DOMAIN w : w[i] # Unsubscribe(t)
Will(w, t) == \E i \in DOMAIN w : /\ Asks(w[i], t)
                                  /\ \A j \in DOMAIN w : j > i => w[j] # Unsubscribe(t)

LEMMA Requests ==
  /\ Everything \in Request /\ \A t \in Topics : Unsubscribe(t) \in Request
  /\ \A m \in Request :
       \/ m = Everything
       \/ /\ m.type = "unsubscribe" /\ m.topic \in Topics /\ m = Unsubscribe(m.topic)
       \/ /\ m.type = "subscribe" /\ m.topic \in Topics /\ m.from \in Int /\ m.spans \in Nat
  /\ Everything.type = "everything" /\ \A t : Unsubscribe(t).type = "unsubscribe"
  /\ \A t, u : Unsubscribe(t) = Unsubscribe(u) => t = u
  BY DEF Request, Everything, Unsubscribe

LEMMA WireConcat ==
  ASSUME NEW w \in Seq(Request), NEW u \in Seq(Request)
  PROVE  /\ w \o u \in Seq(Request)
         /\ AsksAll(w) \/ AsksAll(u) => AsksAll(w \o u)
         /\ \A t : Will(u, t) => Will(w \o u, t)
         /\ \A t : Will(w, t) /\ Stays(u, t) => Will(w \o u, t)
         /\ \A t : Stays(w, t) /\ Stays(u, t) => Stays(w \o u, t)
  <1> DEFINE c == w \o u
  <1>1. /\ c \in Seq(Request) /\ Len(w) \in Nat /\ Len(u) \in Nat
        /\ DOMAIN w = 1 .. Len(w) /\ DOMAIN u = 1 .. Len(u)
        /\ DOMAIN c = 1 .. Len(w) + Len(u)
        /\ \A i \in 1 .. Len(w) + Len(u) : c[i] = IF i <= Len(w) THEN w[i] ELSE u[i - Len(w)]
    BY ConcatProperties, LenProperties
  <1> HIDE DEF c
  <1>2. /\ \A i \in DOMAIN w : i \in DOMAIN c /\ c[i] = w[i]
        /\ \A i \in DOMAIN u : Len(w) + i \in DOMAIN c /\ c[Len(w) + i] = u[i]
        /\ \A i \in DOMAIN c : \/ i \in DOMAIN w
                               \/ i > Len(w) /\ i - Len(w) \in DOMAIN u /\ c[i] = u[i - Len(w)]
    BY <1>1
  <1>3. AsksAll(w) \/ AsksAll(u) => AsksAll(c)
    BY <1>2 DEF AsksAll
  <1>4. ASSUME NEW t, Will(u, t) PROVE Will(c, t)
    <2>1. PICK i \in DOMAIN u : /\ Asks(u[i], t)
                                /\ \A j \in DOMAIN u : j > i => u[j] # Unsubscribe(t)
      BY <1>4 DEF Will
    <2>2. ASSUME NEW j \in DOMAIN c, j > Len(w) + i PROVE c[j] # Unsubscribe(t)
      <3>1. j > Len(w) /\ j - Len(w) \in DOMAIN u /\ c[j] = u[j - Len(w)] /\ j - Len(w) > i
        BY <1>1, <1>2, <2>2
      <3> QED
        BY <2>1, <3>1
    <2>3. Len(w) + i \in DOMAIN c /\ Asks(c[Len(w) + i], t)
      BY <1>2, <2>1
    <2> QED
      BY <2>2, <2>3 DEF Will
  <1>5. ASSUME NEW t, Will(w, t), Stays(u, t) PROVE Will(c, t)
    <2>1. PICK i \in DOMAIN w : /\ Asks(w[i], t)
                                /\ \A j \in DOMAIN w : j > i => w[j] # Unsubscribe(t)
      BY <1>5 DEF Will
    <2>2. ASSUME NEW j \in DOMAIN c, j > i PROVE c[j] # Unsubscribe(t)
      BY <1>2, <1>5, <2>1, <2>2 DEF Stays
    <2> QED
      BY <1>2, <2>1, <2>2 DEF Will
  <1>6. ASSUME NEW t, Stays(w, t), Stays(u, t) PROVE Stays(c, t)
    BY <1>2, <1>6 DEF Stays
  <1> QED
    BY <1>1, <1>3, <1>4, <1>5, <1>6 DEF c

LEMMA WireAppend ==
  ASSUME NEW w \in Seq(Request), NEW m \in Request
  PROVE  /\ Append(w, m) \in Seq(Request)
         /\ AsksAll(w) => AsksAll(Append(w, m))
         /\ \A t : Asks(m, t) => Will(Append(w, m), t)
         /\ \A t : m # Unsubscribe(t) => /\ Will(w, t) => Will(Append(w, m), t)
                                         /\ Stays(w, t) => Stays(Append(w, m), t)
  <1> DEFINE u == <<m>>
  <1>1. u \in Seq(Request) /\ Append(w, m) = w \o u
    BY AppendIsConcat
  <1>2. /\ \A t : Asks(m, t) => Will(u, t)
        /\ \A t : m # Unsubscribe(t) => Stays(u, t)
    BY DEF Will, Stays
  <1> HIDE DEF u
  <1> QED
    BY <1>1, <1>2, WireConcat

LEMMA WireTail ==
  ASSUME NEW w \in Seq(Request), w # <<>>
  PROVE  /\ Head(w) \in Request /\ Tail(w) \in Seq(Request)
         /\ AsksAll(w) => Head(w) = Everything \/ AsksAll(Tail(w))
         /\ \A t : Will(w, t) => Will(Tail(w), t) \/ (Asks(Head(w), t) /\ Stays(Tail(w), t))
         /\ \A t : Stays(w, t) => Head(w) # Unsubscribe(t) /\ Stays(Tail(w), t)
  <1> DEFINE x == Tail(w)
  <1>1. /\ Head(w) \in Request /\ x \in Seq(Request) /\ Len(x) = Len(w) - 1
        /\ \A i \in 1 .. Len(x) : x[i] = w[i + 1]
    BY HeadTailProperties
  <1>2. /\ DOMAIN w = 1 .. Len(w) /\ Len(w) \in Nat \ {0} /\ Head(w) = w[1]
        /\ DOMAIN x = 1 .. Len(w) - 1
    <2>1. DOMAIN w = 1 .. Len(w) /\ DOMAIN x = 1 .. Len(x)
      BY <1>1, LenProperties
    <2>2. Len(w) \in Nat \ {0}
      BY EmptySeq
    <2> QED
      BY <1>1, <2>1, <2>2
  <1> HIDE DEF x
  <1>3. /\ 1 \in DOMAIN w /\ \A i \in DOMAIN x : i + 1 \in DOMAIN w /\ x[i] = w[i + 1]
        /\ \A i \in DOMAIN w : i = 1 \/ (i > 1 /\ i - 1 \in DOMAIN x /\ x[i - 1] = w[i])
    <2>1. ASSUME NEW i \in DOMAIN x PROVE i + 1 \in DOMAIN w /\ x[i] = w[i + 1]
      <3>1. i \in 1 .. Len(w) - 1 /\ i \in 1 .. Len(x) /\ i + 1 \in 1 .. Len(w)
        BY <1>1, <1>2
      <3> QED
        BY <1>1, <1>2, <3>1
    <2>2. ASSUME NEW i \in DOMAIN w, i # 1
          PROVE  i > 1 /\ i - 1 \in DOMAIN x /\ x[i - 1] = w[i]
      <3>1. i \in 1 .. Len(w) /\ i > 1 /\ i - 1 \in 1 .. Len(w) - 1 /\ (i - 1) + 1 = i
        BY <1>2, <2>2
      <3>2. x[i - 1] = w[(i - 1) + 1]
        BY <1>1, <1>2, <3>1
      <3> QED
        BY <1>2, <3>1, <3>2
    <2> QED
      BY <1>2, <2>1, <2>2
  <1>4. AsksAll(w) => Head(w) = Everything \/ AsksAll(x)
    BY <1>2, <1>3 DEF AsksAll
  <1>5. ASSUME NEW t, Will(w, t) PROVE Will(x, t) \/ (Asks(Head(w), t) /\ Stays(x, t))
    <2>1. PICK i \in DOMAIN w : /\ Asks(w[i], t)
                                /\ \A j \in DOMAIN w : j > i => w[j] # Unsubscribe(t)
      BY <1>5 DEF Will
    <2>2. CASE i = 1
      <3>1. ASSUME NEW j \in DOMAIN x PROVE x[j] # Unsubscribe(t)
        <4>1. j + 1 \in DOMAIN w /\ j + 1 > 1 /\ x[j] = w[j + 1]
          BY <1>2, <1>3
        <4> QED
          BY <2>1, <2>2, <4>1
      <3> QED
        BY <1>2, <2>1, <2>2, <3>1 DEF Stays
    <2>3. CASE i # 1
      <3>1. i - 1 \in DOMAIN x /\ x[i - 1] = w[i] /\ i \in Int /\ \A j \in DOMAIN x : j \in Int
        BY <1>2, <1>3, <2>3
      <3>2. ASSUME NEW j \in DOMAIN x, j > i - 1 PROVE x[j] # Unsubscribe(t)
        <4>1. j + 1 \in DOMAIN w /\ j + 1 > i /\ x[j] = w[j + 1]
          BY <1>3, <3>1, <3>2
        <4> QED
          BY <2>1, <4>1
      <3> DEFINE k == i - 1
      <3>3. k \in DOMAIN x /\ Asks(x[k], t)
        BY <2>1, <3>1
      <3> HIDE DEF k
      <3>4. \A j \in DOMAIN x : j > k => x[j] # Unsubscribe(t)
        BY <3>2 DEF k
      <3> QED
        BY <3>3, <3>4 DEF Will
    <2> QED
      BY <2>2, <2>3
  <1>6. ASSUME NEW t, Stays(w, t) PROVE Head(w) # Unsubscribe(t) /\ Stays(x, t)
    BY <1>2, <1>3, <1>6 DEF Stays
  <1> QED
    BY <1>1, <1>4, <1>5, <1>6 DEF x

-----------------------------------------------------------------------------
(* Types. *)

NodeType ==
  /\ participates \in BOOLEAN
  /\ wanted \in [Apps -> [Topics -> Nat]] /\ file \in [Apps -> [Topics -> Nat]]
  /\ changed \in [Apps -> BOOLEAN] /\ saving \subseteq Apps /\ open \in Apps \cup {Nothing}
  /\ job \in {Done} \cup [topic : Topics, step : {"subscribe", "unsubscribe"}]
PeerType ==
  /\ state \in [Peers -> {"closed", "secured", "corroborated"}]
  /\ list \in [Peers -> [Topics -> Nat]] /\ everything \in [Peers -> BOOLEAN]
  /\ reply \in [Peers -> {Idle} \cup [topic : Topics, from : Int, older : BOOLEAN]]
  /\ since \in [Peers -> [Topics -> Int]]
WireType == wire \in [Peers -> Seq(Request)]
FeedType == feed \in [Peers -> Seq(Rows)]
DataType ==
  /\ held \in [Peers -> SUBSET Rows] /\ passing \in [Peers -> SUBSET Rows]
  /\ stored \subseteq Rows /\ recent \subseteq Rows
  /\ unsolicited \in [Peers -> 0 .. MaxUnsolicited]
  /\ now \in Start .. MaxNow /\ commands \in 0 .. MaxCommands /\ breaks \in 0 .. MaxBreaks

LEMMA TypeParts ==
  /\ TypeOK <=> (NodeType /\ PeerType /\ WireType /\ FeedType /\ DataType)
  /\ TypeOK' <=> (NodeType' /\ PeerType' /\ WireType' /\ FeedType' /\ DataType')
  BY DEF TypeOK, NodeType, PeerType, WireType, FeedType, DataType

LEMMA Numbers ==
  /\ MaxUnsolicited \in Nat /\ MaxNow \in Nat /\ Start \in Nat /\ Start <= MaxNow
  /\ MaxCommands \in Nat /\ MaxBreaks \in Nat /\ Never \in Nat /\ Never > MaxNow
  /\ None \in [Topics -> Nat] /\ \A t \in Topics : None[t] = 0
  /\ Nothing \notin Apps /\ Nothing \notin Topics
  BY SubscriptionsAssumption DEF Never, None

LEMMA InitType == Init => TypeOK
  <1> SUFFICES ASSUME Init PROVE TypeOK
    OBVIOUS
  <1>1. NodeType /\ PeerType
    BY Numbers DEF Init, NodeType, PeerType
  <1>2. WireType /\ FeedType
    BY DEF Init, WireType, FeedType
  <1>3. DataType
    BY Numbers, SubscriptionsAssumption DEF Init, DataType
  <1> QED
    BY <1>1, <1>2, <1>3, TypeParts

LEMMA CloseType ==
  ASSUME TypeOK, NEW C \in SUBSET Peers, Close(C)
  PROVE  PeerType' /\ WireType' /\ FeedType'
  <1>1. PeerType'
    BY Numbers, TypeParts DEF Close, PeerType
  <1>2. WireType'
    BY TypeParts DEF Close, WireType
  <1>3. FeedType'
    BY TypeParts DEF Close, FeedType
  <1> QED
    BY <1>1, <1>2, <1>3

LEMMA SendType ==
  ASSUME TypeOK, NEW p \in Peers, NEW S \in SUBSET Rows, SendAll(p, S)
  PROVE  /\ FeedType'
         /\ \A q \in Peers : q # p => feed'[q] = feed[q]
         /\ \A r \in S : \E i \in DOMAIN feed'[p] : feed'[p][i] = r
         /\ \A i \in DOMAIN feed[p] : i \in DOMAIN feed'[p] /\ feed'[p][i] = feed[p][i]
  <1>1. PICK q \in Listings(S) : feed' = [feed EXCEPT ![p] = @ \o q]
    BY DEF SendAll
  <1>2. IsFiniteSet(S)
    BY SubscriptionsAssumption, FS_Subset
  <1>3. Cardinality(S) \in Nat
    BY <1>2, FS_CardinalityType
  <1>4. q \in [1 .. Cardinality(S) -> S] /\ \A r \in S : \E i \in DOMAIN q : q[i] = r
    BY DEF Listings
  <1>5. q \in Seq(Rows)
    <2>1. q \in [1 .. Cardinality(S) -> Rows]
      BY <1>4
    <2> QED
      BY <1>3, <2>1, SeqDef
  <1>6. feed \in [Peers -> Seq(Rows)] /\ feed[p] \in Seq(Rows)
    BY TypeParts DEF FeedType
  <1> DEFINE w == feed[p]
             c == w \o q
  <1>7. /\ c \in Seq(Rows) /\ Len(w) \in Nat /\ Len(q) \in Nat
        /\ DOMAIN w = 1 .. Len(w) /\ DOMAIN q = 1 .. Len(q)
        /\ DOMAIN c = 1 .. Len(w) + Len(q)
        /\ \A i \in 1 .. Len(w) + Len(q) : c[i] = IF i <= Len(w) THEN w[i] ELSE q[i - Len(w)]
    BY <1>5, <1>6, ConcatProperties, LenProperties
  <1>8. feed'[p] = c /\ \A x \in Peers : x # p => feed'[x] = feed[x]
    BY <1>1, <1>6
  <1>9. FeedType'
    BY <1>1, <1>6, <1>7 DEF FeedType
  <1> HIDE DEF c, w
  <1>10. ASSUME NEW r \in S PROVE \E i \in DOMAIN c : c[i] = r
    <2>1. PICK i \in DOMAIN q : q[i] = r
      BY <1>4
    <2>2. Len(w) + i \in DOMAIN c /\ c[Len(w) + i] = r
      BY <1>7, <2>1
    <2> QED
      BY <2>2
  <1>11. \A i \in DOMAIN w : i \in DOMAIN c /\ c[i] = w[i]
    BY <1>7
  <1> QED
    BY <1>8, <1>9, <1>10, <1>11 DEF w

LEMMA BroadcastType ==
  ASSUME TypeOK, NEW m \in Request, Broadcast(m)
  PROVE  WireType'
  <1>1. ASSUME NEW p \in Peers
        PROVE  Append(wire[p], m) \in Seq(Request) /\ wire[p] \in Seq(Request)
    <2>1. wire[p] \in Seq(Request)
      BY TypeParts DEF WireType
    <2> QED
      BY <2>1, WireAppend
  <1> DEFINE x(p) == IF state[p] = "closed" THEN wire[p] ELSE Append(wire[p], m)
  <1>2. \A p \in Peers : x(p) \in Seq(Request)
    BY <1>1
  <1>3. wire' = [p \in Peers |-> x(p)]
    BY DEF Broadcast
  <1> HIDE DEF x
  <1> QED
    BY <1>2, <1>3 DEF WireType

\* What is sent to a peer that has said that it can be trusted with it.
LEMMA CorroboratedSends ==
  ASSUME TypeOK, NEW p \in Peers, Corroborated(p)
  PROVE  \E u \in Seq(Request) :
           /\ wire' = [wire EXCEPT ![p] = @ \o u]
           /\ participates => AsksAll(u)
           /\ \A t \in Enumerable(p) : Wants(wanted, {t}) => Will(u, t)
  <1> DEFINE T == Enumerable(p)
             q == Enumeration(T)
             e == [i \in DOMAIN q |-> Gathered(q[i][1][2])]
             h == IF participates THEN <<Everything>> ELSE <<>>
  <1>1. T \in SUBSET Topics /\ wanted \in [Apps -> [Topics -> Nat]]
    BY TypeParts DEF Enumerable, NodeType
  <1> HIDE DEF T
  <1>2. PICK n \in Nat : /\ DOMAIN q = 1 .. n /\ \A i \in 1 .. n : q[i][1][2] \in T
                         /\ \A t \in T : Wants(wanted, {t}) =>
                                           \E i \in 1 .. n : q[i][1][2] = t
    <2>1. \E n \in Nat :
           /\ DOMAIN Enumeration(T) = 1 .. n
           /\ \A i \in 1 .. n : Enumeration(T)[i][1][2] \in T
           /\ \A t \in T : Wants(wanted, {t}) =>
                             \E i \in 1 .. n : Enumeration(T)[i][1][2] = t
      <3> HIDE DEF q, e, h
      <3> QED
        BY <1>1, EnumerationOf
    <2> HIDE DEF e, h
    <2> QED
      BY <2>1
  <1> HIDE DEF q
  <1>3. stored \subseteq Rows /\ now \in Nat
    BY TypeParts, Numbers DEF DataType
  <1>4. \A i \in 1 .. n : /\ e[i] \in Request /\ e[i].type = "subscribe"
                          /\ e[i].topic = q[i][1][2]
    BY <1>1, <1>2, <1>3, GatheredIs
  <1>5. DOMAIN e = 1 .. n /\ e \in [1 .. n -> Request]
    BY <1>2, <1>4
  <1> HIDE DEF e
  <1>6. e \in Seq(Request)
    BY <1>5, SeqDef
  <1>7. \A t : Stays(e, t)
    BY <1>4, <1>5, Requests DEF Stays
  <1>8. ASSUME NEW t \in T, Wants(wanted, {t}) PROVE Will(e, t)
    <2>1. PICK i \in 1 .. n : q[i][1][2] = t /\ i \in Nat
      BY <1>2, <1>8
    <2>2. i \in DOMAIN e /\ Asks(e[i], t)
      BY <1>4, <1>5, <2>1 DEF Asks
    <2>3. \A j \in DOMAIN e : j > i => e[j] # Unsubscribe(t)
      BY <1>7 DEF Stays
    <2> QED
      BY <2>2, <2>3 DEF Will
  <1>9. h \in Seq(Request) /\ (participates => AsksAll(h))
    BY Requests DEF AsksAll
  <1>10. wire' = [wire EXCEPT ![p] = (@ \o h) \o e]
    BY DEF Corroborated, T, q, e
  <1> HIDE DEF h
  <1>11. h \o e \in Seq(Request) /\ (participates => AsksAll(h \o e))
         /\ \A t \in T : Wants(wanted, {t}) => Will(h \o e, t)
    BY <1>6, <1>8, <1>9, WireConcat
  <1>12. (wire[p] \o h) \o e = wire[p] \o (h \o e)
    <2>1. PICK w \in Seq(Request) : wire[p] = w
      BY TypeParts DEF WireType
    <2>2. \A a, b, c \in Seq(Request) : (a \o b) \o c = a \o (b \o c)
      BY ConcatAssociative
    <2>3. (w \o h) \o e = w \o (h \o e)
      BY <1>6, <1>9, <2>2
    <2> QED
      BY <2>1, <2>3
  <1>13. wire' = [wire EXCEPT ![p] = @ \o (h \o e)]
    BY <1>10, <1>12
  <1> QED
    BY <1>11, <1>13 DEF T

\* Neither end of a connection takes part in these.
LEMMA CommandType ==
  ASSUME TypeOK, NEW a \in Apps, NEW t \in Topics, Add(a, t) \/ Remove(a, t)
  PROVE  TypeOK'
  <1>0. NodeType /\ PeerType /\ WireType /\ FeedType /\ DataType
    BY TypeParts
  <1>1. PeerType' /\ WireType' /\ FeedType' /\ DataType'
    <2>1. Command(a, t)
      BY DEF Add, Remove
    <2> QED
      BY <1>0, <2>1, Numbers
         DEF Command, PeerType, WireType, FeedType, DataType, peer, rows, data
  <1>2. NodeType'
    <2>1. /\ changed' = [changed EXCEPT ![a] = TRUE]
          /\ UNCHANGED <<participates, file, saving, open>>
      BY DEF Add, Remove, Command
    <2>2. wanted[a][t] \in Nat
      BY <1>0 DEF NodeType
    <2>3. wanted' \in [Apps -> [Topics -> Nat]]
      <3>1. CASE Add(a, t)
        BY <1>0, <2>2, <3>1 DEF Add, NodeType
      <3>2. CASE Remove(a, t)
        BY <1>0, <2>2, <3>2 DEF Remove, NodeType
      <3> QED
        BY <3>1, <3>2
    <2>4. job' \in {Done} \cup [topic : Topics, step : {"subscribe", "unsubscribe"}]
      BY DEF Add, Remove
    <2> QED
      BY <1>0, <2>1, <2>3, <2>4 DEF NodeType
  <1> QED
    BY <1>1, <1>2, TypeParts

LEMMA AnnounceSends ==
  ASSUME TypeOK, Announce
  PROVE  /\ job # Done /\ job.topic \in Topics
         /\ \E m \in Request :
              /\ Broadcast(m)
              /\ job.step = "subscribe" => Asks(m, job.topic) /\ \A t : m # Unsubscribe(t)
              /\ job.step # "subscribe" => m = Unsubscribe(job.topic)
              /\ m # Everything
  <1>1. job # Done /\ job.topic \in Topics
    BY TypeParts DEF Announce, NodeType
  <1>2. stored \subseteq Rows /\ now \in Nat
    BY TypeParts, Numbers DEF DataType
  <1>3. CASE job.step = "subscribe"
    <2> DEFINE m == Gathered(job.topic)
    <2>1. m \in Request /\ m.type = "subscribe" /\ m.topic = job.topic
      BY <1>1, <1>2, GatheredIs
    <2>2. Broadcast(m)
      BY <1>3 DEF Announce
    <2> HIDE DEF m
    <2>3. Asks(m, job.topic) /\ m # Everything /\ \A t : m # Unsubscribe(t)
      BY <2>1, Requests DEF Asks
    <2> QED
      BY <1>1, <1>3, <2>1, <2>2, <2>3
  <1>4. CASE job.step # "subscribe"
    <2> DEFINE m == Unsubscribe(job.topic)
    <2>1. Broadcast(m)
      BY <1>4 DEF Announce
    <2>2. m \in Request /\ m # Everything
      BY <1>1, Requests
    <2> HIDE DEF m
    <2> QED
      BY <1>1, <1>4, <2>1, <2>2 DEF m
  <1> QED
    BY <1>3, <1>4

LEMMA SetOne ==
  ASSUME NEW V, NEW f \in [Peers -> [Topics -> V]], NEW p \in Peers, NEW t \in Topics,
         NEW v \in V, NEW g, g = [f EXCEPT ![p][t] = v]
  PROVE  /\ g \in [Peers -> [Topics -> V]]
         /\ g[p][t] = v
         /\ \A x \in Peers, u \in Topics : x # p \/ u # t => g[x][u] = f[x][u]
         /\ \A x \in Peers : x # p => g[x] = f[x]
  OBVIOUS

\* What a request does to the list of a connection.
LEMMA Takes ==
  ASSUME TypeOK, NEW p \in Peers, NEW m \in Request, NEW t \in Topics, m.topic = t
  PROVE  /\ TakeSubscribe(p, m) =>
              /\ m.from \in Int /\ Asks(m, t)
              /\ \/ UNCHANGED <<list, everything>> /\ everything[p]
                 \/ /\ list' = [list EXCEPT ![p][t] = list[p][t] + 1]
                    /\ UNCHANGED everything
                 \/ /\ list' = [list EXCEPT ![p] = None]
                    /\ everything' = [everything EXCEPT ![p] = TRUE]
              /\ since' = [since EXCEPT ![p][t] = m.from]
              /\ reply' = [reply EXCEPT ![p] = [topic |-> t, from |-> m.from, older |-> TRUE]]
         /\ TakeUnsubscribe(p, m) =>
              /\ m = Unsubscribe(t)
              /\ \/ /\ ~everything[p] /\ list[p][t] > 0
                    /\ list' = [list EXCEPT ![p][t] = list[p][t] - 1]
                    /\ \/ list[p][t] = 1 /\ since' = [since EXCEPT ![p][t] = Never]
                       \/ list[p][t] # 1 /\ UNCHANGED since
                 \/ (everything[p] \/ list[p][t] = 0) /\ UNCHANGED <<list, since>>
              /\ UNCHANGED <<everything, reply>>
  <1>0. /\ list[p][t] \in Nat /\ list \in [Peers -> [Topics -> Nat]]
        /\ since \in [Peers -> [Topics -> Int]]
    BY TypeParts DEF PeerType
  <1>1. ASSUME TakeSubscribe(p, m)
        PROVE  m.from \in Int /\ Asks(m, t)
    BY <1>1, Requests DEF TakeSubscribe, Asks
  <1>2. ASSUME TakeUnsubscribe(p, m)
        PROVE  /\ m = Unsubscribe(t)
               /\ \/ /\ ~everything[p] /\ list[p][t] > 0
                     /\ list' = [list EXCEPT ![p][t] = list[p][t] - 1]
                     /\ \/ list[p][t] = 1 /\ since' = [since EXCEPT ![p][t] = Never]
                        \/ list[p][t] # 1 /\ UNCHANGED since
                  \/ (everything[p] \/ list[p][t] = 0) /\ UNCHANGED <<list, since>>
    <2>1. m = Unsubscribe(t)
      BY <1>2, Requests DEF TakeUnsubscribe
    <2>2. CASE (everything[p] \/ list[p][t] = 0) /\ UNCHANGED <<list, since>>
      BY <2>1, <2>2
    <2>3. CASE /\ ~everything[p] /\ list[p][t] > 0
               /\ list' = [list EXCEPT ![p][t] = @ - 1]
               /\ since' = [since EXCEPT ![p][t] = IF list'[p][t] = 0 THEN Never ELSE @]
      <3> DEFINE z == IF list'[p][t] = 0 THEN Never ELSE since[p][t]
      <3>0. since' = [since EXCEPT ![p][t] = z]
        BY <1>0, <2>3
      <3>1. list' = [list EXCEPT ![p][t] = list[p][t] - 1]
        BY <2>3
      <3>2. list'[p][t] = list[p][t] - 1
        BY <1>0, <3>1
      <3>3. CASE list[p][t] = 1
        <4>1. z = Never
          BY <1>0, <3>2, <3>3
        <4> HIDE DEF z
        <4>2. since' = [since EXCEPT ![p][t] = Never]
          BY <3>0, <4>1
        <4> QED
          BY <2>1, <2>3, <3>1, <3>3, <4>2
      <3>4. CASE list[p][t] # 1
        <4>1. z = since[p][t]
          BY <1>0, <3>2, <3>4
        <4> HIDE DEF z
        <4>2. since' = since
          BY <1>0, <3>0, <4>1
        <4> QED
          BY <2>1, <2>3, <3>1, <3>4, <4>2
      <3> QED
        BY <3>3, <3>4
    <2> QED
      BY <1>2, <2>2, <2>3 DEF TakeUnsubscribe
  <1> QED
    BY <1>1, <1>2 DEF TakeSubscribe, TakeUnsubscribe

LEMMA ProcessType ==
  ASSUME TypeOK, NEW p \in Peers, Process(p)
  PROVE  TypeOK'
  <1>0. NodeType /\ PeerType /\ WireType /\ FeedType /\ DataType
    BY TypeParts
  <1>1. NodeType' /\ FeedType' /\ DataType'
    BY <1>0 DEF Process, NodeType, FeedType, DataType, node, rows, data, times
  <1>2. PICK w \in Seq(Request) : wire[p] = w
    BY <1>0 DEF WireType
  <1>3. w # <<>> /\ Head(w) \in Request /\ Tail(w) \in Seq(Request)
    BY <1>2, WireTail DEF Process
  <1>4. WireType'
    BY <1>0, <1>2, <1>3 DEF Process, WireType
  <1>5. PICK m \in Request : m = Head(w)
    BY <1>3
  <1>6. TakeSubscribe(p, m) \/ TakeUnsubscribe(p, m) \/ TakeEverything(p, m)
    BY <1>2, <1>5 DEF Process
  <1>7. state' = state
    BY DEF Process
  <1>8. CASE TakeSubscribe(p, m)
    <2>1. PICK t \in Topics : m.topic = t
      BY <1>8, Requests DEF TakeSubscribe
    <2>2. list[p][t] + 1 \in Nat /\ m.from \in Int
      BY <1>0, <1>8, <2>1, Takes DEF PeerType
    <2>3. list' \in [Peers -> [Topics -> Nat]] /\ everything' \in [Peers -> BOOLEAN]
      <3>1. ASSUME list' = [list EXCEPT ![p][t] = list[p][t] + 1]
            PROVE  list' \in [Peers -> [Topics -> Nat]]
        <4>1. PICK v \in Nat : v = list[p][t] + 1
          BY <2>2
        <4> QED
          BY <1>0, <3>1, <4>1, SetOne DEF PeerType
      <3>2. [list EXCEPT ![p] = None] \in [Peers -> [Topics -> Nat]]
        BY <1>0, Numbers DEF PeerType
      <3>3. \/ UNCHANGED <<list, everything>>
            \/ /\ list' = [list EXCEPT ![p][t] = list[p][t] + 1]
               /\ UNCHANGED everything
            \/ /\ list' = [list EXCEPT ![p] = None]
               /\ everything' = [everything EXCEPT ![p] = TRUE]
        BY <1>8, <2>1, Takes
      <3> QED
        BY <1>0, <3>1, <3>2, <3>3 DEF PeerType
    <2>4. since' \in [Peers -> [Topics -> Int]]
      <3>1. PICK v \in Int : v = m.from
        BY <2>2
      <3>2. since' = [since EXCEPT ![p][t] = v]
        <4>1. since' = [since EXCEPT ![p][m.topic] = m.from]
          BY <1>8 DEF TakeSubscribe
        <4> QED
          BY <2>1, <3>1, <4>1
      <3> QED
        BY <1>0, <3>2, SetOne DEF PeerType
    <2>5. reply' \in [Peers -> {Idle} \cup [topic : Topics, from : Int, older : BOOLEAN]]
      <3>1. reply' = [reply EXCEPT ![p] = [topic |-> m.topic, from |-> m.from, older |-> TRUE]]
        BY <1>8 DEF TakeSubscribe
      <3> QED
        BY <1>0, <2>1, <2>2, <3>1 DEF PeerType
    <2> QED
      BY <1>0, <1>1, <1>4, <1>7, <2>3, <2>4, <2>5, TypeParts DEF PeerType
  <1>9. CASE TakeUnsubscribe(p, m)
    <2>1. PICK t \in Topics : m.topic = t
      BY <1>9, Requests DEF TakeUnsubscribe
    <2>2. list[p][t] \in Nat /\ Never \in Int
      BY <1>0, Numbers DEF PeerType
    <2>3. list' \in [Peers -> [Topics -> Nat]]
      <3>1. CASE list' = list
        BY <1>0, <3>1 DEF PeerType
      <3>2. CASE list[p][t] > 0 /\ list' = [list EXCEPT ![p][t] = list[p][t] - 1]
        <4>1. PICK v \in Nat : v = list[p][t] - 1
          BY <2>2, <3>2
        <4> QED
          BY <1>0, <3>2, <4>1, SetOne DEF PeerType
      <3> QED
        BY <1>9, <2>1, <3>1, <3>2, Takes
    <2>4. since' \in [Peers -> [Topics -> Int]]
      <3>1. ASSUME since' = [since EXCEPT ![p][t] = Never]
            PROVE  since' \in [Peers -> [Topics -> Int]]
        BY <1>0, <2>2, <3>1, SetOne DEF PeerType
      <3>2. since' = [since EXCEPT ![p][t] = Never] \/ since' = since
        BY <1>9, <2>1, Takes
      <3> QED
        BY <1>0, <3>1, <3>2 DEF PeerType
    <2> QED
      BY <1>0, <1>1, <1>4, <1>7, <1>9, <2>3, <2>4, TypeParts DEF PeerType, TakeUnsubscribe
  <1>10. CASE TakeEverything(p, m)
    BY <1>0, <1>1, <1>4, <1>7, <1>10, Numbers, TypeParts DEF PeerType, TakeEverything
  <1> QED
    BY <1>6, <1>8, <1>9, <1>10

LEMMA EmbraceType ==
  ASSUME TypeOK, NEW p \in Peers, Embrace(p)
  PROVE  TypeOK'
  <1>0. NodeType /\ PeerType /\ WireType /\ FeedType /\ DataType
    BY TypeParts
  <1>1. NodeType'
    BY <1>0 DEF Embrace, NodeType, node
  <1>2. PICK f \in Seq(Rows) : feed[p] = f
    BY <1>0 DEF FeedType
  <1>3. f # <<>> /\ Head(f) \in Rows /\ Tail(f) \in Seq(Rows)
    BY <1>2, HeadTailProperties DEF Embrace
  <1>4. /\ unsolicited' \in [Peers -> 0 .. MaxUnsolicited]
        /\ PeerType' /\ WireType' /\ FeedType'
    <2>1. \/ /\ feed' = [feed EXCEPT ![p] = Tail(f)]
             /\ UNCHANGED <<state, wire, peer, unsolicited>>
          \/ /\ unsolicited[p] < MaxUnsolicited /\ feed' = [feed EXCEPT ![p] = Tail(f)]
             /\ unsolicited' = [unsolicited EXCEPT ![p] = @ + 1]
             /\ UNCHANGED <<state, wire, peer>>
          \/ Close({p}) /\ unsolicited' = [unsolicited EXCEPT ![p] = 0]
      BY <1>2 DEF Embrace
    <2>2. CASE feed' = [feed EXCEPT ![p] = Tail(f)] /\ UNCHANGED <<state, wire, peer>>
      <3>1. PeerType' /\ WireType' /\ FeedType'
        BY <1>0, <1>3, <2>2 DEF PeerType, WireType, FeedType, peer
      <3>2. unsolicited[p] \in 0 .. MaxUnsolicited
        BY <1>0 DEF DataType
      <3>3. unsolicited' \in [Peers -> 0 .. MaxUnsolicited]
        BY <1>0, <2>1, <3>2, Numbers DEF DataType
      <3> QED
        BY <3>1, <3>3
    <2>3. CASE Close({p}) /\ unsolicited' = [unsolicited EXCEPT ![p] = 0]
      BY <1>0, <2>3, CloseType, Numbers DEF DataType
    <2> QED
      BY <2>1, <2>2, <2>3
  <1>5. stored' \subseteq Rows /\ recent' \subseteq Rows
    BY <1>0, <1>2, <1>3 DEF Embrace, DataType
  <1>6. DataType'
    BY <1>0, <1>4, <1>5 DEF Embrace, DataType, rows, times
  <1> QED
    BY <1>1, <1>4, <1>6, TypeParts

LEMMA ClosesType ==
  ASSUME TypeOK, NEW C \in SUBSET Peers, Close(C), NodeType',
         unsolicited' \in [Peers -> 0 .. MaxUnsolicited], stored' = stored,
         recent' \in SUBSET recent, UNCHANGED <<rows, now, commands>>, breaks' \in 0 .. MaxBreaks
  PROVE  TypeOK'
  <1>1. PeerType' /\ WireType' /\ FeedType'
    BY CloseType
  <1>2. DataType'
    BY TypeParts DEF DataType, rows
  <1> QED
    BY <1>1, <1>2, TypeParts

LEMMA SaveType ==
  ASSUME TypeOK, Flush \/ \E a \in Apps : Create(a) \/ Write(a)
  PROVE  TypeOK'
  <1>0. NodeType /\ PeerType /\ WireType /\ FeedType /\ DataType
    BY TypeParts
  <1>1. PeerType' /\ WireType' /\ FeedType' /\ DataType'
    BY <1>0 DEF Flush, Create, Write, PeerType, WireType, FeedType, DataType, peer, rows, data, times
  <1>2. CASE Flush
    <2>1. NodeType'
      BY <1>0, <1>2 DEF Flush, NodeType
    <2> QED
      BY <1>1, <2>1, TypeParts
  <1>3. ASSUME NEW a \in Apps, Create(a) PROVE TypeOK'
    <2>1. NodeType'
      BY <1>0, <1>3, Numbers DEF Create, NodeType
    <2> QED
      BY <1>1, <2>1, TypeParts
  <1>4. ASSUME NEW a \in Apps, Write(a) PROVE TypeOK'
    <2>1. wanted[a] \in [Topics -> Nat]
      BY <1>0 DEF NodeType
    <2>2. /\ file' \in [Apps -> [Topics -> Nat]] /\ changed' \in [Apps -> BOOLEAN]
      BY <1>0, <1>4, <2>1 DEF Write, NodeType
    <2>3. NodeType'
      BY <1>0, <1>4, <2>2 DEF Write, NodeType
    <2> QED
      BY <1>1, <2>3, TypeParts
  <1> QED
    BY <1>2, <1>3, <1>4

LEMMA StepType == TypeOK /\ [Next]_vars => TypeOK'
  <1> SUFFICES ASSUME TypeOK, [Next]_vars PROVE TypeOK'
    OBVIOUS
  <1>0. NodeType /\ PeerType /\ WireType /\ FeedType /\ DataType
    BY TypeParts
  <1>1. CASE Announce
    <2>1. WireType'
      BY <1>1, AnnounceSends, BroadcastType
    <2>2. NodeType' /\ PeerType' /\ FeedType' /\ DataType'
      BY <1>0, <1>1 DEF Announce, NodeType, PeerType, FeedType, DataType, node, peer, rows, data, times
    <2> QED
      BY <2>1, <2>2, TypeParts
  <1>2. CASE Flush \/ \E a \in Apps : Create(a) \/ Write(a)
    BY <1>2, SaveType
  <1>3. CASE Clean
    <2>1. WireType' /\ NodeType' /\ PeerType' /\ FeedType' /\ DataType'
      BY <1>0, <1>3 DEF Clean, NodeType, PeerType, WireType, FeedType, DataType, node, peer, rows, times
    <2> QED
      BY <2>1, TypeParts
  <1>4. CASE Tick
    <2>1. WireType' /\ NodeType' /\ PeerType' /\ FeedType'
      BY <1>0, <1>4 DEF Tick, NodeType, PeerType, WireType, FeedType, node, peer
    <2>2. DataType'
      BY <1>0, <1>4, Numbers DEF Tick, DataType, rows, data
    <2> QED
      BY <2>1, <2>2, TypeParts
  <1>5. CASE Restart
    <2>1. NodeType'
      BY <1>0, <1>5 DEF Restart, NodeType
    <2>2. breaks' \in 0 .. MaxBreaks /\ unsolicited' \in [Peers -> 0 .. MaxUnsolicited]
      BY <1>0, <1>5, Numbers DEF Restart, DataType
    <2> QED
      BY <1>5, <2>1, <2>2, ClosesType DEF Restart
  <1>6. ASSUME NEW p \in Peers, Break(p) \/ Refuse(p) PROVE TypeOK'
    <2>1. NodeType'
      BY <1>0, <1>6 DEF Break, Refuse, NodeType, node
    <2>2. breaks' \in 0 .. MaxBreaks /\ unsolicited' \in [Peers -> 0 .. MaxUnsolicited]
      <3>1. (breaks < MaxBreaks /\ breaks' = breaks + 1) \/ breaks' = breaks
        BY <1>6 DEF Break, Refuse, times
      <3>2. unsolicited' = [unsolicited EXCEPT ![p] = 0]
        BY <1>6 DEF Break, Refuse
      <3> QED
        BY <1>0, <3>1, <3>2, Numbers DEF DataType
    <2>3. Close({p}) /\ stored' = stored /\ recent' = recent /\ UNCHANGED <<rows, now, commands>>
      BY <1>6 DEF Break, Refuse, times
    <2> QED
      BY <2>1, <2>2, <2>3, ClosesType
  <1>7. ASSUME NEW p \in Peers, Secure(p) PROVE TypeOK'
    <2>1. NodeType' /\ PeerType' /\ WireType' /\ FeedType' /\ DataType'
      BY <1>0, <1>7 DEF Secure, NodeType, PeerType, WireType, FeedType, DataType, node, peer, rows, data, times
    <2> QED
      BY <2>1, TypeParts
  <1>8. ASSUME NEW p \in Peers, Corroborated(p) PROVE TypeOK'
    <2>1. PICK u \in Seq(Request) : wire' = [wire EXCEPT ![p] = @ \o u]
      BY <1>8, CorroboratedSends
    <2>2. wire[p] \o u \in Seq(Request)
      BY <1>0, WireConcat DEF WireType
    <2>3. WireType'
      BY <1>0, <2>1, <2>2 DEF WireType
    <2>4. NodeType' /\ PeerType' /\ FeedType' /\ DataType'
      BY <1>0, <1>8 DEF Corroborated, NodeType, PeerType, FeedType, DataType, node, peer, rows, data, times
    <2> QED
      BY <2>3, <2>4, TypeParts
  <1>9. ASSUME NEW p \in Peers, Older(p) \/ Finish(p) PROVE TypeOK'
    <2>1. FeedType'
      <3>1. \A S \in SUBSET held[p] : S \in SUBSET Rows
        BY <1>0 DEF DataType
      <3>2. CASE Older(p)
        <4>1. PICK S \in SUBSET held[p] : SendAll(p, S)
          BY <3>2 DEF Older, About
        <4> QED
          BY <3>1, <4>1, SendType
      <3>3. CASE Finish(p)
        <4>1. Recent(p) \in SUBSET held[p] /\ SendAll(p, Recent(p))
          BY <3>3 DEF Finish, Recent, About
        <4> QED
          BY <3>1, <4>1, SendType
      <3> QED
        BY <1>9, <3>2, <3>3
    <2>2. reply' \in [Peers -> {Idle} \cup [topic : Topics, from : Int, older : BOOLEAN]]
      <3> DEFINE R == [topic : Topics, from : Int, older : BOOLEAN]
      <3>1. reply \in [Peers -> {Idle} \cup R] /\ reply[p] \in R
        BY <1>0, <1>9 DEF Older, Finish, PeerType
      <3>2. [reply[p] EXCEPT !.older = FALSE] \in R
        BY <3>1
      <3> HIDE DEF R
      <3>3. reply' \in [Peers -> {Idle} \cup R]
        BY <1>9, <3>1, <3>2 DEF Older, Finish
      <3> QED
        BY <3>3 DEF R
    <2>3. PeerType'
      BY <1>0, <1>9, <2>2 DEF Older, Finish, PeerType
    <2>4. NodeType' /\ WireType' /\ DataType'
      BY <1>0, <1>9 DEF Older, Finish, NodeType, WireType, DataType, node, rows, data, times
    <2> QED
      BY <2>1, <2>3, <2>4, TypeParts
  <1>10. ASSUME NEW p \in Peers, NEW r \in Rows, Arrive(p, r) PROVE TypeOK'
    <2>1. NodeType' /\ PeerType' /\ WireType' /\ FeedType'
      BY <1>0, <1>10 DEF Arrive, NodeType, PeerType, WireType, FeedType, node, peer
    <2>2. DataType'
      BY <1>0, <1>10 DEF Arrive, DataType, data, times
    <2> QED
      BY <2>1, <2>2, TypeParts
  <1>11. ASSUME NEW p \in Peers, NEW r \in Rows, Pass(p, r) PROVE TypeOK'
    <2>1. NodeType' /\ PeerType' /\ WireType' /\ DataType'
      BY <1>0, <1>11 DEF Pass, NodeType, PeerType, WireType, DataType, node, peer, data, times
    <2>2. FeedType'
      <3>1. feed[p] \in Seq(Rows)
        BY <1>0 DEF FeedType
      <3>2. Append(feed[p], r) \in Seq(Rows)
        BY <3>1, AppendProperties
      <3> QED
        BY <1>0, <1>11, <3>2 DEF Pass, FeedType
    <2> QED
      BY <2>1, <2>2, TypeParts
  <1>12. CASE UNCHANGED vars
    <2>1. NodeType' /\ PeerType' /\ WireType' /\ FeedType' /\ DataType'
      BY <1>0, <1>12 DEF vars, NodeType, PeerType, WireType, FeedType, DataType, node, peer, rows, data, times
    <2> QED
      BY <2>1, TypeParts
  <1> QED
    BY <1>1, <1>2, <1>3, <1>4, <1>5, <1>6, <1>7, <1>8, <1>9, <1>10, <1>11, <1>12,
       CommandType, ProcessType, EmbraceType DEF Next

\* What is kept of the lists, of the connections and of the requests has its type,
\* and counters stay within their limits (subscription_set, coordinator).
THEOREM TypeCorrect == Spec => []TypeOK
  BY InitType, StepType, PTL DEF Spec

-----------------------------------------------------------------------------
(* Files. A list is marked as changed until it has been written: what is being     *)
(* saved has changed, for no command runs meanwhile and a failure leaves the mark. *)

FileInv ==
  /\ \A a \in saving : changed[a]
  /\ open # Nothing => open \in saving
  /\ FilesFollow

LEMMA FileStep ==
  ASSUME TypeOK, FileInv, [Next]_vars
  PROVE  FileInv'
  <1>0. /\ NodeType /\ Nothing \notin Apps
    BY TypeParts, Numbers
  <1>1. ASSUME UNCHANGED <<wanted, changed, file, saving, open>> PROVE FileInv'
    BY <1>1 DEF FileInv, FilesFollow
  <1>2. CASE Flush
    BY <1>0, <1>2 DEF Flush, FileInv, FilesFollow
  <1>3. CASE Restart
    BY <1>0, <1>3, Numbers DEF Restart, FileInv, FilesFollow, NodeType
  <1>4. ASSUME NEW a \in Apps, Create(a) PROVE FileInv'
    <2>1. \A b \in Apps : b # a => file'[b] = file[b]
      BY <1>0, <1>4 DEF Create, NodeType
    <2> QED
      BY <1>0, <1>4, <2>1 DEF Create, FileInv, FilesFollow, NodeType
  <1>5. ASSUME NEW a \in Apps, Write(a) PROVE FileInv'
    <2>1. \A b \in Apps : b # a => file'[b] = file[b] /\ changed'[b] = changed[b]
      BY <1>0, <1>5 DEF Write, NodeType
    <2>2. changed[a]
      BY <1>5, <1>0 DEF Write, FileInv
    <2>3. ~changed'[a] => file'[a] = wanted[a]
      <3>1. CASE file' = [file EXCEPT ![a] = wanted[a]]
        BY <1>0, <3>1 DEF NodeType
      <3>2. CASE UNCHANGED <<file, changed>>
        BY <2>2, <3>2
      <3> QED
        BY <1>5, <3>1, <3>2 DEF Write
    <2>4. saving' = saving \ {a} /\ open' = Nothing /\ wanted' = wanted
      BY <1>5 DEF Write
    <2>5. FilesFollow'
      BY <2>1, <2>3, <2>4 DEF FileInv, FilesFollow
    <2>6. \A b \in saving' : changed'[b]
      BY <1>0, <2>1, <2>4 DEF FileInv, NodeType
    <2> QED
      BY <2>4, <2>5, <2>6 DEF FileInv
  <1>6. ASSUME NEW a \in Apps, NEW t \in Topics, Add(a, t) \/ Remove(a, t) PROVE FileInv'
    <2>1. /\ Command(a, t)
          /\ \A b \in Apps : b # a => wanted'[b] = wanted[b]
      BY <1>0, <1>6 DEF Add, Remove, NodeType
    <2>2. /\ changed'[a] /\ \A b \in Apps : b # a => changed'[b] = changed[b]
          /\ saving' = {} /\ open' = open /\ file' = file /\ saving = {}
      BY <1>0, <2>1 DEF Command, Unlocked, NodeType
    <2> QED
      BY <2>1, <2>2 DEF FileInv, FilesFollow
  <1>7. ASSUME \/ Announce \/ Clean \/ Tick \/ UNCHANGED vars
               \/ \E p \in Peers :
                    \/ Secure(p) \/ Corroborated(p) \/ Embrace(p) \/ Break(p)
                    \/ Process(p) \/ Refuse(p) \/ Older(p) \/ Finish(p)
                    \/ \E r \in Rows : Arrive(p, r) \/ Pass(p, r)
        PROVE  UNCHANGED <<wanted, changed, file, saving, open>>
    BY <1>7, ZenonT(60) DEF Announce, Clean, Tick, vars, Secure, Corroborated, Embrace, Break, Process,
                Refuse, Older, Finish, Arrive, Pass, node
  <1> QED
    BY <1>1, <1>2, <1>3, <1>4, <1>5, <1>6, <1>7 DEF Next

\* A list that is not marked as changed is in its file as the application wants it,
\* whenever the node stops and whatever writes have failed (subscriptions::save,
\* subscription_set::flush).
THEOREM FilesKept == Spec => []FilesFollow
  <1>1. Init => FileInv
    BY Numbers DEF Init, FileInv, FilesFollow
  <1>2. TypeOK /\ FileInv /\ [Next]_vars => FileInv'
    BY FileStep
  <1>3. FileInv => FilesFollow
    BY DEF FileInv
  <1> QED
    BY <1>1, <1>2, <1>3, TypeCorrect, PTL DEF Spec

-----------------------------------------------------------------------------
(* What a peer has been asked for. A topic that is wanted, and that no command is    *)
(* about to ask for, is in the list of the peer, with nothing on its way that would *)
(* take it off, or there is a request for it that no later one takes back.         *)

Empty(p) == wire[p] = <<>> /\ list[p] = None /\ ~everything[p] /\ reply[p] = Idle
Closed == \A p \in Peers : state[p] = "closed" => Empty(p)

Covers(p, t) == \/ everything[p] \/ AsksAll(wire[p]) \/ Will(wire[p], t)
                \/ list[p][t] > 0 /\ Stays(wire[p], t)
Due(t) == ~participates /\ Wants(wanted, {t}) /\ ~(job.step = "subscribe" /\ job.topic = t)

AskInv ==
  /\ Closed
  /\ job.step = "unsubscribe" => ~Wants(wanted, {job.topic})
  /\ participates => job = Done
  /\ \A p \in Peers : state[p] = "corroborated" =>
       /\ participates => everything[p] \/ AsksAll(wire[p])
       /\ \A t \in Enumerable(p) : Due(t) => Covers(p, t)

LEMMA AskCommand ==
  ASSUME TypeOK, AskInv, NEW a \in Apps, NEW t \in Topics, Add(a, t) \/ Remove(a, t)
  PROVE  AskInv'
  <1>0. NodeType /\ PeerType
    BY TypeParts
  <1>1. /\ job = Done /\ UNCHANGED <<participates, state, wire, list, everything, reply>>
    BY DEF Add, Remove, Command, peer
  <1>2. \A u \in Topics : u # t => (Wants(wanted', {u}) <=> Wants(wanted, {u}))
    <2>1. \A b \in Apps, u \in Topics : u # t => wanted'[b][u] = wanted[b][u]
      BY <1>0 DEF Add, Remove, NodeType
    <2> QED
      BY <2>1 DEF Wants
  <1>3. /\ participates => job' = Done
        /\ job'.step = "unsubscribe" => ~Wants(wanted', {job'.topic})
    BY DEF Add, Remove, Done
  <1>4. ASSUME NEW u \in Topics, Due(u)' PROVE Due(u)
    <2>1. job.step # "subscribe"
      BY <1>1 DEF Done
    <2>2. CASE u # t
      BY <1>1, <1>2, <1>4, <2>1, <2>2 DEF Due
    <2>3. CASE u = t /\ Add(a, t)
      <3>1. participates \/ Wants(wanted, {t}) \/ job' = [topic |-> t, step |-> "subscribe"]
        BY <2>3 DEF Add
      <3> QED
        BY <1>1, <1>4, <2>1, <2>3, <3>1 DEF Due
    <2>4. CASE u = t /\ Remove(a, t)
      <3>1. Wants(wanted, {t})
        BY <2>4 DEF Remove, Wants
      <3> QED
        BY <1>1, <1>4, <2>1, <2>4, <3>1 DEF Due
    <2> QED
      BY <2>2, <2>3, <2>4
  <1>5. \A p \in Peers : \A u \in Topics : Covers(p, u)' <=> Covers(p, u)
    BY <1>1 DEF Covers
  <1> QED
    BY <1>1, <1>3, <1>4, <1>5 DEF AskInv, Closed, Empty, Enumerable

LEMMA AskAnnounce ==
  ASSUME TypeOK, AskInv, Announce
  PROVE  AskInv'
  <1>1. PICK t \in Topics : job.topic = t /\ job # Done
    BY AnnounceSends
  <1>2. PICK m \in Request :
          /\ Broadcast(m) /\ m # Everything
          /\ job.step = "subscribe" => Asks(m, t) /\ \A u : m # Unsubscribe(u)
          /\ job.step # "subscribe" => m = Unsubscribe(t)
    BY <1>1, AnnounceSends
  <1>3. /\ job' = Done
        /\ UNCHANGED <<participates, wanted, state, list, everything, reply>>
    BY DEF Announce, node, peer
  <1>4. ~participates /\ job.step \in {"subscribe", "unsubscribe"}
    BY <1>1, TypeParts DEF AskInv, NodeType
  <1>5. Closed'
    BY <1>2, <1>3 DEF AskInv, Closed, Empty, Broadcast
  <1>6. ASSUME NEW p \in Peers, state[p] = "corroborated", NEW u \in Enumerable(p),
               Wants(wanted, {u})
        PROVE  Covers(p, u)'
    <2>1. PICK w \in Seq(Request) : wire[p] = w
      BY TypeParts DEF WireType
    <2>2. wire'[p] = Append(w, m)
      BY <1>2, <1>6, <2>1 DEF Broadcast
    <2>3. PICK v : v = Append(w, m)
      OBVIOUS
    <2>4. CASE job.step = "subscribe" /\ u = t
      <3>1. Will(v, u)
        BY <1>2, <2>3, <2>4, WireAppend
      <3> QED
        BY <2>2, <2>3, <3>1 DEF Covers
    <2>5. CASE ~(job.step = "subscribe" /\ u = t)
      <3>1. Covers(p, u)
        BY <1>1, <1>4, <1>6, <2>5 DEF AskInv, Due
      <3>2. m # Unsubscribe(u)
        <4>1. CASE job.step = "subscribe"
          BY <1>2, <4>1
        <4>2. CASE job.step = "unsubscribe"
          <5>1. u # t
            BY <1>1, <1>6, <4>2 DEF AskInv
          <5> QED
            BY <1>2, <4>2, <5>1, Requests
        <4> QED
          BY <1>4, <4>1, <4>2
      <3>3. /\ AsksAll(w) => AsksAll(v)
            /\ Will(w, u) => Will(v, u)
            /\ Stays(w, u) => Stays(v, u)
        BY <2>3, <3>2, WireAppend
      <3> QED
        BY <1>3, <2>1, <2>2, <2>3, <3>1, <3>3 DEF Covers
    <2> QED
      BY <2>4, <2>5
  <1> QED
    BY <1>3, <1>4, <1>5, <1>6 DEF AskInv, Due, Enumerable, Done

LEMMA AskCorroborated ==
  ASSUME TypeOK, AskInv, NEW p \in Peers, Corroborated(p)
  PROVE  AskInv'
  <1>1. PICK u \in Seq(Request) :
          /\ wire' = [wire EXCEPT ![p] = @ \o u]
          /\ participates => AsksAll(u)
          /\ \A t \in Enumerable(p) : Wants(wanted, {t}) => Will(u, t)
    BY CorroboratedSends
  <1>2. /\ state[p] = "secured" /\ state' = [state EXCEPT ![p] = "corroborated"]
        /\ UNCHANGED <<participates, wanted, job, list, everything, reply>>
    BY DEF Corroborated, node, peer
  <1>3. PICK w \in Seq(Request) : wire[p] = w
    BY TypeParts DEF WireType
  <1>4. PICK v : v = w \o u
    OBVIOUS
  <1>5. wire'[p] = v /\ \A q \in Peers : q # p => wire'[q] = wire[q] /\ state'[q] = state[q]
    BY <1>1, <1>2, <1>3, <1>4, TypeParts DEF WireType, PeerType
  <1>6. state'[p] = "corroborated"
    BY <1>2, TypeParts DEF PeerType
  <1>7. Closed'
    BY <1>2, <1>5, <1>6 DEF AskInv, Closed, Empty
  <1>8. (participates => AsksAll(v)) /\ \A t : Will(u, t) => Will(v, t)
    BY <1>1, <1>4, WireConcat
  <1>9. \A t \in Enumerable(p) : Due(t) => Covers(p, t)'
    BY <1>1, <1>5, <1>8 DEF Covers, Due
  <1>10. \A q \in Peers : \A t : q # p => (Covers(q, t)' <=> Covers(q, t))
    BY <1>2, <1>5 DEF Covers
  <1>11. \A t : Due(t)' <=> Due(t)
    BY <1>2 DEF Due
  <1>12. ASSUME NEW q \in Peers, state'[q] = "corroborated"
         PROVE  /\ participates' => everything'[q] \/ AsksAll(wire'[q])
                /\ \A t \in Enumerable(q) : Due(t)' => Covers(q, t)'
    <2>1. CASE q = p
      BY <1>2, <1>5, <1>8, <1>9, <1>11, <2>1
    <2>2. CASE q # p
      BY <1>2, <1>5, <1>10, <1>11, <1>12, <2>2 DEF AskInv
    <2> QED
      BY <2>1, <2>2
  <1> QED
    BY <1>2, <1>7, <1>12 DEF AskInv, Enumerable

\* What processing one request leaves of what is covered.
LEMMA ProcessCovers ==
  ASSUME TypeOK, NEW p \in Peers, Process(p)
  PROVE  /\ \A q \in Peers : q # p => /\ wire'[q] = wire[q] /\ list'[q] = list[q]
                                      /\ everything'[q] = everything[q]
                                      /\ reply'[q] = reply[q] /\ since'[q] = since[q]
         /\ everything[p] \/ AsksAll(wire[p]) => everything'[p] \/ AsksAll(wire'[p])
         /\ \A u \in Topics : Covers(p, u) => Covers(p, u)'
  <1>0. PeerType /\ WireType
    BY TypeParts
  <1>1. PICK w \in Seq(Request) : wire[p] = w
    BY <1>0 DEF WireType
  <1>2. w # <<>> /\ wire' = [wire EXCEPT ![p] = Tail(w)]
    BY <1>1 DEF Process
  <1>3. PICK m \in Request, x \in Seq(Request) : m = Head(w) /\ x = Tail(w)
    BY <1>2, WireTail
  <1>4. wire'[p] = x /\ \A q \in Peers : q # p => wire'[q] = wire[q]
    BY <1>0, <1>2, <1>3 DEF WireType
  <1>5. /\ AsksAll(w) => m = Everything \/ AsksAll(x)
        /\ \A t : Will(w, t) => Will(x, t) \/ (Asks(m, t) /\ Stays(x, t))
        /\ \A t : Stays(w, t) => m # Unsubscribe(t) /\ Stays(x, t)
    BY <1>2, <1>3, WireTail
  <1>6. TakeSubscribe(p, m) \/ TakeUnsubscribe(p, m) \/ TakeEverything(p, m)
    BY <1>1, <1>3 DEF Process
  <1>7. CASE TakeSubscribe(p, m)
    <2>1. PICK t \in Topics : m.topic = t
      BY <1>7, Requests DEF TakeSubscribe
    <2>2. m.type = "subscribe" /\ m # Everything
      BY <1>7, Requests DEF TakeSubscribe
    <2>3. \/ UNCHANGED <<list, everything>> /\ everything[p]
          \/ list' = [list EXCEPT ![p][t] = list[p][t] + 1] /\ UNCHANGED everything
          \/ list' = [list EXCEPT ![p] = None] /\ everything' = [everything EXCEPT ![p] = TRUE]
      BY <1>7, <2>1, Takes
    <2>4. /\ since' = [since EXCEPT ![p][t] = m.from]
          /\ reply' = [reply EXCEPT ![p] = [topic |-> t, from |-> m.from, older |-> TRUE]]
      BY <1>7, <2>1 DEF TakeSubscribe
    <2>5. \A q \in Peers : q # p => /\ list'[q] = list[q] /\ everything'[q] = everything[q]
                                    /\ reply'[q] = reply[q] /\ since'[q] = since[q]
      BY <1>0, <2>3, <2>4 DEF PeerType
    <2>6. \/ everything'[p]
          \/ /\ everything'[p] = everything[p] /\ list'[p][t] > 0
             /\ \A u \in Topics : u # t => list'[p][u] = list[p][u]
      <3>1. list[p][t] \in Nat
        BY <1>0 DEF PeerType
      <3>2. CASE list' = [list EXCEPT ![p][t] = list[p][t] + 1] /\ UNCHANGED everything
        <4>1. PICK n \in Nat : n = list[p][t] + 1 /\ n > 0
          BY <3>1
        <4>2. list'[p][t] = n /\ \A u \in Topics : u # t => list'[p][u] = list[p][u]
          BY <1>0, <3>2, <4>1, SetOne DEF PeerType
        <4> QED
          BY <3>2, <4>1, <4>2
      <3>3. CASE everything' = [everything EXCEPT ![p] = TRUE]
        BY <1>0, <3>3 DEF PeerType
      <3> QED
        BY <2>3, <3>2, <3>3
    <2>7. \A u : Asks(m, u) => u = t
      BY <2>1 DEF Asks
    <2>8. ASSUME NEW u \in Topics, Covers(p, u) PROVE Covers(p, u)'
      BY <1>1, <1>4, <1>5, <2>2, <2>6, <2>7, <2>8 DEF Covers
    <2> QED
      BY <1>1, <1>4, <1>5, <2>2, <2>5, <2>6, <2>8
  <1>8. CASE TakeUnsubscribe(p, m)
    <2>1. PICK t \in Topics : m.topic = t
      BY <1>8, Requests DEF TakeUnsubscribe
    <2>2. m = Unsubscribe(t) /\ m # Everything /\ \A u : ~Asks(m, u)
      BY <1>8, <2>1, Requests DEF TakeUnsubscribe, Asks
    <2>3. /\ UNCHANGED <<everything, reply>>
          /\ \/ list' = [list EXCEPT ![p][t] = list[p][t] - 1]
             \/ list' = list
          /\ since' = [since EXCEPT ![p][t] = Never] \/ since' = since
      BY <1>8, <2>1, Takes
    <2>4. \A q \in Peers : q # p => list'[q] = list[q] /\ since'[q] = since[q]
      BY <1>0, <2>3 DEF PeerType
    <2>5. \A u \in Topics : u # t => list'[p][u] = list[p][u]
      BY <1>0, <2>3 DEF PeerType
    <2>6. ASSUME NEW u \in Topics, Covers(p, u) PROVE Covers(p, u)'
      <3>1. CASE u = t
        BY <1>1, <1>4, <1>5, <2>2, <2>3, <2>6, <3>1 DEF Covers
      <3>2. CASE u # t
        BY <1>1, <1>4, <1>5, <2>2, <2>3, <2>5, <2>6, <3>2 DEF Covers
      <3> QED
        BY <3>1, <3>2
    <2> QED
      BY <1>1, <1>4, <1>5, <2>2, <2>3, <2>4, <2>6
  <1>9. CASE TakeEverything(p, m)
    <2>1. everything'[p] /\ UNCHANGED <<reply, since>>
          /\ \A q \in Peers : q # p => list'[q] = list[q] /\ everything'[q] = everything[q]
      BY <1>0, <1>9 DEF TakeEverything, PeerType
    <2> QED
      BY <1>4, <2>1 DEF Covers
  <1> QED
    BY <1>6, <1>7, <1>8, <1>9

LEMMA AskProcess ==
  ASSUME TypeOK, AskInv, NEW p \in Peers, Process(p)
  PROVE  AskInv'
  <1>1. UNCHANGED <<participates, wanted, job, state>>
    BY DEF Process, node
  <1>2. /\ \A q \in Peers : q # p => /\ wire'[q] = wire[q] /\ list'[q] = list[q]
                                     /\ everything'[q] = everything[q]
                                     /\ reply'[q] = reply[q]
        /\ everything[p] \/ AsksAll(wire[p]) => everything'[p] \/ AsksAll(wire'[p])
        /\ \A u \in Topics : Covers(p, u) => Covers(p, u)'
    BY ProcessCovers
  <1>3. Closed'
    BY <1>1, <1>2 DEF AskInv, Closed, Empty, Process
  <1>4. ASSUME NEW q \in Peers, state[q] = "corroborated"
        PROVE  /\ participates => everything'[q] \/ AsksAll(wire'[q])
               /\ \A t \in Enumerable(q) : Due(t) => Covers(q, t)'
    <2>1. \A t \in Topics : Covers(q, t) => Covers(q, t)'
      BY <1>2 DEF Covers
    <2>2. participates => everything'[q] \/ AsksAll(wire'[q])
      BY <1>2, <1>4 DEF AskInv
    <2> QED
      BY <1>4, <2>1, <2>2 DEF AskInv, Enumerable
  <1> QED
    BY <1>1, <1>3, <1>4 DEF AskInv, Due, Enumerable

LEMMA AskClose ==
  ASSUME TypeOK, AskInv, NEW C \in SUBSET Peers, Close(C),
         UNCHANGED <<participates, wanted, job>> \/ (C = Peers /\ job' = Done)
  PROVE  AskInv'
  <1>1. Closed'
    BY TypeParts DEF Close, AskInv, Closed, Empty, PeerType
  <1>2. CASE C = Peers /\ job' = Done
    BY <1>1, <1>2 DEF Close, AskInv, Done
  <1>3. CASE UNCHANGED <<participates, wanted, job>>
    <2>1. ASSUME NEW q \in Peers, state'[q] = "corroborated"
          PROVE  /\ state[q] = "corroborated"
                 /\ wire'[q] = wire[q] /\ list'[q] = list[q] /\ everything'[q] = everything[q]
      <3>1. q \notin C /\ state[q] = "corroborated"
        BY <2>1 DEF Close
      <3>2. wire'[q] = wire[q] /\ list'[q] = list[q] /\ everything[q] \in BOOLEAN
        BY <3>1, TypeParts DEF Close, PeerType
      <3>3. everything'[q] = everything[q]
        BY <3>1, <3>2 DEF Close
      <3> QED
        BY <3>1, <3>2, <3>3
    <2> QED
      BY <1>1, <1>3, <2>1 DEF AskInv, Covers, Due, Enumerable
  <1> QED
    BY <1>2, <1>3

LEMMA AskStep ==
  ASSUME TypeOK, AskInv, [Next]_vars
  PROVE  AskInv'
  <1>1. ASSUME UNCHANGED <<participates, wanted, job, wire, list, everything>>,
               \A p \in Peers : \/ state'[p] = state[p] /\ reply'[p] = reply[p]
                                \/ state[p] # "closed" /\ state'[p] = state[p]
                                \/ state'[p] = "secured"
        PROVE  AskInv'
    <2>1. Closed'
      BY <1>1 DEF AskInv, Closed, Empty
    <2>2. \A p \in Peers : state'[p] = "corroborated" => state[p] = "corroborated"
      BY <1>1
    <2> QED
      BY <1>1, <2>1, <2>2 DEF AskInv, Covers, Due, Enumerable
  <1>2. CASE Restart
    <2>1. Close(Peers) /\ job' = Done
      BY <1>2 DEF Restart
    <2> QED
      BY <2>1, AskClose
  <1>3. ASSUME NEW p \in Peers, Break(p) \/ Refuse(p) PROVE AskInv'
    <2>1. Close({p}) /\ UNCHANGED <<participates, wanted, job>>
      BY <1>3 DEF Break, Refuse, node
    <2> QED
      BY <2>1, AskClose
  <1>4. ASSUME NEW p \in Peers, Embrace(p) PROVE AskInv'
    <2>1. /\ UNCHANGED <<participates, wanted, job>>
          /\ Close({p}) \/ UNCHANGED <<state, wire, peer>>
      BY <1>4 DEF Embrace, node
    <2>2. CASE UNCHANGED <<state, wire, peer>>
      BY <1>1, <2>1, <2>2 DEF peer
    <2> QED
      BY <2>1, <2>2, AskClose
  <1>5. ASSUME NEW p \in Peers, Secure(p) PROVE AskInv'
    BY <1>1, <1>5, TypeParts DEF Secure, PeerType, node, peer
  <1>6. ASSUME NEW p \in Peers, Older(p) \/ Finish(p) PROVE AskInv'
    <2>1. state[p] # "closed"
      BY <1>6 DEF Older, Finish, AskInv, Closed, Empty
    <2>2. \A q \in Peers : q # p => reply'[q] = reply[q]
      BY <1>6, TypeParts DEF Older, Finish, PeerType
    <2> QED
      BY <1>1, <1>6, <2>1, <2>2 DEF Older, Finish, node
  <1>7. ASSUME \/ Flush \/ Clean \/ Tick \/ UNCHANGED vars
               \/ \E a \in Apps : Create(a) \/ Write(a)
               \/ \E p \in Peers : \E r \in Rows : Arrive(p, r) \/ Pass(p, r)
        PROVE  AskInv'
    <2>1. UNCHANGED <<participates, wanted, job, wire, list, everything, state, reply>>
      BY <1>7 DEF Flush, Clean, Tick, vars, Create, Write, Arrive, Pass, node, peer
    <2> QED
      BY <1>1, <2>1
  <1> QED
    BY <1>2, <1>3, <1>4, <1>5, <1>6, <1>7, AskCommand, AskAnnounce, AskCorroborated,
       AskProcess DEF Next

LEMMA AskAlways == Spec => []AskInv
  <1>1. Init => AskInv
    BY DEF Init, AskInv, Closed, Empty, Done
  <1>2. TypeOK /\ AskInv /\ [Next]_vars => AskInv'
    BY AskStep
  <1> QED
    BY <1>1, <1>2, TypeCorrect, PTL DEF Spec

\* A peer that can be trusted with them, to which no request is on its way and about
\* which no command has anything left to say, has been asked for all that the node
\* wants of it (coordinator::subscribe, unsubscribe, corroborated and process).
THEOREM AllAsked == Spec => []Asked
  <1>1. AskInv => Asked
    <2> SUFFICES ASSUME AskInv, NEW p \in Peers, state[p] = "corroborated", wire[p] = <<>>,
                        job = Done, NEW t \in Enumerable(p), Wants(wanted, {t})
                 PROVE  Subscribed(p, {t})
      BY DEF Asked
    <2>1. ~AsksAll(wire[p]) /\ ~Will(wire[p], t)
      BY DEF AsksAll, Will
    <2> QED
      BY <2>1 DEF AskInv, Covers, Due, Done, Subscribed
  <1> QED
    BY <1>1, AskAlways, PTL

-----------------------------------------------------------------------------
(* Nothing between the answer and the broadcast. A row is at the node, or on its way  *)
(* to it in one of three forms; and what a peer is not subscribed to, it has not been *)
(* asked for.                                                                        *)

Has(s, r) == \E i \in DOMAIN s : s[i] = r
Sub(p, t) == everything[p] \/ list[p][t] > 0
Here(p, r) == r \in stored \cup recent \cup passing[p] \/ Has(feed[p], r)
Answering(p, t, r) == reply[p].topic = t /\ reply[p].from <= Stamp[r]

GapAt(p) ==
  /\ \A r \in held[p] : Stamp[r] <= now
  /\ \A t \in Topics : ~Sub(p, t) => since[p][t] = Never
  /\ \A t \in Topics : \A r \in held[p] :
       Sub(p, t) /\ t \in Root[r] /\ since[p][t] <= Stamp[r] /\ ~Old(r)
       => Here(p, r) \/ Answering(p, t, r)
GapInv == \A p \in Peers : GapAt(p)

LEMMA GapIs == NoGap <=> \A p \in Peers : \A t \in Topics : \A r \in held[p] :
       Sub(p, t) /\ t \in Root[r] /\ since[p][t] <= Stamp[r] /\ ~Old(r)
       => Here(p, r) \/ Answering(p, t, r)
  <1>1. \A p \in Peers, t \in Topics : Subscribed(p, {t}) <=> Sub(p, t)
    BY DEF Subscribed, Sub
  <1> QED
    BY <1>1 DEF NoGap, Here, Has, Answering

\* The subscriptions of a connection are as they were, and what was here still is.
LEMMA GapKept ==
  ASSUME NEW p \in Peers, GapAt(p), now \in Nat, now' \in Nat, now' >= now,
         held'[p] = held[p], held[p] \subseteq Rows, list'[p] = list[p],
         everything'[p] = everything[p],
         since'[p] = since[p], reply'[p].topic = reply[p].topic,
         reply'[p].from = reply[p].from,
         \A r \in held[p] : \A t \in Root[r] \cap Topics :
           Sub(p, t) /\ Here(p, r) /\ ~Old(r)' => Here(p, r)'
  PROVE  GapAt(p)'
  <1>1. \A t : Sub(p, t)' <=> Sub(p, t)
    BY DEF Sub
  <1>2. \A r \in held[p] : Stamp[r] \in Nat
    BY SubscriptionsAssumption
  <1>3. \A r \in held[p] : ~Old(r)' => ~Old(r)
    <2>1. MaxAge \in Nat
      BY SubscriptionsAssumption
    <2> QED
      BY <1>2, <2>1 DEF Old
  <1>4. \A r \in held[p] : Stamp[r] <= now'
    BY <1>2 DEF GapAt
  <1>5. ASSUME NEW t \in Topics, NEW r \in held[p], Sub(p, t), t \in Root[r],
               since[p][t] <= Stamp[r], ~Old(r)'
        PROVE  Here(p, r)' \/ Answering(p, t, r)'
    <2>1. Here(p, r) \/ Answering(p, t, r)
      BY <1>3, <1>5 DEF GapAt
    <2>2. Answering(p, t, r) => Answering(p, t, r)'
      BY DEF Answering
    <2> QED
      BY <1>5, <2>1, <2>2
  <1> QED
    BY <1>1, <1>4, <1>5 DEF GapAt

LEMMA GapClosed ==
  ASSUME TypeOK, NEW C \in SUBSET Peers, Close(C), NEW p \in C, GapAt(p),
         held' = held, now' = now
  PROVE  GapAt(p)'
  <1>1. list'[p] = None /\ since'[p] = [t \in Topics |-> Never] /\ ~everything'[p]
    BY DEF Close
  <1>2. \A t \in Topics : ~Sub(p, t)' /\ since'[p][t] = Never
    BY <1>1, Numbers DEF Sub
  <1> QED
    BY <1>2 DEF GapAt

\* What a connection keeps when another one ends.
Untouched(q) == /\ feed'[q] = feed[q] /\ list'[q] = list[q]
                 /\ everything'[q] = everything[q] /\ reply'[q] = reply[q]
                 /\ since'[q] = since[q]

LEMMA GapProcess ==
  ASSUME TypeOK, GapInv, NEW p \in Peers, Process(p)
  PROVE  GapInv'
  <1>0. PeerType /\ WireType /\ DataType
    BY TypeParts
  <1>1. UNCHANGED <<held, passing, feed, stored, recent, now>> /\ reply[p] = Idle
    BY DEF Process, rows, data, times
  <1>2. now \in Nat /\ \A q \in Peers : held[q] \subseteq Rows
    BY <1>0, Numbers DEF DataType
  <1>3. ASSUME NEW q \in Peers, q # p PROVE GapAt(q)'
    <2>1. list'[q] = list[q] /\ everything'[q] = everything[q] /\ reply'[q] = reply[q]
          /\ since'[q] = since[q]
      BY <1>3, ProcessCovers
    <2>2. \A r : Here(q, r)' <=> Here(q, r)
      BY <1>1 DEF Here
    <2> QED
      BY <1>1, <1>2, <2>1, <2>2, GapKept DEF GapInv
  <1>4. PICK w \in Seq(Request) : wire[p] = w
    BY <1>0 DEF WireType
  <1>5. PICK m \in Request : m = Head(w)
    BY <1>4, WireTail DEF Process
  <1>6. TakeSubscribe(p, m) \/ TakeUnsubscribe(p, m) \/ TakeEverything(p, m)
    BY <1>4, <1>5 DEF Process
  <1>7. \A r : Here(p, r)' <=> Here(p, r)
    BY <1>1 DEF Here
  <1>8. ASSUME NEW t \in Topics, NEW r \in held[p], Sub(p, t), t \in Root[r],
               since[p][t] <= Stamp[r], ~Old(r)
        PROVE  Here(p, r)
    <2>1. reply[p].topic # t
      BY <1>1, Numbers DEF Idle
    <2> QED
      BY <1>8, <2>1 DEF GapInv, GapAt, Answering
  <1>9. \A r \in held[p] : Stamp[r] \in Nat /\ Stamp[r] <= now /\ ~(Never <= Stamp[r])
    <2>1. \A r \in held[p] : Stamp[r] \in Nat /\ Stamp[r] <= now
      BY <1>2, SubscriptionsAssumption DEF GapInv, GapAt
    <2>2. now <= MaxNow /\ Never > MaxNow /\ MaxNow \in Nat /\ Never \in Nat
      BY <1>0, Numbers DEF DataType
    <2> QED
      BY <1>2, <2>1, <2>2
  <1>10. \A r : Old(r)' <=> Old(r)
    BY <1>1 DEF Old
  \* A topic that has been asked for before, or is asked for with everything.
  <1>11. ASSUME NEW t \in Topics, since'[p][t] = since[p][t], NEW r \in held[p],
                t \in Root[r], since[p][t] <= Stamp[r], ~Old(r)
         PROVE  Here(p, r)
    <2>1. Sub(p, t)
      BY <1>9, <1>11 DEF GapInv, GapAt
    <2> QED
      BY <1>8, <1>11, <2>1
  <1>12. ASSUME \A t \in Topics : ~Sub(p, t)' => since'[p][t] = Never,
                NEW u \in Topics,
                \A t \in Topics : t # u => since'[p][t] = since[p][t],
                \A r \in held[p] : Sub(p, u)' /\ since'[p][u] <= Stamp[r] =>
                  since'[p][u] = since[p][u] \/ Answering(p, u, r)'
         PROVE  GapAt(p)'
    <2>1. ASSUME NEW t \in Topics, NEW r \in held[p], Sub(p, t)', t \in Root[r],
                 since'[p][t] <= Stamp[r], ~Old(r)
          PROVE  Here(p, r)' \/ Answering(p, t, r)'
      BY <1>7, <1>11, <1>12, <2>1
    <2>2. held'[p] = held[p] /\ \A r \in held[p] : Stamp[r] <= now'
      BY <1>1, <1>9
    <2> QED
      BY <1>10, <1>12, <2>1, <2>2 DEF GapAt
  <1>13. ASSUME TakeSubscribe(p, m) PROVE GapAt(p)'
    <2>1. PICK t \in Topics : m.topic = t
      BY <1>13, Requests DEF TakeSubscribe
    <2>2. PICK f \in Int : m.from = f
      BY <1>13, Requests DEF TakeSubscribe
    <2>3. /\ since' = [since EXCEPT ![p][t] = f]
          /\ reply' = [reply EXCEPT ![p] = [topic |-> t, from |-> f, older |-> TRUE]]
      BY <1>13, <2>1, <2>2 DEF TakeSubscribe
    <2>4. since'[p][t] = f /\ \A u \in Topics : u # t => since'[p][u] = since[p][u]
      BY <1>0, <2>3 DEF PeerType
    <2>5. reply'[p] = [topic |-> t, from |-> f, older |-> TRUE]
      BY <1>0, <2>3 DEF PeerType
    <2>6. \/ UNCHANGED <<list, everything>> /\ everything[p]
          \/ list' = [list EXCEPT ![p][t] = list[p][t] + 1] /\ UNCHANGED everything
          \/ list' = [list EXCEPT ![p] = None] /\ everything' = [everything EXCEPT ![p] = TRUE]
      BY <1>13, <2>1, Takes
    <2>7. /\ Sub(p, t)'
          /\ \A u \in Topics : u # t /\ ~Sub(p, u)' => ~Sub(p, u)
      <3>1. CASE UNCHANGED <<list, everything>> /\ everything[p]
        BY <3>1 DEF Sub
      <3>2. CASE list' = [list EXCEPT ![p][t] = list[p][t] + 1] /\ UNCHANGED everything
        <4>1. list[p][t] \in Nat
          BY <1>0 DEF PeerType
        <4>2. PICK n \in Nat : n = list[p][t] + 1 /\ n > 0
          BY <4>1
        <4>3. list'[p][t] = n /\ \A u \in Topics : u # t => list'[p][u] = list[p][u]
          BY <1>0, <3>2, <4>2, SetOne DEF PeerType
        <4> QED
          BY <3>2, <4>2, <4>3 DEF Sub
      <3>3. CASE everything' = [everything EXCEPT ![p] = TRUE]
        BY <1>0, <3>3 DEF Sub, PeerType
      <3> QED
        BY <2>6, <3>1, <3>2, <3>3
    <2>8. \A u \in Topics : ~Sub(p, u)' => since'[p][u] = Never
      BY <2>4, <2>7 DEF GapInv, GapAt
    <2>9. \A r \in held[p] : since'[p][t] <= Stamp[r] => Answering(p, t, r)'
      BY <2>4, <2>5 DEF Answering
    <2> QED
      BY <1>12, <2>4, <2>8, <2>9
  <1>14. ASSUME TakeUnsubscribe(p, m) PROVE GapAt(p)'
    <2>1. PICK t \in Topics : m.topic = t
      BY <1>14, Requests DEF TakeUnsubscribe
    <2>2. /\ UNCHANGED everything
          /\ \/ /\ ~everything[p] /\ list[p][t] > 0
                /\ list' = [list EXCEPT ![p][t] = list[p][t] - 1]
                /\ \/ list[p][t] = 1 /\ since' = [since EXCEPT ![p][t] = Never]
                   \/ list[p][t] # 1 /\ UNCHANGED since
             \/ UNCHANGED <<list, since>>
      BY <1>14, <2>1, Takes
    <2>3. list[p][t] \in Nat
      BY <1>0 DEF PeerType
    <2>4. \A u \in Topics : u # t => list'[p][u] = list[p][u] /\ since'[p][u] = since[p][u]
      BY <1>0, <2>2 DEF PeerType
    <2>5. /\ ~Sub(p, t)' => since'[p][t] = Never
          /\ Sub(p, t)' => since'[p][t] = since[p][t]
      <3>1. CASE UNCHANGED <<list, since>>
        BY <2>2, <3>1 DEF Sub, GapInv, GapAt
      <3>2. CASE /\ ~everything[p] /\ list[p][t] > 0
                 /\ list' = [list EXCEPT ![p][t] = list[p][t] - 1]
                 /\ \/ list[p][t] = 1 /\ since' = [since EXCEPT ![p][t] = Never]
                    \/ list[p][t] # 1 /\ UNCHANGED since
        <4>1. PICK n \in Nat : n = list[p][t] - 1
          BY <2>3, <3>2
        <4>2. list'[p][t] = n
          BY <1>0, <3>2, <4>1, SetOne DEF PeerType
        <4>3. CASE list[p][t] = 1 /\ since' = [since EXCEPT ![p][t] = Never]
          <5>1. since'[p][t] = Never
            BY <1>0, <4>3 DEF PeerType
          <5>2. n = 0
            BY <4>1, <4>3
          <5>3. ~Sub(p, t)'
            BY <2>2, <3>2, <4>2, <5>2 DEF Sub
          <5> QED
            BY <5>1, <5>3
        <4>4. CASE list[p][t] # 1 /\ UNCHANGED since
          <5>1. n > 0
            BY <2>3, <3>2, <4>1, <4>4
          <5>2. Sub(p, t)'
            BY <4>2, <5>1 DEF Sub
          <5> QED
            BY <4>4, <5>2
        <4> QED
          BY <3>2, <4>3, <4>4
      <3> QED
        BY <2>2, <3>1, <3>2
    <2>6. \A u \in Topics : ~Sub(p, u)' => since'[p][u] = Never
      <3>1. \A u \in Topics : u # t => (Sub(p, u)' <=> Sub(p, u))
        BY <2>2, <2>4 DEF Sub
      <3> QED
        BY <2>4, <2>5, <3>1 DEF GapInv, GapAt
    <2> QED
      BY <1>12, <2>4, <2>5, <2>6
  <1>15. ASSUME TakeEverything(p, m) PROVE GapAt(p)'
    <2>1. everything'[p] /\ UNCHANGED since
      BY <1>0, <1>15 DEF TakeEverything, PeerType
    <2>2. \A t \in Topics : Sub(p, t)'
      BY <2>1 DEF Sub
    <2>3. held'[p] = held[p] /\ \A x \in held[p] : Stamp[x] <= now'
      BY <1>1, <1>9
    <2> QED
      BY <1>7, <1>10, <1>11, <2>1, <2>2, <2>3 DEF GapAt
  <1> QED
    BY <1>3, <1>6, <1>13, <1>14, <1>15 DEF GapInv

LEMMA GapEmbrace ==
  ASSUME TypeOK, GapInv, NEW p \in Peers, Embrace(p)
  PROVE  GapInv'
  <1>0. now \in Nat /\ \A q \in Peers : held[q] \subseteq Rows
    BY TypeParts, Numbers DEF DataType
  <1>1. UNCHANGED <<held, passing, now>>
    BY DEF Embrace, rows, times
  <1>2. PICK f \in Seq(Rows) : feed[p] = f
    BY TypeParts DEF FeedType
  <1>3. f # <<>> /\ recent' = recent \cup {Head(f)} /\ stored \subseteq stored'
    BY <1>2 DEF Embrace
  <1>4. \/ feed' = [feed EXCEPT ![p] = Tail(f)] /\ UNCHANGED peer
        \/ Close({p})
    BY <1>2 DEF Embrace
  <1>5. ASSUME feed' = [feed EXCEPT ![p] = Tail(f)], UNCHANGED peer, NEW q \in Peers
        PROVE  GapAt(q)'
    <2>1. ASSUME NEW r, Has(feed[q], r) PROVE r = Head(f) \/ Has(feed'[q], r)
      <3>1. CASE q # p
        BY <1>5, <2>1, <3>1, TypeParts DEF FeedType
      <3>2. CASE q = p
        <4>1. PICK x \in Seq(Rows) : x = Tail(f)
          BY <1>3, HeadTailProperties
        <4>2. feed'[p] = x
          BY <1>5, <4>1, TypeParts DEF FeedType
        <4>3. PICK i \in DOMAIN f : f[i] = r
          BY <1>2, <2>1, <3>2 DEF Has
        <4>4. /\ i \in 1 .. Len(f) /\ Head(f) = f[1]
              /\ DOMAIN x = 1 .. Len(f) - 1 /\ Len(f) \in Nat
              /\ \A j \in 1 .. Len(f) - 1 : x[j] = f[j + 1]
          BY <1>3, <4>1, <4>3, HeadTailProperties, LenProperties
        <4>5. CASE i = 1
          BY <4>3, <4>4, <4>5
        <4>6. CASE i # 1
          <5>1. PICK j \in 1 .. Len(f) - 1 : j = i - 1 /\ j + 1 = i
            BY <4>4, <4>6
          <5>2. j \in DOMAIN x /\ x[j] = r
            BY <4>3, <4>4, <5>1
          <5> QED
            BY <3>2, <4>2, <5>2 DEF Has
        <4> QED
          BY <4>5, <4>6
      <3> QED
        BY <3>1, <3>2
    <2>2. \A r : Here(q, r) => Here(q, r)'
      BY <1>1, <1>3, <2>1 DEF Here
    <2> QED
      BY <1>0, <1>1, <1>5, <2>2, GapKept DEF GapInv, peer
  <1>6. ASSUME Close({p}), NEW q \in Peers PROVE GapAt(q)'
    <2>1. CASE q = p
      <3>1. {p} \in SUBSET Peers /\ q \in {p} /\ GapAt(q)
        BY <2>1 DEF GapInv
      <3> QED
        BY <1>1, <1>6, <3>1, GapClosed
    <2>2. CASE q # p
      <3>1. Untouched(q)
        BY <1>6, <2>2, TypeParts DEF Close, Untouched, PeerType
      <3>2. \A r : Here(q, r) => Here(q, r)'
        BY <1>1, <1>3, <3>1 DEF Here, Untouched
      <3> QED
        BY <1>0, <1>1, <3>1, <3>2, GapKept DEF GapInv, Untouched
    <2> QED
      BY <2>1, <2>2
  <1> QED
    BY <1>4, <1>5, <1>6 DEF GapInv

LEMMA GapSend ==
  ASSUME TypeOK, GapInv, NEW p \in Peers, Older(p) \/ Finish(p)
  PROVE  GapInv'
  <1>0. now \in Nat /\ \A q \in Peers : held[q] \subseteq Rows
    BY TypeParts, Numbers DEF DataType
  <1>1. UNCHANGED <<held, passing, now, stored, recent, list, everything, since>>
    BY DEF Older, Finish, rows, data, times
  <1>2. PICK S \in SUBSET held[p] : SendAll(p, S) /\ (Finish(p) => S = Recent(p))
    <2>1. CASE Older(p) /\ ~Finish(p)
      BY <2>1 DEF Older, About
    <2>2. CASE Finish(p)
      <3>1. Recent(p) \in SUBSET held[p] /\ SendAll(p, Recent(p))
        BY <2>2 DEF Finish, Recent, About
      <3> QED
        BY <3>1
    <2> QED
      BY <2>1, <2>2
  <1>3. /\ \A q \in Peers : q # p => feed'[q] = feed[q]
        /\ \A r \in S : Has(feed'[p], r)
        /\ \A i \in DOMAIN feed[p] : i \in DOMAIN feed'[p] /\ feed'[p][i] = feed[p][i]
    <2>1. S \in SUBSET Rows
      BY <1>0
    <2> QED
      BY <1>2, <2>1, SendType DEF Has
  <1>4. \A q \in Peers : \A r : Here(q, r) => Here(q, r)'
    BY <1>1, <1>3 DEF Here, Has
  <1>5. \A q \in Peers : q # p => reply'[q] = reply[q]
    BY TypeParts DEF Older, Finish, PeerType
  <1>6. ASSUME NEW q \in Peers, reply'[q].topic = reply[q].topic, reply'[q].from = reply[q].from
        PROVE  GapAt(q)'
    BY <1>0, <1>1, <1>4, <1>6, GapKept DEF GapInv
  <1>7. CASE Older(p)
    <2>1. reply[p] \in [topic : Topics, from : Int, older : BOOLEAN]
          /\ reply' = [reply EXCEPT ![p] = [reply[p] EXCEPT !.older = FALSE]]
      BY <1>7, TypeParts DEF Older, PeerType
    <2>2. reply'[p].topic = reply[p].topic /\ reply'[p].from = reply[p].from
      BY <2>1, TypeParts DEF PeerType
    <2> QED
      BY <1>5, <1>6, <2>2 DEF GapInv
  <1>8. CASE Finish(p)
    <2>1. ASSUME NEW t \in Topics, NEW r \in held[p], t \in Root[r], Answering(p, t, r)
          PROVE  Here(p, r)'
      <3>1. Stamp[r] <= now
        BY DEF GapInv, GapAt
      <3>2. r \in S
        BY <1>2, <1>8, <2>1, <3>1 DEF Recent, About, Answering
      <3> QED
        BY <1>3, <3>2 DEF Here
    <2>2. ASSUME NEW t \in Topics, NEW r \in held[p], Sub(p, t)', t \in Root[r],
                 since'[p][t] <= Stamp[r], ~Old(r)'
          PROVE  Here(p, r)'
      <3>1. Here(p, r) \/ Answering(p, t, r)
        BY <1>1, <2>2 DEF GapInv, GapAt, Sub, Old
      <3> QED
        BY <1>4, <2>1, <2>2, <3>1
    <2>3. \A t \in Topics : ~Sub(p, t)' => since'[p][t] = Never
      BY <1>1 DEF GapInv, GapAt, Sub
    <2>4. GapAt(p)'
      BY <1>1, <2>2, <2>3 DEF GapInv, GapAt
    <2> QED
      BY <1>5, <1>6, <2>4 DEF GapInv
  <1> QED
    BY <1>7, <1>8

LEMMA GapCloses ==
  ASSUME TypeOK, GapInv, NEW C \in SUBSET Peers, Close(C), UNCHANGED <<held, passing, now>>,
         stored \subseteq stored', recent \subseteq recent' \/ C = Peers
  PROVE  GapInv'
  <1>0. now \in Nat /\ \A q \in Peers : held[q] \subseteq Rows
    BY TypeParts, Numbers DEF DataType
  <1>1. ASSUME NEW q \in C PROVE GapAt(q)'
    BY GapClosed DEF GapInv
  <1>2. ASSUME NEW q \in Peers, q \notin C PROVE GapAt(q)'
    <2>1. Untouched(q)
      BY <1>2, TypeParts DEF Close, Untouched, PeerType
    <2>2. \A r : Here(q, r) => Here(q, r)'
      BY <1>2, <2>1 DEF Here, Untouched
    <2> QED
      BY <1>0, <1>2, <2>1, <2>2, GapKept DEF GapInv, Untouched
  <1> QED
    BY <1>1, <1>2 DEF GapInv

LEMMA GapPass ==
  ASSUME TypeOK, GapInv, Closed, NEW p \in Peers, NEW r \in Rows, Pass(p, r)
  PROVE  GapInv'
  <1>0. now \in Nat /\ \A q \in Peers : held[q] \subseteq Rows
    BY TypeParts, Numbers DEF DataType
  <1>1. /\ UNCHANGED <<held, stored, recent, now, list, everything, since, reply>>
        /\ passing' = [passing EXCEPT ![p] = @ \ {r}]
        /\ feed' = IF state[p] # "closed" /\ Subscribed(p, Near[r])
                   THEN [feed EXCEPT ![p] = Append(@, r)] ELSE feed
    BY DEF Pass, peer, data, times
  <1>2. PICK f \in Seq(Rows) : feed[p] = f
    BY TypeParts DEF FeedType
  <1>3. PICK x \in Seq(Rows) : x = Append(f, r)
    BY AppendProperties
  <1>4. Has(x, r) /\ \A y : Has(f, y) => Has(x, y)
    <2>1. /\ DOMAIN f = 1 .. Len(f) /\ DOMAIN x = 1 .. Len(f) + 1 /\ Len(f) \in Nat
          /\ x[Len(f) + 1] = r /\ \A i \in 1 .. Len(f) : x[i] = f[i]
      BY <1>3, AppendProperties, LenProperties
    <2> QED
      BY <2>1 DEF Has
  <1>5. ASSUME NEW q \in Peers, NEW y \in held[q], NEW t \in Root[y] \cap Topics, Sub(q, t),
               Here(q, y)
        PROVE  Here(q, y)'
    <2>1. CASE q # p
      <3>1. passing'[q] = passing[q] /\ feed'[q] = feed[q]
        BY <1>1, <2>1, TypeParts DEF DataType, FeedType
      <3> QED
        BY <1>1, <1>5, <3>1 DEF Here
    <2>2. CASE q = p /\ state[p] # "closed" /\ Subscribed(p, Near[r])
      <3>1. passing'[p] = passing[p] \ {r} /\ feed'[p] = x
        BY <1>1, <1>2, <1>3, <2>2, TypeParts DEF DataType, FeedType
      <3> QED
        BY <1>1, <1>2, <1>4, <1>5, <2>2, <3>1 DEF Here
    <2>3. CASE q = p /\ ~(state[p] # "closed" /\ Subscribed(p, Near[r]))
      <3>1. passing'[p] = passing[p] \ {r} /\ feed'[p] = feed[p]
        BY <1>1, <2>3, TypeParts DEF DataType
      <3>2. state[p] # "closed"
        <4>1. SUFFICES ASSUME state[p] = "closed" PROVE FALSE
          OBVIOUS
        <4>2. list[p] = None /\ ~everything[p]
          BY <4>1 DEF Closed, Empty
        <4> QED
          BY <1>5, <2>3, <4>2, Numbers DEF Sub
      <3>3. y # r
        <4>1. SUFFICES ASSUME y = r PROVE FALSE
          OBVIOUS
        <4>2. t \in Near[r]
          BY <4>1, SubscriptionsAssumption
        <4> QED
          BY <1>5, <2>3, <3>2, <4>2 DEF Subscribed, Sub
      <3> QED
        BY <1>1, <1>5, <2>3, <3>1, <3>3 DEF Here
    <2> QED
      BY <2>1, <2>2, <2>3
  <1>6. ASSUME NEW q \in Peers PROVE GapAt(q)'
    BY <1>0, <1>1, <1>5, GapKept DEF GapInv
  <1> QED
    BY <1>6 DEF GapInv

LEMMA GapArrive ==
  ASSUME TypeOK, GapInv, NEW p \in Peers, NEW r \in Rows, Arrive(p, r)
  PROVE  GapInv'
  <1>1. /\ UNCHANGED <<stored, recent, now, list, everything, since, reply, feed>>
        /\ held' = [held EXCEPT ![p] = @ \cup {r}] /\ Stamp[r] <= now
        /\ passing' = IF Old(r) THEN passing ELSE [passing EXCEPT ![p] = @ \cup {r}]
    BY DEF Arrive, peer, data, times
  <1>2. /\ \A q \in Peers : /\ held[q] \subseteq held'[q] /\ held'[q] \subseteq held[q] \cup {r}
                            /\ q # p => held'[q] = held[q]
                            /\ passing[q] \subseteq passing'[q]
        /\ ~Old(r) => r \in passing'[p]
    BY <1>1, TypeParts DEF DataType
  <1>3. \A q \in Peers : \A y : Here(q, y) => Here(q, y)'
    BY <1>1, <1>2 DEF Here
  <1>4. \A y : Old(y)' <=> Old(y)
    BY <1>1 DEF Old
  <1>5. ASSUME NEW q \in Peers, NEW y \in held'[q], ~Old(y), NEW t \in Topics, t \in Root[y],
               Sub(q, t), since[q][t] <= Stamp[y]
        PROVE  Here(q, y)' \/ Answering(q, t, y)
    <2>1. CASE y \in held[q]
      BY <1>3, <1>5, <2>1 DEF GapInv, GapAt
    <2>2. CASE y \notin held[q]
      BY <1>2, <1>5, <2>2 DEF Here
    <2> QED
      BY <2>1, <2>2
  <1>6. \A q \in Peers : \A y \in held'[q] : Stamp[y] <= now
    BY <1>1, <1>2 DEF GapInv, GapAt
  <1>7. \A q \in Peers : \A t : Sub(q, t)' <=> Sub(q, t)
    BY <1>1 DEF Sub
  <1>8. \A q \in Peers : \A t, y : Answering(q, t, y)' <=> Answering(q, t, y)
    BY <1>1 DEF Answering
  <1>9. ASSUME NEW q \in Peers PROVE GapAt(q)'
    <2>1. \A t \in Topics : ~Sub(q, t)' => since'[q][t] = Never
      BY <1>1, <1>7 DEF GapInv, GapAt
    <2> QED
      BY <1>1, <1>4, <1>5, <1>6, <1>7, <1>8, <2>1 DEF GapAt
  <1> QED
    BY <1>9 DEF GapInv

LEMMA GapStep ==
  ASSUME TypeOK, AskInv, GapInv, [Next]_vars
  PROVE  GapInv'
  <1>0. now \in Nat /\ \A q \in Peers : held[q] \subseteq Rows
    BY TypeParts, Numbers DEF DataType
  <1>1. ASSUME UNCHANGED <<held, list, everything, since, reply, feed, passing, stored>>,
               now' \in {now, now + 1}, \A r \in recent : Old(r)' \/ r \in recent'
        PROVE  GapInv'
    <2>1. \A q \in Peers : \A r : Here(q, r) /\ ~Old(r)' => Here(q, r)'
      BY <1>1 DEF Here
    <2>2. ASSUME NEW q \in Peers PROVE GapAt(q)'
      BY <1>0, <1>1, <2>1, GapKept DEF GapInv
    <2> QED
      BY <2>2 DEF GapInv
  <1>2. CASE Clean
    <2>1. UNCHANGED <<held, list, everything, since, reply, feed, passing, stored, now>>
      BY <1>2 DEF Clean, peer, rows, times
    <2>2. \A r \in recent : Old(r)' \/ r \in recent'
      BY <1>2, <2>1 DEF Clean, Old
    <2> QED
      BY <1>1, <2>1, <2>2
  <1>3. CASE Tick
    BY <1>1, <1>3 DEF Tick, peer, rows, data
  <1>4. CASE Restart
    BY <1>4, GapCloses DEF Restart, rows
  <1>5. ASSUME NEW p \in Peers, Break(p) \/ Refuse(p) PROVE GapInv'
    <2>1. Close({p}) /\ UNCHANGED <<held, passing, now, stored, recent>>
      BY <1>5 DEF Break, Refuse, rows, times
    <2> QED
      BY <2>1, GapCloses
  <1>6. ASSUME NEW p \in Peers, NEW r \in Rows, Pass(p, r) PROVE GapInv'
    BY <1>6, GapPass DEF AskInv
  <1>7. ASSUME \/ Announce \/ Flush \/ UNCHANGED vars
               \/ \E a \in Apps : Create(a) \/ Write(a) \/ \E t \in Topics : Add(a, t) \/ Remove(a, t)
               \/ \E p \in Peers : Secure(p) \/ Corroborated(p)
        PROVE  GapInv'
    <2>1. UNCHANGED <<held, list, everything, since, reply, feed, passing, stored, now, recent>>
      BY <1>7 DEF Announce, Flush, vars, Create, Write, Add, Remove, Command, Secure,
                  Corroborated, peer, rows, data, times
    <2> QED
      BY <1>1, <2>1
  <1> QED
    BY <1>2, <1>3, <1>4, <1>5, <1>6, <1>7, GapProcess, GapEmbrace, GapSend, GapArrive DEF Next

\* What a peer has of a topic since the time it has been asked for is at the node, on
\* its way or about to be sent, as long as it is not too old: rows that come to the
\* peer while it answers are in the answer or are broadcast, whatever order the steps
\* have (coordinator::process_history, embrace and broadcast).
THEOREM GapsExcluded == Spec => []NoGap
  <1>1. Init => GapInv
    <2> SUFFICES ASSUME Init, NEW p \in Peers PROVE GapAt(p)
      BY DEF GapInv
    <2>1. \A t \in Topics : ~Sub(p, t) /\ since[p][t] = Never
      BY Numbers DEF Init, Sub
    <2>2. \A r \in held[p] : Stamp[r] <= now
      BY SubscriptionsAssumption DEF Init
    <2> QED
      BY <2>1, <2>2 DEF GapAt
  <1>2. TypeOK /\ AskInv /\ GapInv /\ [Next]_vars => GapInv'
    BY GapStep
  <1>3. GapInv => NoGap
    BY GapIs DEF GapInv, GapAt
  <1> QED
    BY <1>1, <1>2, <1>3, TypeCorrect, AskAlways, PTL DEF Spec
=============================================================================
