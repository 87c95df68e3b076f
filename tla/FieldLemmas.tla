----------------------------- MODULE FieldLemmas ---------------------------
(***************************************************************************)
(* Lemmas about the arithmetic that the protocols share: scalars modulo    *)
(* Order, sums and products of sequences, and Lagrange coefficients.       *)
(***************************************************************************)
EXTENDS Lagrange, Tweak, FiniteSetTheorems, WellFoundedInduction, TLAPS

-----------------------------------------------------------------------------
(* Natural numbers. *)

(***************************************************************************)
(* Induction in terms of sets: a set of naturals has a least element, and  *)
(* one that holds 0 and all successors is Nat.  A statement is proved for  *)
(* all n by taking the set of those for which it holds.                    *)
(***************************************************************************)
LEMMA LeastElement ==
    ASSUME NEW T \in SUBSET Nat, T # {}
    PROVE  \E x \in T : \A y \in T : x <= y
<1> DEFINE R == {ss \in Nat \X Nat : ss[1] < ss[2]}
<1>1. IsWellFoundedOn(R, Nat)
  BY ONLY NatLessThanWellFounded, Zenon DEF OpToRel
<1>2. ASSUME NEW x \in T, NEW y \in T, <<y, x>> \notin R PROVE x <= y
  <2>1. x \in Nat /\ y \in Nat
    OBVIOUS
  <2>2. y < x => <<y, x>> \in {ss \in Nat \X Nat : ss[1] < ss[2]}
    BY <2>1, SMT
  <2> QED
    BY <1>2, <2>1, <2>2 DEF R
<1> HIDE DEF R
<1>3. \E x \in T : \A y \in T : <<y, x>> \notin R
  BY <1>1, WFMin, Zenon
<1> QED
  BY <1>2, <1>3, Zenon

LEMMA Induction ==
    ASSUME NEW T \in SUBSET Nat, 0 \in T, \A n \in T : n + 1 \in T
    PROVE  T = Nat
<1>1. ASSUME Nat \ T # {} PROVE FALSE
  <2>1. PICK x \in Nat \ T : \A y \in Nat \ T : x <= y
    BY <1>1, LeastElement
  <2>2. x # 0 /\ x - 1 \in Nat /\ ~ (x <= x - 1) /\ (x - 1) + 1 = x
    BY <2>1
  <2>3. x - 1 \in T
    BY <2>1, <2>2
  <2>4. (x - 1) + 1 \in T
    BY <2>3, Zenon
  <2> QED
    BY <2>1, <2>2, <2>4
<1> QED
  BY <1>1

LEMMA InductionUpTo ==
    ASSUME NEW n \in Nat, NEW T, 0 \in T, \A m \in 1 .. n : m - 1 \in T => m \in T
    PROVE  \A m \in 0 .. n : m \in T
<1> DEFINE U == {m \in Nat : m <= n => m \in T}
<1>1. 0 \in U
  OBVIOUS
<1>2. ASSUME NEW m \in U PROVE m + 1 \in U
  <2>1. m \in Nat /\ m + 1 \in Nat /\ (m + 1) - 1 = m
    OBVIOUS
  <2>2. m + 1 <= n => m \in T /\ m + 1 \in 1 .. n
    OBVIOUS
  <2>3. m + 1 <= n => m + 1 \in T
    BY <2>1, <2>2
  <2> QED
    BY <2>1, <2>3
<1>3. U \in SUBSET Nat
  OBVIOUS
<1> HIDE DEF U
<1>4. U = Nat
  BY <1>1, <1>2, <1>3, Induction
<1> QED
  BY <1>4 DEF U

(***************************************************************************)
(* The greatest element of a set of positions.                             *)
(***************************************************************************)
LEMMA GreatestElement ==
    ASSUME NEW n \in Nat, NEW S \in SUBSET (1 .. n), S # {}
    PROVE  Max(S) \in S /\ \A y \in S : Max(S) >= y
<1> DEFINE T == {n - x : x \in S}
<1>1. T \in SUBSET Nat /\ T # {}
  <2>1. ASSUME NEW x \in S PROVE n - x \in Nat
    OBVIOUS
  <2> QED
    BY <2>1
<1>2. PICK d \in T : \A e \in T : d <= e
  BY <1>1, LeastElement
<1>3. PICK x \in S : d = n - x
  BY <1>2
<1>4. \A y \in S : x >= y
  <2> SUFFICES ASSUME NEW y \in S PROVE x >= y
    OBVIOUS
  <2>1. n - y \in T
    OBVIOUS
  <2>2. d <= n - y
    BY <1>2, <2>1
  <2> QED
    BY <1>3, <2>2
<1>5. \E m \in S : \A y \in S : m >= y
  BY <1>4
<1> QED
  BY <1>5, Zenon DEF Max

LEMMA MaxOfInterval ==
    ASSUME NEW n \in Nat, NEW m \in 1 .. n, NEW S \in SUBSET (1 .. m), m \in S
    PROVE  Max(S) = m
<1> DEFINE x == Max(S)
<1>0. m \in Nat /\ S # {}
  OBVIOUS
<1>1. x \in S /\ \A y \in S : x >= y
  BY <1>0, GreatestElement
<1> HIDE DEF x
<1>2. x \in 1 .. m /\ x >= m
  BY <1>1
<1>3. x = m
  BY <1>0, <1>2
<1> QED
  BY <1>3 DEF x

LEMMA IntervalParts ==
    ASSUME NEW n \in Nat, NEW m \in 1 .. n
    PROVE  /\ 1 .. m \in SUBSET (1 .. n) /\ 1 .. m # {} /\ m \in 1 .. m
           /\ (1 .. m) \ {m} = 1 .. m - 1
<1>1. \A k : k \in 1 .. m => k \in 1 .. n
  OBVIOUS
<1>2. m \in 1 .. m
  OBVIOUS
<1>3. \A k : k \in (1 .. m) \ {m} <=> k \in 1 .. m - 1
  OBVIOUS
<1> QED
  BY <1>1, <1>2, <1>3

-----------------------------------------------------------------------------
(* Folds over sequences. *)

(***************************************************************************)
(* The function that a fold over a sequence is made of exists: it is       *)
(* extended position by position.  h[i] is what position i does to the     *)
(* value reached before it.                                                *)
(***************************************************************************)
FoldStep(G, base, h, s) ==
    G[s] = IF s = {} THEN base ELSE h[Max(s)][G[s \ {Max(s)}]]

LEMMA FoldExists ==
    ASSUME NEW n \in Nat, NEW V, NEW base \in V, NEW h \in [1 .. n -> [V -> V]]
    PROVE  \E G \in [SUBSET (1 .. n) -> V] :
              \A s \in SUBSET (1 .. n) : FoldStep(G, base, h, s)
<1> DEFINE Reaches(m) ==
        m <= n => \E G \in [SUBSET (1 .. m) -> V] :
                      \A s \in SUBSET (1 .. m) : FoldStep(G, base, h, s)
    T == {m \in Nat : Reaches(m)}
<1>1. 0 \in T
  <2> DEFINE G == [s \in SUBSET (1 .. 0) |-> base]
  <2>1. G \in [SUBSET (1 .. 0) -> V]
    OBVIOUS
  <2>2. \A s \in SUBSET (1 .. 0) : s = {} /\ G[s] = base
    OBVIOUS
  <2>3. \A s \in SUBSET (1 .. 0) : FoldStep(G, base, h, s)
    BY <2>2 DEF FoldStep
  <2> QED
    BY <2>1, <2>3
<1>2. ASSUME NEW m \in T PROVE m + 1 \in T
  <2>a. m \in Nat /\ Reaches(m)
    <3> HIDE DEF Reaches
    <3> QED
      OBVIOUS
  <2>b. ASSUME Reaches(m + 1) PROVE m + 1 \in T
    <3> HIDE DEF Reaches
    <3> QED
      BY <2>a, <2>b
  <2> SUFFICES ASSUME m + 1 <= n
               PROVE  \E G \in [SUBSET (1 .. m + 1) -> V] :
                         \A s \in SUBSET (1 .. m + 1) : FoldStep(G, base, h, s)
    BY <2>b
  <2>0. m \in Nat /\ m <= n /\ m + 1 \in 1 .. n /\ m + 1 \in Nat
    BY <2>a
  <2>1. PICK F \in [SUBSET (1 .. m) -> V] :
                \A s \in SUBSET (1 .. m) : FoldStep(F, base, h, s)
    BY <2>0, <2>a
  <2> DEFINE G == [s \in SUBSET (1 .. m + 1) |->
                      IF m + 1 \in s THEN h[m + 1][F[s \ {m + 1}]] ELSE F[s]]
  <2>2. ASSUME NEW s \in SUBSET (1 .. m + 1), m + 1 \in s
        PROVE  G[s] \in V /\ FoldStep(G, base, h, s)
    <3>1. s \ {m + 1} \in SUBSET (1 .. m) /\ s \ {m + 1} \in SUBSET (1 .. m + 1)
      BY <2>0
    <3>2. G[s] = h[m + 1][F[s \ {m + 1}]]
      BY <2>2
    <3>3. G[s \ {m + 1}] = F[s \ {m + 1}]
      BY <3>1
    <3>4. Max(s) = m + 1
      BY <2>0, <2>2, MaxOfInterval
    <3>5. h[m + 1] \in [V -> V] /\ F[s \ {m + 1}] \in V
      BY <2>0, <2>1, <3>1
    <3> HIDE DEF G
    <3> QED
      BY <2>2, <3>2, <3>3, <3>4, <3>5 DEF FoldStep
  <2>3. ASSUME NEW s \in SUBSET (1 .. m + 1), m + 1 \notin s
        PROVE  G[s] \in V /\ FoldStep(G, base, h, s)
    <3>1. s \in SUBSET (1 .. m)
      BY <2>0, <2>3
    <3>2. G[s] = F[s] /\ F[s] \in V
      BY <2>1, <2>3, <3>1
    <3>3. ASSUME s # {} PROVE G[s \ {Max(s)}] = F[s \ {Max(s)}]
      <4>1. s \ {Max(s)} \in SUBSET (1 .. m + 1) /\ m + 1 \notin s \ {Max(s)}
        BY <2>3
      <4> QED
        BY <4>1
    <3>4. FoldStep(F, base, h, s)
      BY <2>1, <3>1
    <3> HIDE DEF G
    <3> QED
      BY <3>2, <3>3, <3>4 DEF FoldStep
  <2>4. G \in [SUBSET (1 .. m + 1) -> V]
    BY <2>2, <2>3
  <2> HIDE DEF G
  <2> QED
    BY <2>2, <2>3, <2>4
<1>3. T = Nat
  <2> HIDE DEF Reaches
  <2>1. T \in SUBSET Nat
    OBVIOUS
  <2> HIDE DEF T
  <2> QED
    BY <1>1, <1>2, <2>1, Induction
<1>4. Reaches(n)
  <2> HIDE DEF Reaches
  <2> QED
    BY <1>3
<1>5. n <= n
  OBVIOUS
<1> QED
  BY <1>4, <1>5
-----------------------------------------------------------------------------
(***************************************************************************)
(* Arithmetic modulo Order, by quotients.                                  *)
(***************************************************************************)
LEMMA ModType ==
    ASSUME NEW x \in Int PROVE x % Order \in Scalar
BY OrderAssumption DEF Scalar

LEMMA ScalarIsInt ==
    /\ \A x \in Scalar : x \in Int /\ x \in Nat
    /\ 0 \in Scalar /\ 1 \in Scalar
BY OrderAssumption DEF Scalar

LEMMA ModQuotient ==
    ASSUME NEW x \in Int PROVE \E k \in Int : x % Order = x + k * Order
<1> DEFINE d == x \div Order
<1>1. d \in Int /\ x = Order * d + (x % Order)
  BY OrderAssumption, SMTT(30)
<1>2. -d \in Int /\ x % Order \in Int
  BY <1>1, ModType DEF Scalar
<1> HIDE DEF d
<1>3. x % Order = x + (-d) * Order
  BY <1>1, <1>2, OrderAssumption
<1> QED
  BY <1>2, <1>3

LEMMA MultipleInRange ==
    ASSUME NEW k \in Int, NEW r \in Scalar, NEW s \in Scalar, r = s + k * Order
    PROVE  r = s
<1>1. Order \in Nat /\ Order > 2 /\ r \in 0 .. (Order - 1) /\ s \in 0 .. (Order - 1)
  BY OrderAssumption DEF Scalar
<1>2. k >= 1 => k * Order >= Order
  BY <1>1
<1>3. k <= -1 => k * Order <= -Order
  BY <1>1
<1>4. k = 0
  BY <1>1, <1>2, <1>3
<1> QED
  BY <1>1, <1>4

LEMMA Congruent ==
    ASSUME NEW x \in Int, NEW y \in Int, NEW k \in Int, x = y + k * Order
    PROVE  x % Order = y % Order
<1>1. PICK i \in Int : x % Order = x + i * Order
  BY ModQuotient
<1>2. PICK j \in Int : y % Order = y + j * Order
  BY ModQuotient
<1>3. x % Order \in Scalar /\ y % Order \in Scalar
  BY ModType
<1>4. k + i - j \in Int
  OBVIOUS
<1>5. x % Order = (y % Order) + (k + i - j) * Order
  BY <1>1, <1>2, OrderAssumption
<1> QED
  BY <1>3, <1>4, <1>5, MultipleInRange

LEMMA ModOfScalar ==
    ASSUME NEW x \in Scalar PROVE x % Order = x
BY OrderAssumption DEF Scalar

LEMMA MinusOneValue == MinusOne = Order - 1 /\ 1 \in Scalar /\ MinusOne \in Scalar
<1>1. Order - 1 \in Scalar
  BY OrderAssumption DEF Scalar
<1> QED
  BY <1>1, ModOfScalar, OrderAssumption DEF MinusOne, Neg, Scalar

(***************************************************************************)
(* Integers that stand for the same scalar.                                *)
(***************************************************************************)
Equiv(x, y) == x % Order = y % Order

LEMMA EquivByQuotient ==
    ASSUME NEW x \in Int, NEW y \in Int, Equiv(x, y)
    PROVE  \E k \in Int : x = y + k * Order
<1>1. PICK i \in Int : x % Order = x + i * Order
  BY ModQuotient
<1>2. PICK j \in Int : y % Order = y + j * Order
  BY ModQuotient
<1>3. x + i * Order = y + j * Order
  BY <1>1, <1>2 DEF Equiv
<1>4. j - i \in Int /\ (j - i) * Order = j * Order - i * Order
  BY OrderAssumption
<1>5. i * Order \in Int /\ j * Order \in Int
  BY OrderAssumption
<1>6. x = y + (j - i) * Order
  BY <1>3, <1>4, <1>5
<1> QED
  BY <1>4, <1>6

LEMMA EquivMod ==
    ASSUME NEW x \in Int PROVE Equiv(x % Order, x) /\ x % Order \in Int
<1>1. x % Order \in Scalar
  BY ModType
<1> QED
  BY <1>1, ModOfScalar DEF Equiv, Scalar

LEMMA EquivScalar ==
    ASSUME NEW x \in Scalar, NEW y \in Scalar, Equiv(x, y) PROVE x = y
BY ModOfScalar DEF Equiv

LEMMA EquivAdd ==
    ASSUME NEW x \in Int, NEW y \in Int, NEW u \in Int, NEW v \in Int,
           Equiv(x, y), Equiv(u, v)
    PROVE  Equiv(x + u, y + v)
<1>1. PICK i \in Int : x = y + i * Order
  BY EquivByQuotient
<1>2. PICK j \in Int : u = v + j * Order
  BY EquivByQuotient
<1>3. i + j \in Int /\ x + u \in Int /\ y + v \in Int
  OBVIOUS
<1>4. i * Order \in Int /\ j * Order \in Int /\ (i + j) * Order = i * Order + j * Order
  BY OrderAssumption
<1>5. x + u = (y + v) + (i + j) * Order
  BY <1>1, <1>2, <1>4
<1> QED
  BY <1>3, <1>5, Congruent DEF Equiv

LEMMA EquivMul ==
    ASSUME NEW x \in Int, NEW y \in Int, NEW u \in Int, NEW v \in Int,
           Equiv(x, y), Equiv(u, v)
    PROVE  Equiv(x * u, y * v)
<1>1. PICK i \in Int : x = y + i * Order
  BY EquivByQuotient
<1>2. PICK j \in Int : u = v + j * Order
  BY EquivByQuotient
<1> DEFINE k == y * j + i * u
<1>3. k \in Int /\ x * u \in Int /\ y * v \in Int
  OBVIOUS
<1>4. x * u = y * u + (i * Order) * u
  BY <1>1, OrderAssumption
<1>5. y * u = y * v + y * (j * Order)
  BY <1>2, OrderAssumption
<1>6. y * (j * Order) + (i * Order) * u = k * Order
  BY OrderAssumption
<1>7. /\ y * (j * Order) \in Int /\ (i * Order) * u \in Int /\ y * u \in Int
      /\ k * Order \in Int
  BY <1>3, OrderAssumption
<1> HIDE DEF k
<1>8. x * u = y * v + k * Order
  BY <1>3, <1>4, <1>5, <1>6, <1>7
<1> QED
  BY <1>3, <1>8, Congruent DEF Equiv

LEMMA EquivTimes ==
    ASSUME NEW c \in Int, NEW x \in Int, NEW y \in Int, Equiv(x, y)
    PROVE  Equiv(c * x, c * y)
<1>1. Equiv(c, c)
  BY DEF Equiv
<1> QED
  BY <1>1, EquivMul

LEMMA EquivTrans ==
    ASSUME NEW x, NEW y, NEW z, Equiv(x, y), Equiv(y, z)
    PROVE  Equiv(x, z)
BY DEF Equiv

LEMMA EquivPlus ==
    ASSUME NEW x \in Int, NEW y \in Int, NEW z \in Int, Equiv(x, y)
    PROVE  Equiv(z + x, z + y) /\ Equiv(x + z, y + z)
<1>1. Equiv(z, z)
  BY DEF Equiv
<1> QED
  BY <1>1, EquivAdd

LEMMA EquivMinus ==
    ASSUME NEW z \in Int, NEW x \in Int, NEW y \in Int, Equiv(x, y)
    PROVE  Equiv(z + (-1) * x, z + (-1) * y)
<1>1. -1 \in Int /\ (-1) * x \in Int /\ (-1) * y \in Int
  OBVIOUS
<1>2. Equiv((-1) * x, (-1) * y)
  BY <1>1, EquivTimes
<1> QED
  BY <1>1, <1>2, EquivPlus

LEMMA NegEquiv ==
    ASSUME NEW x \in Int PROVE Equiv(Neg(x), -x) /\ Neg(x) \in Scalar
<1>1. Order - x \in Int /\ -x \in Int /\ Order - x = -x + 1 * Order
  BY OrderAssumption
<1>2. Equiv(Order - x, -x)
  BY <1>1, Congruent DEF Equiv
<1>3. Equiv((Order - x) % Order, Order - x)
  BY <1>1, EquivMod
<1> QED
  BY <1>1, <1>2, <1>3, ModType DEF Equiv, Neg
-----------------------------------------------------------------------------
(* Sums of sequences. *)

(***************************************************************************)
(* g lists the sums of the first 0, 1, ... n elements of f.                *)
(***************************************************************************)
RunningSum(f, n, g) ==
    /\ g \in [0 .. n -> Scalar]
    /\ g[0] = 0
    /\ \A m \in 1 .. n : g[m] = (g[m - 1] + f[m]) % Order

LEMMA SumModRuns ==
    ASSUME NEW n \in Nat, NEW f \in [1 .. n -> Int]
    PROVE  \E g : RunningSum(f, n, g) /\ SumMod(f) = g[n]
<1> DEFINE h == [i \in 1 .. n |-> [acc \in Scalar |-> (acc + f[i]) % Order]]
           S == 1 .. n
           Folds(iter) ==
               iter = [s \in SUBSET S |->
                          IF s = {} THEN 0
                          ELSE (iter[s \ {Max(s)}] + f[Max(s)]) % Order]
           iter == CHOOSE iter : Folds(iter)
<1>1. 0 \in Scalar /\ h \in [1 .. n -> [Scalar -> Scalar]]
  <2>0. 0 \in Scalar
    BY OrderAssumption DEF Scalar
  <2>1. ASSUME NEW i \in 1 .. n, NEW acc \in Scalar PROVE (acc + f[i]) % Order \in Scalar
    <3>1. acc + f[i] \in Int
      BY OrderAssumption DEF Scalar
    <3> QED
      BY <3>1, ModType
  <2> QED
    BY <2>0, <2>1
<1>2. PICK G \in [SUBSET S -> Scalar] : \A s \in SUBSET S : FoldStep(G, 0, h, s)
  <2> HIDE DEF h
  <2> QED
    BY <1>1, FoldExists
<1>3. Folds(G)
  <2>1. ASSUME NEW s \in SUBSET S
        PROVE  G[s] = IF s = {} THEN 0 ELSE (G[s \ {Max(s)}] + f[Max(s)]) % Order
    <3>1. s \ {Max(s)} \in SUBSET S /\ G[s \ {Max(s)}] \in Scalar
      BY <1>2
    <3>2. s # {} => Max(s) \in 1 .. n
      BY GreatestElement
    <3>3. s # {} => h[Max(s)][G[s \ {Max(s)}]] = (G[s \ {Max(s)}] + f[Max(s)]) % Order
      BY <3>1, <3>2
    <3> HIDE DEF h
    <3> QED
      BY <1>2, <3>3 DEF FoldStep
  <2> QED
    BY <1>2, <2>1
<1>4. Folds(iter)
  <2> HIDE DEF Folds
  <2> QED
    BY <1>3
<1>5. SumMod(f) = iter[S]
  <2>1. DOMAIN f = S
    OBVIOUS
  <2> QED
    BY <2>1, Zenon DEF SumMod, FoldLeft, MapThenFoldSet
<1> HIDE DEF iter
<1>6. ASSUME NEW m \in 1 .. n
      PROVE  iter[1 .. m] = (iter[1 .. m - 1] + f[m]) % Order
  <2>1. /\ 1 .. m \in SUBSET S /\ 1 .. m # {} /\ m \in 1 .. m
        /\ (1 .. m) \ {m} = 1 .. m - 1
    BY IntervalParts
  <2>2. Max(1 .. m) = m
    BY <2>1, MaxOfInterval
  <2>3. iter[1 .. m] = (iter[(1 .. m) \ {Max(1 .. m)}] + f[Max(1 .. m)]) % Order
    BY <1>4, <2>1
  <2> QED
    BY <2>1, <2>2, <2>3
<1> DEFINE g == [m \in 0 .. n |-> iter[1 .. m]]
<1>7. iter[1 .. 0] = 0
  <2>1. 1 .. 0 = {} /\ {} \in SUBSET S
    OBVIOUS
  <2> QED
    BY <1>4, <2>1
<1>8. ASSUME NEW m \in 0 .. n PROVE g[m] \in Scalar
  <2> DEFINE T == {k \in 0 .. n : iter[1 .. k] \in Scalar}
  <2>1. 0 \in T
    BY <1>1, <1>7
  <2>2. ASSUME NEW k \in 1 .. n, k - 1 \in T PROVE k \in T
    <3>1. iter[1 .. k - 1] + f[k] \in Int
      BY <2>2, OrderAssumption DEF Scalar
    <3>2. iter[1 .. k] \in Scalar
      BY <1>6, <3>1, ModType
    <3> QED
      BY <3>2
  <2> HIDE DEF T
  <2>3. m \in T
    BY <2>1, <2>2, InductionUpTo
  <2> QED
    BY <2>3 DEF T
<1>9. RunningSum(f, n, g)
  <2>1. ASSUME NEW m \in 1 .. n PROVE g[m] = (g[m - 1] + f[m]) % Order
    <3>1. m \in 0 .. n /\ m - 1 \in 0 .. n
      OBVIOUS
    <3> QED
      BY <1>6, <3>1
  <2>2. g \in [0 .. n -> Scalar] /\ g[0] = 0
    BY <1>7, <1>8
  <2> HIDE DEF g
  <2> QED
    BY <2>1, <2>2 DEF RunningSum
<1>10. SumMod(f) = g[n]
  BY <1>5
<1> HIDE DEF g
<1> QED
  BY <1>9, <1>10
(***************************************************************************)
(* Sums are linear, up to multiples of Order.                              *)
(***************************************************************************)
LEMMA SumModType ==
    ASSUME NEW n \in Nat, NEW f \in [1 .. n -> Int] PROVE SumMod(f) \in Scalar
BY SumModRuns DEF RunningSum

LEMMA LinearStep ==
    ASSUME NEW c \in Int, NEW x \in Int, NEW y \in Int, NEW z \in Int,
           NEW a \in Int, NEW b \in Int, NEW d \in Int,
           Equiv(x, y + c * z), Equiv(a, b + c * d)
    PROVE  Equiv((x + a) % Order, ((y + b) % Order) + c * ((z + d) % Order))
<1>1. /\ c * z \in Int /\ c * d \in Int /\ x + a \in Int /\ y + b \in Int
      /\ z + d \in Int /\ c * (z + d) = c * z + c * d /\ c * (z + d) \in Int
      /\ y + c * z \in Int /\ b + c * d \in Int
  OBVIOUS
<1>2. Equiv(x + a, (y + c * z) + (b + c * d))
  BY <1>1, EquivAdd
<1>3. (y + c * z) + (b + c * d) = (y + b) + c * (z + d)
  BY <1>1
<1> DEFINE u == (x + a) % Order
           v == (y + b) % Order
           w == (z + d) % Order
<1>4. /\ Equiv(u, x + a) /\ Equiv(v, y + b) /\ Equiv(w, z + d)
      /\ u \in Int /\ v \in Int /\ w \in Int
  BY <1>1, EquivMod
<1> HIDE DEF u, v, w
<1>5. Equiv(c, c) /\ c * w \in Int
  BY <1>4 DEF Equiv
<1>6. Equiv(c * w, c * (z + d))
  BY <1>1, <1>4, <1>5, EquivMul
<1>7. Equiv(v + c * w, (y + b) + c * (z + d))
  BY <1>1, <1>4, <1>5, <1>6, EquivAdd
<1>8. Equiv(u, v + c * w)
  BY <1>2, <1>3, <1>4, <1>7 DEF Equiv
<1> QED
  BY <1>8 DEF u, v, w

LEMMA SumModLinear ==
    ASSUME NEW n \in Nat, NEW c \in Int,
           NEW f \in [1 .. n -> Int], NEW h \in [1 .. n -> Int], NEW s \in [1 .. n -> Int],
           \A i \in 1 .. n : Equiv(s[i], f[i] + c * h[i])
    PROVE  Equiv(SumMod(s), SumMod(f) + c * SumMod(h))
<1>1. PICK gf : RunningSum(f, n, gf) /\ SumMod(f) = gf[n]
  BY SumModRuns
<1>2. PICK gh : RunningSum(h, n, gh) /\ SumMod(h) = gh[n]
  BY SumModRuns
<1>3. PICK gs : RunningSum(s, n, gs) /\ SumMod(s) = gs[n]
  BY SumModRuns
<1> DEFINE T == {m \in 0 .. n : Equiv(gs[m], gf[m] + c * gh[m])}
<1>4. 0 \in T
  BY <1>1, <1>2, <1>3 DEF RunningSum, Equiv
<1>5. ASSUME NEW m \in 1 .. n, m - 1 \in T PROVE m \in T
  <2>0. m - 1 \in 0 .. n /\ m \in 0 .. n
    OBVIOUS
  <2>1. gs[m - 1] \in Int /\ gf[m - 1] \in Int /\ gh[m - 1] \in Int
    BY <1>1, <1>2, <1>3, <2>0, ScalarIsInt DEF RunningSum
  <2>2. /\ gs[m] = (gs[m - 1] + s[m]) % Order
        /\ gf[m] = (gf[m - 1] + f[m]) % Order
        /\ gh[m] = (gh[m - 1] + h[m]) % Order
    BY <1>1, <1>2, <1>3 DEF RunningSum
  <2>3. Equiv(gs[m - 1], gf[m - 1] + c * gh[m - 1])
    BY <1>5
  <2>4. Equiv(s[m], f[m] + c * h[m]) /\ s[m] \in Int /\ f[m] \in Int /\ h[m] \in Int
    OBVIOUS
  <2>5. Equiv(gs[m], gf[m] + c * gh[m])
    <3>1. Equiv((gs[m - 1] + s[m]) % Order,
                ((gf[m - 1] + f[m]) % Order) + c * ((gh[m - 1] + h[m]) % Order))
      BY <2>1, <2>3, <2>4, LinearStep
    <3> QED
      BY <2>2, <3>1
  <2> QED
    BY <2>0, <2>5, Zenon
<1> HIDE DEF T
<1>6. n \in 0 .. n
  OBVIOUS
<1>7. n \in T
  BY <1>4, <1>5, <1>6, InductionUpTo
<1> QED
  BY <1>1, <1>2, <1>3, <1>7 DEF T
(***************************************************************************)
(* What is added to one element is added to the sum.                       *)
(***************************************************************************)
LEMMA SumModChange ==
    ASSUME NEW n \in Nat, NEW c \in Int, NEW j \in 1 .. n,
           NEW f \in [1 .. n -> Int], NEW h \in [1 .. n -> Int],
           \A i \in 1 .. n : i # j => h[i] = f[i], Equiv(h[j], f[j] + c)
    PROVE  Equiv(SumMod(h), SumMod(f) + c)
<1>1. PICK gf : RunningSum(f, n, gf) /\ SumMod(f) = gf[n]
  BY SumModRuns
<1>2. PICK gh : RunningSum(h, n, gh) /\ SumMod(h) = gh[n]
  BY SumModRuns
<1> DEFINE D == [m \in 0 .. n |-> IF m >= j THEN c ELSE 0]
           T == {m \in 0 .. n : Equiv(gh[m], gf[m] + D[m])}
<1>3. 0 \in T
  <2>1. 0 \in 0 .. n /\ D[0] = 0 /\ gf[0] = 0 /\ gh[0] = 0
    BY <1>1, <1>2 DEF RunningSum
  <2> QED
    BY <2>1 DEF Equiv
<1>4. ASSUME NEW m \in 1 .. n, m - 1 \in T PROVE m \in T
  <2> DEFINE e == IF m = j THEN c ELSE 0
  <2>1. m - 1 \in 0 .. n /\ m \in 0 .. n /\ D[m - 1] \in Int /\ e \in Int
    OBVIOUS
  <2>2. gf[m - 1] \in Int /\ gh[m - 1] \in Int /\ f[m] \in Int /\ h[m] \in Int
    BY <1>1, <1>2, <2>1, ScalarIsInt DEF RunningSum
  <2>3. /\ gf[m] = (gf[m - 1] + f[m]) % Order
        /\ gh[m] = (gh[m - 1] + h[m]) % Order
    BY <1>1, <1>2 DEF RunningSum
  <2>4. D[m] = D[m - 1] + e
    BY <2>1
  <2>5. Equiv(h[m], f[m] + e)
    <3>1. f[m] + 0 = f[m]
      BY <2>2
    <3> QED
      BY <3>1 DEF Equiv
  <2>6. Equiv(gh[m - 1], gf[m - 1] + D[m - 1])
    BY <1>4
  <2> DEFINE x == gh[m - 1]
             y == gf[m - 1]
             d == D[m - 1]
             a == f[m]
             b == h[m]
  <2>7. /\ x \in Int /\ y \in Int /\ d \in Int /\ a \in Int /\ b \in Int /\ e \in Int
        /\ Equiv(x, y + d) /\ Equiv(b, a + e)
        /\ gf[m] = (y + a) % Order /\ gh[m] = (x + b) % Order /\ D[m] = d + e
    BY <2>1, <2>2, <2>3, <2>4, <2>5, <2>6
  <2> HIDE DEF x, y, d, a, b, e, D
  <2>8. Equiv(x + b, (y + d) + (a + e))
    BY <2>7, EquivAdd
  <2>9. (y + d) + (a + e) = (y + a) + (d + e) /\ y + a \in Int /\ d + e \in Int /\ x + b \in Int
    BY <2>7
  <2>10. Equiv(gf[m] + (d + e), (y + a) + (d + e))
    <3>1. Equiv((y + a) % Order, y + a) /\ (y + a) % Order \in Int
      BY <2>9, EquivMod, ModType, ScalarIsInt
    <3>2. Equiv(d + e, d + e)
      BY DEF Equiv
    <3> QED
      BY <2>7, <2>9, <3>1, <3>2, EquivAdd
  <2>11. Equiv(gh[m], x + b)
    BY <2>7, <2>9, EquivMod
  <2>12. Equiv(gh[m], gf[m] + D[m])
    BY <2>7, <2>8, <2>9, <2>10, <2>11 DEF Equiv
  <2> QED
    BY <2>1, <2>12, Zenon
<1>5. n \in 0 .. n /\ D[n] = c
  OBVIOUS
<1> HIDE DEF T, D
<1>6. n \in T
  BY <1>3, <1>4, <1>5, InductionUpTo
<1> QED
  BY <1>1, <1>2, <1>5, <1>6 DEF T

LEMMA SumModZero ==
    ASSUME NEW n \in Nat PROVE SumMod([i \in 1 .. n |-> 0]) = 0
<1> DEFINE z == [i \in 1 .. n |-> 0]
           s == SumMod(z)
<1>1. z \in [1 .. n -> Int] /\ \A i \in 1 .. n : Equiv(z[i], z[i] + (-1) * z[i])
  BY DEF Equiv
<1> HIDE DEF z
<1>2. Equiv(s, s + (-1) * s) /\ s \in Scalar
  BY <1>1, SumModLinear, SumModType
<1> HIDE DEF s
<1>3. s + (-1) * s = 0 /\ 0 \in Scalar
  BY <1>2, ScalarIsInt
<1>4. s = 0
  BY <1>2, <1>3, EquivScalar
<1> QED
  BY <1>4 DEF s, z

(***************************************************************************)
(* An injection of the positions into themselves reaches all of them.      *)
(***************************************************************************)
LEMMA InjectiveIsOnto ==
    ASSUME NEW n \in Nat, NEW pi \in [1 .. n -> 1 .. n],
           \A i, j \in 1 .. n : pi[i] = pi[j] => i = j
    PROVE  \A i \in 1 .. n : \E k \in 1 .. n : pi[k] = i
<1>1. pi \in Injection(1 .. n, 1 .. n)
  BY DEF Injection, IsInjective
<1>2. IsFiniteSet(1 .. n)
  BY FS_Interval
<1>3. pi \in Surjection(1 .. n, 1 .. n)
  BY <1>1, <1>2, FS_Injection
<1> QED
  BY <1>3 DEF Surjection

(***************************************************************************)
(* A sum over distinct positions, in any order, is the sum over all        *)
(* positions of the values at those.                                       *)
(***************************************************************************)
Picked(f, pi, t) == [k \in 1 .. t |-> f[pi[k]]]

Scattered(f, pi, n) == [i \in 1 .. n |-> IF i \in Range(pi) THEN f[i] ELSE 0]

LEMMA SumModScatter ==
    ASSUME NEW n \in Nat, NEW t \in Nat, NEW f \in [1 .. n -> Int],
           NEW pi \in [1 .. t -> 1 .. n],
           \A i, j \in 1 .. t : pi[i] = pi[j] => i = j
    PROVE  SumMod(Picked(f, pi, t)) = SumMod(Scattered(f, pi, n))
<1> DEFINE h == [k \in 1 .. t |-> f[pi[k]]]
           Met(m) == {pi[k] : k \in 1 .. m}
           P(m) == [i \in 1 .. n |-> IF i \in Met(m) THEN f[i] ELSE 0]
<1>0. h \in [1 .. t -> Int] /\ \A m : P(m) \in [1 .. n -> Int]
  BY SMTT(30)
<1>1. PICK g : RunningSum(h, t, g) /\ SumMod(h) = g[t]
  <2> HIDE DEF h
  <2> QED
    BY <1>0, SumModRuns
<1> DEFINE T == {m \in 0 .. t : Equiv(g[m], SumMod(P(m)))}
<1>2. 0 \in T
  <2>1. P(0) = [i \in 1 .. n |-> 0]
    OBVIOUS
  <2>2. g[0] = SumMod(P(0))
    BY <1>1, <2>1, SumModZero DEF RunningSum
  <2> HIDE DEF P
  <2> QED
    BY <2>2 DEF Equiv
<1>3. ASSUME NEW m \in 1 .. t, m - 1 \in T PROVE m \in T
  <2> DEFINE j == pi[m]
             f0 == P(m - 1)
             f1 == P(m)
             c == f[j]
  <2>0. j \in 1 .. n /\ c \in Int /\ f0 \in [1 .. n -> Int] /\ f1 \in [1 .. n -> Int]
    BY <1>0
  <2>1. j \in Met(m) /\ j \notin Met(m - 1)
    BY SMTT(30)
  <2>2. \A i \in 1 .. n : i # j => (i \in Met(m) <=> i \in Met(m - 1))
    <3>1. \A k : k \in 1 .. m <=> k = m \/ k \in 1 .. (m - 1)
      BY SMT
    <3> QED
      BY <3>1, Zenon
  <2> HIDE DEF Met
  <2>3. f1[j] = c /\ f0[j] = 0 /\ \A i \in 1 .. n : i # j => f1[i] = f0[i]
    BY <2>0, <2>1, <2>2
  <2>4. h[m] = c
    OBVIOUS
  <2> HIDE DEF j, f0, f1, c, h
  <2>5. Equiv(f1[j], f0[j] + c)
    BY <2>0, <2>3 DEF Equiv
  <2>6. Equiv(SumMod(f1), SumMod(f0) + c)
    BY <2>0, <2>3, <2>5, SumModChange
  <2>7. Equiv(g[m - 1], SumMod(f0)) /\ m - 1 \in 0 .. t /\ m \in 0 .. t
    BY <1>3 DEF f0
  <2>8. g[m - 1] \in Int /\ SumMod(f0) \in Int
    BY <1>1, <2>0, <2>7, SumModType, ScalarIsInt DEF RunningSum
  <2>9. Equiv(g[m - 1] + c, SumMod(f0) + c)
    BY <2>0, <2>7, <2>8, EquivAdd DEF Equiv
  <2>10. g[m] = (g[m - 1] + c) % Order
    BY <1>1, <2>4 DEF RunningSum
  <2>11. Equiv(g[m], SumMod(f1))
    BY <2>0, <2>6, <2>8, <2>9, <2>10, EquivMod DEF Equiv
  <2> QED
    BY <2>7, <2>11 DEF f1
<1>4. P(t) = Scattered(f, pi, n)
  <2>1. Met(t) = Range(pi)
    BY Zenon DEF Range
  <2> QED
    BY <2>1, Zenon DEF Scattered
<1> HIDE DEF T, P, Met, h
<1>5. t \in T
  <2>1. t \in 0 .. t
    OBVIOUS
  <2> QED
    BY <1>2, <1>3, <2>1, InductionUpTo
<1>6. Equiv(SumMod(h), SumMod(P(t)))
  BY <1>1, <1>5 DEF T
<1>7. SumMod(h) = SumMod(P(t))
  BY <1>0, <1>6, SumModType, EquivScalar
<1> QED
  BY <1>4, <1>7 DEF h, Picked

(***************************************************************************)
(* A sum does not depend on the order of its elements.                     *)
(***************************************************************************)
LEMMA SumModPermute ==
    ASSUME NEW n \in Nat, NEW f \in [1 .. n -> Int], NEW pi \in [1 .. n -> 1 .. n],
           \A i, j \in 1 .. n : pi[i] = pi[j] => i = j
    PROVE  SumMod([k \in 1 .. n |-> f[pi[k]]]) = SumMod(f)
<1>1. \A i \in 1 .. n : i \in Range(pi)
  <2>1. \A i \in 1 .. n : \E k \in 1 .. n : pi[k] = i
    BY InjectiveIsOnto, Zenon
  <2> QED
    BY <2>1 DEF Range
<1>2. Scattered(f, pi, n) = f
  BY <1>1 DEF Scattered
<1>3. SumMod(Picked(f, pi, n)) = SumMod(Scattered(f, pi, n))
  BY SumModScatter
<1> QED
  BY <1>2, <1>3 DEF Picked
-----------------------------------------------------------------------------
(* Products, inverses and Lagrange coefficients. *)

(***************************************************************************)
(* Order is a prime: no product of nonzero scalars is zero.  Otherwise the *)
(* least factor of b that gives zero would divide Order.                   *)
(***************************************************************************)
Nonzero == 1 .. (Order - 1)

LEMMA NonzeroIsInt ==
    /\ \A x \in Nonzero : x \in Int /\ x \in Scalar /\ x # 0
    /\ \A x \in Scalar : x # 0 => x \in Nonzero
    /\ 1 \in Nonzero
BY OrderAssumption DEF Nonzero, Scalar

LEMMA QuotientTimes ==
    ASSUME NEW o \in Int, NEW q \in Int, NEW m \in Int, NEW r \in Int, NEW b \in Int,
           NEW k \in Int, o = q * m + r, m * b = k * o
    PROVE  r * b = 0 + (b - q * k) * o
<1>1. r = o - q * m
  BY SMT
<1>2. r * b = o * b - q * (m * b)
  BY <1>1, SMT
<1>3. q * (m * b) = q * (k * o)
  OBVIOUS
<1> QED
  BY <1>2, <1>3, SMT

LEMMA ProductNonzero ==
    ASSUME NEW a \in Nonzero, NEW b \in Nonzero
    PROVE  Times(a, b) \in Nonzero
<1>0. /\ a \in Int /\ b \in Int /\ a \in Nat /\ a # 0 /\ a < Order
      /\ Order \in Nat /\ Order > 2 /\ b % Order = b /\ b # 0 /\ 0 % Order = 0
  BY OrderAssumption, ModOfScalar, NonzeroIsInt, ScalarIsInt DEF Nonzero
<1> DEFINE T == {x \in Nat : x # 0 /\ (x * b) % Order = 0}
<1>1. ASSUME (a * b) % Order = 0 PROVE FALSE
  <2>1. a \in T /\ T \in SUBSET Nat
    BY <1>0, <1>1
  <2>2. PICK m \in T : \A y \in T : m <= y
    <3> HIDE DEF T
    <3> QED
      BY <2>1, LeastElement
  <2>3. m \in Nat /\ m >= 1 /\ m < Order /\ (m * b) % Order = 0
    BY <1>0, <2>1, <2>2
  <2> DEFINE r == Order % m
             q == Order \div m
  <2>4. r \in Int /\ q \in Int /\ 0 <= r /\ r < m /\ Order = q * m + r
    BY <1>0, <2>3, SMTT(30)
  <2> HIDE DEF r, q
  <2>5. PICK k \in Int : m * b = 0 + k * Order
    <3>1. m * b \in Int /\ Equiv(m * b, 0)
      BY <1>0, <2>3 DEF Equiv
    <3> QED
      BY <3>1, EquivByQuotient
  <2>6. k * Order \in Int /\ m * b = k * Order
    BY <1>0, <2>5
  <2>7. r * b = 0 + (b - q * k) * Order
    BY <1>0, <2>3, <2>4, <2>6, QuotientTimes
  <2>8. (r * b) % Order = 0
    <3>1. r * b \in Int /\ b - q * k \in Int
      BY <1>0, <2>4
    <3>2. (r * b) % Order = 0 % Order
      BY <2>7, <3>1, Congruent
    <3> QED
      BY <1>0, <3>2
  <2>9. r = 0
    <3>1. r \in Nat
      BY <2>4
    <3>2. r # 0 => r \in T
      BY <2>8, <3>1
    <3> HIDE DEF T
    <3> QED
      BY <2>2, <2>3, <2>4, <3>2
  <2>10. m = 1
    <3>1. m >= 2 => m \in 2 .. (Order - 1)
      BY <1>0, <2>3
    <3> QED
      BY <2>3, <2>9, <3>1, OrderPrime DEF r
  <2>11. (1 * b) % Order = b
    BY <1>0
  <2> QED
    BY <1>0, <2>3, <2>10, <2>11
<1>2. a * b \in Int
  BY <1>0
<1> QED
  BY <1>1, <1>2, ModType, NonzeroIsInt DEF Times

(***************************************************************************)
(* A product of nonzero scalars over a set of naturals.                    *)
(***************************************************************************)
LEMMA ProdModNonzero ==
    ASSUME NEW n \in Nat, NEW S \in SUBSET (1 .. n), NEW f \in [S -> Nonzero]
    PROVE  ProdMod(f) \in Nonzero
<1> DEFINE h == [i \in 1 .. n |-> [acc \in Nonzero |->
                    IF i \in S THEN (acc * f[i]) % Order ELSE acc]]
           Folds(iter) ==
               iter = [s \in SUBSET S |->
                          IF s = {} THEN 1
                          ELSE (iter[s \ {Max(s)}] * f[Max(s)]) % Order]
           iter == CHOOSE iter : Folds(iter)
<1>1. 1 \in Nonzero /\ h \in [1 .. n -> [Nonzero -> Nonzero]]
  BY NonzeroIsInt, ProductNonzero DEF Times
<1>2. PICK G \in [SUBSET (1 .. n) -> Nonzero] :
              \A s \in SUBSET (1 .. n) : FoldStep(G, 1, h, s)
  <2> HIDE DEF h
  <2> QED
    BY <1>1, FoldExists
<1> DEFINE F == [s \in SUBSET S |-> G[s]]
<1>3. Folds(F)
  <2>1. ASSUME NEW s \in SUBSET S
        PROVE  F[s] = IF s = {} THEN 1 ELSE (F[s \ {Max(s)}] * f[Max(s)]) % Order
    <3>1. /\ s \ {Max(s)} \in SUBSET S /\ s \ {Max(s)} \in SUBSET (1 .. n)
          /\ s \in SUBSET (1 .. n) /\ G[s \ {Max(s)}] \in Nonzero
      BY <1>2
    <3>2. s # {} => Max(s) \in 1 .. n /\ Max(s) \in S
      BY GreatestElement
    <3>3. s # {} => h[Max(s)][G[s \ {Max(s)}]] = (G[s \ {Max(s)}] * f[Max(s)]) % Order
      BY <3>1, <3>2
    <3>4. F[s] = G[s] /\ F[s \ {Max(s)}] = G[s \ {Max(s)}]
      BY <3>1
    <3> HIDE DEF h, F
    <3> QED
      BY <1>2, <3>1, <3>3, <3>4 DEF FoldStep
  <2> QED
    BY <2>1
<1>4. Folds(iter)
  <2> HIDE DEF Folds, F
  <2> QED
    BY <1>3
<1>5. ProdMod(f) = iter[S]
  <2>1. DOMAIN f = S
    OBVIOUS
  <2> QED
    BY <2>1, Zenon DEF ProdMod, MapThenFoldSet
<1> HIDE DEF iter
<1> DEFINE T == {m \in 0 .. n : \A s \in SUBSET S : s \subseteq 1 .. m => iter[s] \in Nonzero}
<1>6. 0 \in T
  <2>1. \A s \in SUBSET S : s \subseteq 1 .. 0 => s = {}
    OBVIOUS
  <2> QED
    BY <1>1, <1>4, <2>1
<1>7. ASSUME NEW m \in 1 .. n, m - 1 \in T PROVE m \in T
  <2> SUFFICES ASSUME NEW s \in SUBSET S, s \subseteq 1 .. m PROVE iter[s] \in Nonzero
    OBVIOUS
  <2>1. CASE m \in s
    <3>1. s \ {m} \in SUBSET S /\ s \ {m} \subseteq 1 .. m - 1
      BY IntervalParts
    <3>2. iter[s \ {m}] \in Nonzero /\ f[m] \in Nonzero
      BY <1>7, <2>1, <3>1
    <3>3. Max(s) = m /\ s # {}
      BY <2>1, MaxOfInterval
    <3>4. iter[s] = (iter[s \ {m}] * f[m]) % Order
      BY <1>4, <3>3
    <3> QED
      BY <3>2, <3>4, ProductNonzero DEF Times
  <2>2. CASE m \notin s
    <3>1. s \subseteq 1 .. m - 1
      BY <2>2, IntervalParts
    <3> QED
      BY <1>7, <3>1
  <2> QED
    BY <2>1, <2>2
<1> HIDE DEF T
<1>8. n \in T
  <2>1. n \in 0 .. n
    OBVIOUS
  <2> QED
    BY <1>6, <1>7, <2>1, InductionUpTo
<1> QED
  BY <1>5, <1>8 DEF T

(***************************************************************************)
(* The inverse of a nonzero scalar is one: the remainder of Order by a     *)
(* number less than Order is not zero, and less than that number.          *)
(***************************************************************************)
InverseStep(F, r) ==
    F[r] = IF r = 1 THEN 1 ELSE Times(Order - Order \div r, F[Order % r])

LEMMA InverseParts ==
    ASSUME NEW r \in 2 .. (Order - 1)
    PROVE  Order % r \in 1 .. (r - 1) /\ Order - Order \div r \in Nonzero
<1> DEFINE q == Order \div r
           s == Order % r
<1>0. Order \in Nat /\ Order > 2 /\ r \in Nat /\ r >= 2 /\ r < Order /\ s # 0
  <2>1. s # 0
    BY OrderPrime, Zenon
  <2> HIDE DEF s
  <2> QED
    BY <2>1, OrderAssumption
<1>1. q \in Int /\ s \in Int /\ 0 <= s /\ s < r /\ Order = q * r + s
  BY <1>0, SMTT(30)
<1> HIDE DEF q, s
<1>2. q >= 1
  <2>1. q <= 0 => q * r <= 0
    BY <1>0, <1>1
  <2> QED
    BY <1>0, <1>1, <2>1
<1>3. q < Order
  <2>1. q >= 1 => q * r >= q * 2
    BY <1>0, <1>1
  <2> QED
    BY <1>0, <1>1, <1>2, <2>1
<1>4. s \in 1 .. (r - 1) /\ Order - q \in 1 .. (Order - 1)
  BY <1>0, <1>1, <1>2, <1>3
<1> QED
  BY <1>4 DEF q, s, Nonzero

LEMMA InverseExists ==
    \E F \in [Nonzero -> Nonzero] : \A r \in Nonzero : InverseStep(F, r)
<1> DEFINE n == Order - 1
           Reaches(m) == \E F \in [1 .. m -> Nonzero] : \A r \in 1 .. m : InverseStep(F, r)
           T == {m \in 0 .. n : Reaches(m)}
<1>0. n \in Nat /\ n >= 1 /\ Nonzero = 1 .. n
  BY OrderAssumption DEF Nonzero
<1>1. 0 \in T
  <2> DEFINE E == [r \in 1 .. 0 |-> 1]
  <2>1. E \in [1 .. 0 -> Nonzero]
    BY NonzeroIsInt
  <2> HIDE DEF E, n
  <2>2. \A r : r \notin 1 .. 0
    OBVIOUS
  <2>3. Reaches(0)
    BY <2>1, <2>2, Zenon
  <2>4. 0 \in 0 .. n
    BY <1>0
  <2> HIDE DEF Reaches
  <2> QED
    BY <2>3, <2>4
<1>2. ASSUME NEW m \in 1 .. n, m - 1 \in T PROVE m \in T
  <2>1. Reaches(m - 1) /\ m \in 0 .. n
    <3> HIDE DEF Reaches
    <3> QED
      BY <1>0, <1>2
  <2>2. PICK F \in [1 .. (m - 1) -> Nonzero] : \A r \in 1 .. (m - 1) : InverseStep(F, r)
    BY <2>1
  <2> DEFINE x == IF m = 1 THEN 1 ELSE Times(Order - Order \div m, F[Order % m])
             G == [r \in 1 .. m |-> IF r = m THEN x ELSE F[r]]
  <2>3. x \in Nonzero
    <3>1. CASE m = 1
      BY <3>1, NonzeroIsInt
    <3>2. CASE m # 1
      <4>1. m \in 2 .. (Order - 1)
        BY <1>0, <3>2
      <4>2. Order % m \in 1 .. (m - 1) /\ Order - Order \div m \in Nonzero
        BY <4>1, InverseParts
      <4>3. F[Order % m] \in Nonzero
        BY <2>2, <4>2
      <4> QED
        BY <3>2, <4>2, <4>3, ProductNonzero
    <3> QED
      BY <3>1, <3>2
  <2>4. G \in [1 .. m -> Nonzero]
    <3>1. \A r \in 1 .. m : r = m \/ r \in 1 .. (m - 1)
      OBVIOUS
    <3> HIDE DEF x
    <3> QED
      BY <2>2, <2>3, <3>1
  <2>5. ASSUME NEW r \in 1 .. m PROVE InverseStep(G, r)
    <3> DEFINE s == Order % r
    <3>1. r # 1 => /\ s \in 1 .. (r - 1) /\ s \in 1 .. (m - 1) /\ s \in 1 .. m /\ s # m
      <4>1. r # 1 => r \in 2 .. (Order - 1)
        BY <1>0
      <4>2. r # 1 => s \in 1 .. (r - 1)
        BY <4>1, InverseParts
      <4> HIDE DEF s
      <4> QED
        BY <1>0, <4>2
    <3>2. r # 1 => G[s] = F[s]
      BY <3>1
    <3>3. CASE r = m
      <4>1. G[r] = x
        BY <3>3
      <4> QED
        BY <3>2, <3>3, <4>1, Zenon DEF InverseStep
    <3>4. CASE r # m
      <4>1. r \in 1 .. (m - 1) /\ G[r] = F[r]
        BY <3>4
      <4>2. InverseStep(F, r)
        BY <2>2, <4>1
      <4> HIDE DEF G
      <4> QED
        BY <3>2, <4>1, <4>2, Zenon DEF InverseStep
    <3> QED
      BY <3>3, <3>4
  <2> HIDE DEF G
  <2> QED
    BY <2>1, <2>4, <2>5
<1>3. n \in T
  <2>1. n \in 0 .. n
    BY <1>0
  <2> HIDE DEF T, n
  <2> QED
    BY <1>0, <1>1, <1>2, <2>1, InductionUpTo
<1> QED
  BY <1>0, <1>3

LEMMA ModInverseStep ==
    \E F \in [Nonzero -> Nonzero] :
        \A r \in Nonzero : InverseStep(F, r) /\ ModInverse(r) = F[r]
<1> DEFINE Inverts(F) ==
               F = [r \in 1 .. (Order - 1) |->
                       IF r = 1 THEN 1 ELSE Times(Order - Order \div r, F[Order % r])]
           F == CHOOSE F : Inverts(F)
<1>1. PICK E \in [Nonzero -> Nonzero] : \A r \in Nonzero : InverseStep(E, r)
  BY InverseExists
<1>2. Inverts(E)
  BY <1>1, Zenon DEF InverseStep, Nonzero
<1>3. Inverts(F)
  <2> HIDE DEF Inverts
  <2> QED
    BY <1>2
<1>4. \A r : ModInverse(r) = F[r]
  BY Zenon DEF ModInverse
<1> HIDE DEF F
<1>5. ASSUME NEW r \in Nonzero PROVE InverseStep(F, r)
  BY <1>3, Zenon DEF InverseStep, Nonzero
<1> DEFINE T == {m \in 0 .. (Order - 1) : \A r \in 1 .. m : F[r] \in Nonzero}
<1>6. 0 \in T
  <2>1. \A r : r \notin 1 .. 0
    OBVIOUS
  <2> QED
    BY <2>1, OrderAssumption
<1>7. ASSUME NEW m \in 1 .. (Order - 1), m - 1 \in T PROVE m \in T
  <2>1. ASSUME NEW r \in 1 .. m PROVE F[r] \in Nonzero
    <3>0. r \in Nonzero
      BY OrderAssumption DEF Nonzero
    <3>1. CASE r = 1
      BY <1>5, <3>0, <3>1, NonzeroIsInt, Zenon DEF InverseStep
    <3>2. CASE r # 1
      <4>1. r \in 2 .. (Order - 1) /\ \A k \in 1 .. (r - 1) : k \in 1 .. (m - 1)
        BY <3>2, OrderAssumption
      <4>2. Order % r \in 1 .. (r - 1) /\ Order - Order \div r \in Nonzero
        BY <4>1, InverseParts
      <4>3. F[Order % r] \in Nonzero
        BY <1>7, <4>1, <4>2
      <4>4. F[r] = Times(Order - Order \div r, F[Order % r])
        BY <1>5, <3>0, <3>2, Zenon DEF InverseStep
      <4> QED
        BY <4>2, <4>3, <4>4, ProductNonzero
    <3> QED
      BY <3>1, <3>2
  <2>2. m \in 0 .. (Order - 1)
    BY OrderAssumption
  <2> QED
    BY <2>1, <2>2
<1>8. \A r \in Nonzero : F[r] \in Nonzero
  <2>1. Order - 1 \in Nat /\ Order - 1 \in 0 .. (Order - 1)
    BY OrderAssumption
  <2> HIDE DEF T
  <2>2. Order - 1 \in T
    BY <1>6, <1>7, <2>1, InductionUpTo
  <2> QED
    BY <2>2 DEF T, Nonzero
<1>9. F \in [Nonzero -> Nonzero]
  <2>1. F = [r \in Nonzero |-> F[r]]
    BY <1>3, Zenon DEF Nonzero
  <2> QED
    BY <1>8, <2>1
<1> QED
  BY <1>4, <1>5, <1>9

(***************************************************************************)
(* A factor other than zero can be cancelled.                              *)
(***************************************************************************)
LEMMA Cancel ==
    ASSUME NEW d \in Int, NEW x \in Int, NEW y \in Int,
           d % Order # 0, Equiv(d * x, d * y)
    PROVE  Equiv(x, y)
<1> DEFINE u == (x - y) % Order
           v == d % Order
<1>1. x - y \in Int /\ d * (x - y) \in Int /\ d * x \in Int /\ -1 * (d * y) \in Int
      /\ d * y \in Int /\ d * (x - y) = d * x + -1 * (d * y)
  BY SMT
<1>2. /\ Equiv(u, x - y) /\ Equiv(v, d) /\ u \in Int /\ v \in Int
      /\ u \in Scalar /\ v \in Nonzero
  BY <1>1, EquivMod, ModType, NonzeroIsInt
<1> HIDE DEF u, v
<1>3. Equiv(v * u, d * (x - y))
  BY <1>1, <1>2, EquivMul
<1>4. Equiv(d * (x - y), 0)
  <2>1. Equiv(-1 * (d * y), -1 * (d * y))
    BY DEF Equiv
  <2>2. Equiv(d * x + -1 * (d * y), d * y + -1 * (d * y))
    BY <1>1, <2>1, EquivAdd
  <2>3. d * y + -1 * (d * y) = 0
    BY <1>1
  <2> QED
    BY <1>1, <2>2, <2>3
<1>5. (v * u) % Order = 0
  <2>1. 0 % Order = 0
    BY ScalarIsInt, ModOfScalar
  <2> QED
    BY <1>3, <1>4, <2>1 DEF Equiv
<1>6. u = 0
  <2>1. u # 0 => Times(v, u) \in Nonzero
    BY <1>2, ProductNonzero, NonzeroIsInt
  <2> QED
    BY <1>5, <2>1, NonzeroIsInt DEF Times
<1>7. Equiv(x - y, 0) /\ Equiv(y, y)
  BY <1>2, <1>6 DEF Equiv
<1>8. Equiv((x - y) + y, 0 + y)
  BY <1>1, <1>7, EquivAdd
<1> QED
  BY <1>8

(***************************************************************************)
(* ModInverse is the inverse.  With Order = q * r + s the inverse of r is  *)
(* -q times that of s, and -q * r is s.                                    *)
(***************************************************************************)
LEMMA InverseOfRemainder ==
    ASSUME NEW r \in Nonzero, NEW q \in Int, NEW s \in Int, NEW f \in Int,
           Order = q * r + s, Equiv(s * f, 1)
    PROVE  Equiv(r * Times(Order - q, f), 1)
<1>0. r \in Int /\ Order \in Int
  BY NonzeroIsInt, OrderAssumption
<1>1. Order - q \in Int /\ (Order - q) * f \in Int /\ s * f \in Int
  BY <1>0
<1>2. Equiv(Times(Order - q, f), (Order - q) * f) /\ Times(Order - q, f) \in Int
  BY <1>1, EquivMod DEF Times
<1>3. Equiv(r * Times(Order - q, f), r * ((Order - q) * f))
  BY <1>0, <1>1, <1>2, EquivTimes
<1>4. r * ((Order - q) * f) = s * f + (r * f - f) * Order
  <2>1. q * r = Order - s /\ q * r \in Int
    BY <1>0
  <2>2. r * ((Order - q) * f) = (r * f) * Order - (q * r) * f
    <3>1. (Order - q) * f = Order * f - q * f
      BY <1>0, SMT
    <3>2. /\ r * (Order * f - q * f) = r * (Order * f) - r * (q * f)
      BY <1>0, SMT
    <3>3. r * (Order * f) = (r * f) * Order /\ r * (q * f) = (q * r) * f
      BY <1>0, SMT
    <3> QED
      BY <3>1, <3>2, <3>3, Zenon
  <2>3. (Order - s) * f = Order * f - s * f
    BY <1>0, SMT
  <2>4. (r * f - f) * Order = (r * f) * Order - Order * f
    BY <1>0, SMT
  <2>5. (r * f) * Order \in Int /\ Order * f \in Int /\ s * f \in Int
    BY <1>0, SMT
  <2> QED
    BY <2>1, <2>2, <2>3, <2>4, <2>5, SMT
<1>5. r * f - f \in Int /\ r * ((Order - q) * f) \in Int
  BY <1>0, <1>1, SMT
<1>6. Equiv(r * ((Order - q) * f), s * f)
  BY <1>1, <1>4, <1>5, Congruent DEF Equiv
<1> QED
  BY <1>3, <1>6 DEF Equiv

LEMMA Division ==
    ASSUME NEW r \in 2 .. (Order - 1)
    PROVE  /\ Order \div r \in Int /\ Order % r \in Int
           /\ Order = (Order \div r) * r + (Order % r)
<1>1. r \in Nat /\ r >= 2 /\ Order \in Nat
  BY OrderAssumption
<1> QED
  BY <1>1, SMTT(30)

LEMMA InverseWorks ==
    \A x \in Nonzero : Equiv(x * ModInverse(x), 1) /\ ModInverse(x) \in Nonzero
<1>1. PICK F \in [Nonzero -> Nonzero] :
         \A r \in Nonzero : InverseStep(F, r) /\ ModInverse(r) = F[r]
  BY ModInverseStep
<1> DEFINE T == {m \in 0 .. (Order - 1) : \A r \in 1 .. m : Equiv(r * F[r], 1)}
<1>2. 0 \in T
  <2>1. \A r : r \notin 1 .. 0
    OBVIOUS
  <2> QED
    BY <2>1, OrderAssumption
<1>3. ASSUME NEW m \in 1 .. (Order - 1), m - 1 \in T PROVE m \in T
  <2>1. ASSUME NEW r \in 1 .. m PROVE Equiv(r * F[r], 1)
    <3>0. r \in Nonzero /\ r \in Int
      BY OrderAssumption DEF Nonzero
    <3>1. CASE r = 1
      <4>1. F[r] = 1
        BY <1>1, <3>0, <3>1, Zenon DEF InverseStep
      <4>2. r * F[r] = 1
        BY <3>1, <4>1
      <4> QED
        BY <4>2 DEF Equiv
    <3>2. CASE r # 1
      <4> DEFINE s == Order % r
                 q == Order \div r
      <4>1. r \in 2 .. (Order - 1) /\ \A k \in 1 .. (r - 1) : k \in 1 .. (m - 1)
        BY <3>2, OrderAssumption
      <4>2. s \in 1 .. (r - 1)
        BY <4>1, InverseParts
      <4>3. q \in Int /\ s \in Int /\ Order = q * r + s
        BY <4>1, Division
      <4>4. s \in 1 .. (m - 1) /\ s \in Nonzero
        <5> HIDE DEF s, q
        <5>1. \A k \in 1 .. (r - 1) : k \in 1 .. (Order - 1)
          BY <4>1, OrderAssumption
        <5> QED
          BY <4>1, <4>2, <5>1 DEF Nonzero
      <4>5. F[r] = Times(Order - q, F[s])
        BY <1>1, <3>0, <3>2, Zenon DEF InverseStep
      <4> HIDE DEF s, q
      <4>6. Equiv(s * F[s], 1)
        BY <1>3, <4>4
      <4>7. F[s] \in Int
        BY <1>1, <4>4, NonzeroIsInt
      <4> QED
        BY <3>0, <4>3, <4>5, <4>6, <4>7, InverseOfRemainder
    <3> QED
      BY <3>1, <3>2
  <2>2. m \in 0 .. (Order - 1)
    BY OrderAssumption
  <2> QED
    BY <2>1, <2>2
<1>4. Order - 1 \in Nat /\ Order - 1 \in 0 .. (Order - 1)
  BY OrderAssumption
<1> HIDE DEF T
<1>5. Order - 1 \in T
  BY <1>2, <1>3, <1>4, InductionUpTo
<1> QED
  BY <1>1, <1>5 DEF T, Nonzero

(***************************************************************************)
(* The product of the values of F over a set of positions, one element at  *)
(* a time, and whichever element is taken last.                            *)
(***************************************************************************)
ProdOn(F, S) == ProdMod([j \in S |-> F[j]])

LEMMA ProdOnSets ==
    ASSUME NEW n \in Nat, NEW F \in [1 .. n -> Scalar]
    PROVE  \E G \in [SUBSET (1 .. n) -> Scalar] :
              \A S \in SUBSET (1 .. n) :
                 /\ ProdOn(F, S) = G[S]
                 /\ G[S] = IF S = {} THEN 1 ELSE (G[S \ {Max(S)}] * F[Max(S)]) % Order
<1> DEFINE h == [i \in 1 .. n |-> [acc \in Scalar |-> (acc * F[i]) % Order]]
<1>1. 1 \in Scalar /\ h \in [1 .. n -> [Scalar -> Scalar]]
  <2>1. ASSUME NEW i \in 1 .. n, NEW acc \in Scalar PROVE (acc * F[i]) % Order \in Scalar
    <3>1. acc \in Int /\ F[i] \in Int
      BY ScalarIsInt
    <3>2. acc * F[i] \in Int
      BY <3>1
    <3> QED
      BY <3>2, ModType
  <2> QED
    BY <2>1, ScalarIsInt
<1>2. PICK G \in [SUBSET (1 .. n) -> Scalar] :
              \A s \in SUBSET (1 .. n) : FoldStep(G, 1, h, s)
  <2> HIDE DEF h
  <2> QED
    BY <1>1, FoldExists
<1>3. ASSUME NEW s \in SUBSET (1 .. n)
      PROVE  G[s] = IF s = {} THEN 1 ELSE (G[s \ {Max(s)}] * F[Max(s)]) % Order
  <2>1. s \ {Max(s)} \in SUBSET (1 .. n) /\ G[s \ {Max(s)}] \in Scalar
    BY <1>2
  <2>2. s # {} => Max(s) \in 1 .. n
    BY GreatestElement
  <2>3. s # {} => h[Max(s)][G[s \ {Max(s)}]] = (G[s \ {Max(s)}] * F[Max(s)]) % Order
    BY <2>1, <2>2
  <2> HIDE DEF h
  <2> QED
    BY <1>2, <2>3 DEF FoldStep
<1>4. ASSUME NEW S \in SUBSET (1 .. n) PROVE ProdOn(F, S) = G[S]
  <2> DEFINE f == [j \in S |-> F[j]]
             Folds(iter) ==
                 iter = [s \in SUBSET S |->
                            IF s = {} THEN 1
                            ELSE (iter[s \ {Max(s)}] * f[Max(s)]) % Order]
             iter == CHOOSE iter : Folds(iter)
             E == [s \in SUBSET S |-> G[s]]
  <2>1. \A s \in SUBSET S : s # {} => Max(s) \in s /\ Max(s) \in S
    BY GreatestElement
  <2>2. Folds(E)
    <3>1. ASSUME NEW s \in SUBSET S
          PROVE  E[s] = IF s = {} THEN 1 ELSE (E[s \ {Max(s)}] * f[Max(s)]) % Order
      <4>1. s \in SUBSET (1 .. n) /\ s \ {Max(s)} \in SUBSET S
        OBVIOUS
      <4>2. E[s] = G[s] /\ E[s \ {Max(s)}] = G[s \ {Max(s)}]
        BY <4>1
      <4>3. s # {} => f[Max(s)] = F[Max(s)]
        BY <2>1
      <4> HIDE DEF E, f
      <4> QED
        BY <1>3, <4>1, <4>2, <4>3
    <3> QED
      BY <3>1
  <2>3. Folds(iter)
    <3> HIDE DEF Folds, E
    <3> QED
      BY <2>2
  <2>4. ProdMod(f) = iter[S]
    <3>1. DOMAIN f = S
      OBVIOUS
    <3> QED
      BY <3>1, Zenon DEF ProdMod, MapThenFoldSet
  <2> HIDE DEF iter, E
  <2> DEFINE T == {m \in 0 .. n : \A s \in SUBSET S : s \subseteq 1 .. m => iter[s] = G[s]}
  <2>5. 0 \in T
    <3>1. \A s \in SUBSET S : s \subseteq 1 .. 0 => s = {}
      OBVIOUS
    <3>2. iter[{}] = 1
      <4>1. {} \in SUBSET S
        OBVIOUS
      <4>2. \A s \in SUBSET S : iter[s] = IF s = {} THEN 1
                                  ELSE (iter[s \ {Max(s)}] * f[Max(s)]) % Order
        <5> HIDE DEF f
        <5> QED
          BY <2>3, Zenon
      <4> HIDE DEF Folds, f
      <4> QED
        BY <4>1, <4>2, Zenon
    <3>3. G[{}] = 1
      <4>1. {} \in SUBSET (1 .. n)
        OBVIOUS
      <4>2. G[{}] = IF {} = {} THEN 1 ELSE (G[{} \ {Max({})}] * F[Max({})]) % Order
        <5> HIDE DEF f, Folds, T
        <5> QED
          BY <1>3, <4>1, Zenon
      <4> QED
        BY <4>2, Zenon
    <3>4. \A s \in SUBSET S : s \subseteq 1 .. 0 => iter[s] = G[s]
      BY <3>1, <3>2, <3>3, Zenon
    <3>5. 0 \in 0 .. n
      OBVIOUS
    <3> QED
      BY <3>4, <3>5, Zenon
  <2>6. ASSUME NEW m \in 1 .. n, m - 1 \in T PROVE m \in T
    <3> SUFFICES ASSUME NEW s \in SUBSET S, s \subseteq 1 .. m PROVE iter[s] = G[s]
      OBVIOUS
    <3>1. CASE m \in s
      <4>1. s \ {m} \in SUBSET S /\ s \ {m} \subseteq 1 .. m - 1
        BY IntervalParts
      <4>2. iter[s \ {m}] = G[s \ {m}]
        BY <2>6, <4>1
      <4>3. Max(s) = m /\ s # {} /\ s \in SUBSET (1 .. n)
        BY <3>1, MaxOfInterval
      <4>4. f[m] = F[m]
        BY <3>1
      <4>5. iter[s] = (iter[s \ {m}] * f[m]) % Order
        BY <2>3, <4>3
      <4> HIDE DEF f, Folds, T
      <4> QED
        BY <1>3, <4>2, <4>3, <4>4, <4>5
    <3>2. CASE m \notin s
      <4>1. s \subseteq 1 .. m - 1
        BY <3>2, IntervalParts
      <4> QED
        BY <2>6, <4>1
    <3> QED
      BY <3>1, <3>2
  <2> HIDE DEF T
  <2>7. n \in T
    <3>1. n \in 0 .. n
      OBVIOUS
    <3> QED
      BY <2>5, <2>6, <3>1, InductionUpTo
  <2> QED
    BY <2>4, <2>7 DEF T, ProdOn
<1> QED
  BY <1>3, <1>4

LEMMA ProductSwap ==
    ASSUME NEW x \in Int, NEW a \in Int, NEW b \in Int
    PROVE  (((x * a) % Order) * b) % Order = (((x * b) % Order) * a) % Order
<1>1. x * a \in Int /\ x * b \in Int /\ (x * a) * b = (x * b) * a
      /\ (x * a) * b \in Int
  BY SMT
<1>2. /\ Equiv((x * a) % Order, x * a) /\ Equiv((x * b) % Order, x * b)
      /\ (x * a) % Order \in Int /\ (x * b) % Order \in Int
      /\ Equiv(a, a) /\ Equiv(b, b)
  BY <1>1, EquivMod DEF Equiv
<1>3. Equiv(((x * a) % Order) * b, (x * a) * b)
  BY <1>1, <1>2, EquivMul
<1>4. Equiv(((x * b) % Order) * a, (x * b) * a)
  BY <1>1, <1>2, EquivMul
<1> QED
  BY <1>1, <1>3, <1>4 DEF Equiv

LEMMA ProdOnSplits ==
    ASSUME NEW n \in Nat, NEW F \in [1 .. n -> Scalar], NEW S \in SUBSET (1 .. n)
    PROVE  /\ ProdOn(F, S) \in Scalar
           /\ S = {} => ProdOn(F, S) = 1
           /\ \A b \in S : ProdOn(F, S) = (ProdOn(F, S \ {b}) * F[b]) % Order
<1>1. PICK G \in [SUBSET (1 .. n) -> Scalar] :
         \A s \in SUBSET (1 .. n) :
            /\ ProdOn(F, s) = G[s]
            /\ G[s] = IF s = {} THEN 1 ELSE (G[s \ {Max(s)}] * F[Max(s)]) % Order
  BY ProdOnSets
<1> DEFINE T == {m \in 0 .. n : \A s \in SUBSET (1 .. n) : s \subseteq 1 .. m =>
                    \A b \in s : G[s] = (G[s \ {b}] * F[b]) % Order}
<1>2. 0 \in T
  <2>1. \A s \in SUBSET (1 .. n) : s \subseteq 1 .. 0 => s = {}
    OBVIOUS
  <2> QED
    BY <2>1
<1>3. ASSUME NEW m \in 1 .. n, m - 1 \in T PROVE m \in T
  <2> SUFFICES ASSUME NEW s \in SUBSET (1 .. n), s \subseteq 1 .. m, NEW b \in s
               PROVE  G[s] = (G[s \ {b}] * F[b]) % Order
    OBVIOUS
  <2>1. CASE m \notin s
    <3>1. s \subseteq 1 .. m - 1
      BY <2>1, IntervalParts
    <3> QED
      BY <1>3, <3>1
  <2>2. CASE m \in s
    <3>1. Max(s) = m /\ s # {}
      BY <2>2, MaxOfInterval
    <3>2. G[s] = (G[s \ {m}] * F[m]) % Order
      BY <1>1, <3>1
    <3>3. CASE b = m
      BY <3>2, <3>3
    <3>4. CASE b # m
      <4> DEFINE c == (s \ {m}) \ {b}
                 d == s \ {b}
      <4>1. /\ s \ {m} \in SUBSET (1 .. n) /\ s \ {m} \subseteq 1 .. m - 1 /\ b \in s \ {m}
            /\ c \in SUBSET (1 .. n) /\ d \in SUBSET (1 .. n) /\ d \subseteq 1 .. m /\ m \in d
            /\ d \ {m} = c /\ d # {}
        BY <2>2, <3>4, IntervalParts
      <4>2. G[s \ {m}] = (G[c] * F[b]) % Order
        BY <1>3, <4>1
      <4>3. Max(d) = m
        <5> HIDE DEF d, c
        <5> QED
          BY <4>1, MaxOfInterval
      <4> HIDE DEF c, d
      <4>4. G[d] = (G[c] * F[m]) % Order
        BY <1>1, <4>1, <4>3
      <4>5. G[c] \in Int /\ F[m] \in Int /\ F[b] \in Int
        <5>1. G[c] \in Scalar /\ F[m] \in Scalar /\ F[b] \in Scalar
          BY <1>1, <4>1
        <5> QED
          BY <5>1, ScalarIsInt
      <4>6. (((G[c] * F[b]) % Order) * F[m]) % Order = (((G[c] * F[m]) % Order) * F[b]) % Order
        BY <4>5, ProductSwap
      <4> QED
        BY <3>2, <4>2, <4>4, <4>6 DEF d
    <3> QED
      BY <3>3, <3>4
  <2> QED
    BY <2>1, <2>2
<1> HIDE DEF T
<1>4. n \in T
  <2>1. n \in 0 .. n
    OBVIOUS
  <2> QED
    BY <1>2, <1>3, <2>1, InductionUpTo
<1>5. ASSUME NEW b \in S PROVE ProdOn(F, S) = (ProdOn(F, S \ {b}) * F[b]) % Order
  <2>1. S \ {b} \in SUBSET (1 .. n) /\ S \subseteq 1 .. n
    OBVIOUS
  <2> QED
    BY <1>1, <1>4, <2>1 DEF T
<1> QED
  BY <1>1, <1>5

(***************************************************************************)
(* The Lagrange coefficient of position i in a set S of positions, as      *)
(* LagrangeInternal computes it, characterised by the equation that its    *)
(* denominator makes it solve.                                             *)
(***************************************************************************)
Numerator(S, i) == ProdMod([j \in S \ {i} |-> j])

Denominator(S, i) == ProdMod([j \in S \ {i} |-> (j - i) % Order])

Weight(S, i) == (Numerator(S, i) * ModInverse(Denominator(S, i))) % Order

LEMMA LagrangeIsWeight ==
    ASSUME NEW ids, NEW i
    PROVE  LagrangeInternal(ids, i) = Weight(Range(ids), i)
BY Zenon DEF LagrangeInternal, Weight, Numerator, Denominator

LEMMA PositionsAreNonzero ==
    ASSUME NEW n \in Nat, n < Order, NEW i \in 1 .. n
    PROVE  /\ i \in Int /\ i \in Nonzero /\ i \in Scalar
           /\ \A j \in 1 .. n : /\ j - i \in Int /\ (j - i) % Order \in Scalar
                                /\ j # i => (j - i) % Order \in Nonzero
<1>1. \A j \in 1 .. n : j \in Int /\ j \in Nonzero /\ j \in Scalar
  BY OrderAssumption DEF Nonzero, Scalar
<1>2. ASSUME NEW j \in 1 .. n, (j - i) % Order = 0 PROVE j = i
  <2>1. Equiv(j - i, 0) /\ Equiv(i, i) /\ j - i \in Int /\ i \in Int
    BY <1>1, <1>2, ScalarIsInt, ModOfScalar DEF Equiv
  <2>2. Equiv((j - i) + i, 0 + i)
    BY <2>1, EquivAdd
  <2>3. (j - i) + i = j /\ 0 + i = i
    BY <1>1
  <2> QED
    BY <1>1, <2>2, <2>3, EquivScalar
<1> QED
  BY <1>1, <1>2, ModType, NonzeroIsInt

LEMMA WeightParts ==
    ASSUME NEW n \in Nat, n < Order, NEW S \in SUBSET (1 .. n), NEW i \in 1 .. n
    PROVE  /\ Numerator(S, i) \in Nonzero /\ Denominator(S, i) \in Nonzero
           /\ Weight(S, i) \in Nonzero
           /\ Equiv(Denominator(S, i) * Weight(S, i), Numerator(S, i))
<1>1. S \ {i} \in SUBSET (1 .. n)
  OBVIOUS
<1>2. [j \in S \ {i} |-> j] \in [S \ {i} -> Nonzero]
  BY PositionsAreNonzero
<1>3. [j \in S \ {i} |-> (j - i) % Order] \in [S \ {i} -> Nonzero]
  BY PositionsAreNonzero
<1>4. Numerator(S, i) \in Nonzero /\ Denominator(S, i) \in Nonzero
  BY <1>1, <1>2, <1>3, ProdModNonzero DEF Numerator, Denominator
<1> DEFINE a == Numerator(S, i)
           d == Denominator(S, i)
           v == ModInverse(d)
<1>5. /\ v \in Nonzero /\ Equiv(d * v, 1)
      /\ a \in Int /\ d \in Int /\ v \in Int /\ a \in Nonzero
  BY <1>4, InverseWorks, NonzeroIsInt
<1>6. Weight(S, i) = (a * v) % Order
  BY DEF Weight
<1> HIDE DEF a, d, v
<1>7. Weight(S, i) \in Nonzero
  BY <1>5, <1>6, ProductNonzero DEF Times
<1>8. a * v \in Int /\ d * v \in Int /\ a * (d * v) = d * (a * v) /\ d * (a * v) \in Int
      /\ a * 1 = a
  BY <1>5, SMT
<1>9. Equiv(d * Weight(S, i), d * (a * v))
  <2>1. Equiv(Weight(S, i), a * v) /\ Weight(S, i) \in Int
    BY <1>6, <1>8, EquivMod
  <2> QED
    BY <1>5, <1>8, <2>1, EquivTimes
<1>10. Equiv(a * (d * v), a * 1)
  <2>1. 1 \in Int
    OBVIOUS
  <2> QED
    BY <1>5, <1>8, <2>1, EquivTimes, Zenon
<1>11. Equiv(d * Weight(S, i), a)
  BY <1>8, <1>9, <1>10 DEF Equiv
<1> QED
  BY <1>4, <1>7, <1>11 DEF a, d

LEMMA NumeratorSplits ==
    ASSUME NEW n \in Nat, n < Order, NEW S \in SUBSET (1 .. n), NEW i \in 1 .. n
    PROVE  /\ S \ {i} = {} => Numerator(S, i) = 1
           /\ \A b \in S \ {i} : Numerator(S, i) = (Numerator(S \ {b}, i) * b) % Order
<1> DEFINE F == [j \in 1 .. n |-> j]
<1>1. F \in [1 .. n -> Scalar]
  BY PositionsAreNonzero
<1>2. \A s \in SUBSET (1 .. n) : [j \in s |-> j] = [j \in s |-> F[j]]
  OBVIOUS
<1>3. \A b \in 1 .. n : F[b] = b
  OBVIOUS
<1> HIDE DEF F
<1>4. \A s \in SUBSET (1 .. n) : ProdMod([j \in s |-> j]) = ProdOn(F, s)
  BY <1>2, Zenon DEF ProdOn
<1>5. S \ {i} \in SUBSET (1 .. n)
  OBVIOUS
<1>6. /\ S \ {i} = {} => ProdOn(F, S \ {i}) = 1
      /\ \A b \in S \ {i} : ProdOn(F, S \ {i}) = (ProdOn(F, (S \ {i}) \ {b}) * F[b]) % Order
  BY <1>1, <1>5, ProdOnSplits
<1>7. ASSUME NEW b \in S \ {i}
      PROVE  Numerator(S, i) = (Numerator(S \ {b}, i) * b) % Order
  <2>1. (S \ {i}) \ {b} = (S \ {b}) \ {i} /\ (S \ {b}) \ {i} \in SUBSET (1 .. n) /\ b \in 1 .. n
    OBVIOUS
  <2>2. Numerator(S \ {b}, i) = ProdOn(F, (S \ {i}) \ {b})
    BY <1>4, <2>1 DEF Numerator
  <2> QED
    BY <1>3, <1>4, <1>5, <1>6, <2>1, <2>2 DEF Numerator
<1> QED
  BY <1>4, <1>5, <1>6, <1>7 DEF Numerator

LEMMA DenominatorSplits ==
    ASSUME NEW n \in Nat, n < Order, NEW S \in SUBSET (1 .. n), NEW i \in 1 .. n
    PROVE  /\ S \ {i} = {} => Denominator(S, i) = 1
           /\ \A b \in S \ {i} :
                 Denominator(S, i) = (Denominator(S \ {b}, i) * ((b - i) % Order)) % Order
<1> DEFINE F == [j \in 1 .. n |-> (j - i) % Order]
<1>1. F \in [1 .. n -> Scalar]
  BY PositionsAreNonzero
<1>2. \A s \in SUBSET (1 .. n) : [j \in s |-> (j - i) % Order] = [j \in s |-> F[j]]
  OBVIOUS
<1>3. \A b \in 1 .. n : F[b] = (b - i) % Order
  OBVIOUS
<1> HIDE DEF F
<1>4. \A s \in SUBSET (1 .. n) : ProdMod([j \in s |-> (j - i) % Order]) = ProdOn(F, s)
  BY <1>2, Zenon DEF ProdOn
<1>5. S \ {i} \in SUBSET (1 .. n)
  OBVIOUS
<1>6. /\ S \ {i} = {} => ProdOn(F, S \ {i}) = 1
      /\ \A b \in S \ {i} : ProdOn(F, S \ {i}) = (ProdOn(F, (S \ {i}) \ {b}) * F[b]) % Order
  BY <1>1, <1>5, ProdOnSplits
<1>7. ASSUME NEW b \in S \ {i}
      PROVE  Denominator(S, i) = (Denominator(S \ {b}, i) * ((b - i) % Order)) % Order
  <2>1. (S \ {i}) \ {b} = (S \ {b}) \ {i} /\ (S \ {b}) \ {i} \in SUBSET (1 .. n) /\ b \in 1 .. n
    OBVIOUS
  <2>2. Denominator(S \ {b}, i) = ProdOn(F, (S \ {i}) \ {b})
    BY <1>4, <2>1 DEF Denominator
  <2> QED
    BY <1>3, <1>4, <1>5, <1>6, <2>1, <2>2 DEF Denominator
<1> QED
  BY <1>4, <1>5, <1>6, <1>7 DEF Denominator

LEMMA WeightAlone ==
    ASSUME NEW n \in Nat, n < Order, NEW i \in 1 .. n
    PROVE  Equiv(Weight({i}, i), 1)
<1>1. {i} \in SUBSET (1 .. n) /\ {i} \ {i} = {}
  OBVIOUS
<1>2. Numerator({i}, i) = 1 /\ Denominator({i}, i) = 1
  BY <1>1, NumeratorSplits, DenominatorSplits
<1>3. Equiv(1 * Weight({i}, i), 1) /\ Weight({i}, i) \in Int
  BY <1>1, <1>2, WeightParts, NonzeroIsInt
<1> QED
  BY <1>3

(***************************************************************************)
(* Taking b out of the set divides the coefficient of i by b / (b - i).    *)
(***************************************************************************)
LEMMA WeightShift ==
    ASSUME NEW n \in Nat, n < Order, NEW S \in SUBSET (1 .. n),
           NEW i \in S, NEW b \in S, b # i
    PROVE  Equiv((b - i) * Weight(S, i), b * Weight(S \ {b}, i))
<1> DEFINE R  == S \ {b}
           e  == (b - i) % Order
           w  == Weight(S, i)
           w1 == Weight(R, i)
           a1 == Numerator(R, i)
           d1 == Denominator(R, i)
<1>1. /\ i \in 1 .. n /\ b \in 1 .. n /\ R \in SUBSET (1 .. n) /\ b \in S \ {i}
  OBVIOUS
<1>2. /\ w \in Int /\ w1 \in Int /\ a1 \in Int /\ d1 \in Int /\ d1 \in Nonzero
      /\ Equiv(Denominator(S, i) * w, Numerator(S, i)) /\ Equiv(d1 * w1, a1)
  BY <1>1, WeightParts, NonzeroIsInt
<1>3. Numerator(S, i) = (a1 * b) % Order /\ Denominator(S, i) = (d1 * e) % Order
  BY <1>1, NumeratorSplits, DenominatorSplits
<1>4. b - i \in Int /\ e \in Int /\ b \in Int /\ Equiv(e, b - i)
  BY <1>1, PositionsAreNonzero, EquivMod
<1> DEFINE f == b - i
<1> HIDE DEF R, e, w, w1, a1, d1, f
<1>5. /\ f \in Int /\ Equiv(e, f)
      /\ a1 * b \in Int /\ d1 * e \in Int /\ d1 * f \in Int /\ (d1 * f) * w \in Int
      /\ (d1 * e) * w \in Int /\ d1 * w1 \in Int /\ b * (d1 * w1) \in Int /\ b * a1 \in Int
      /\ b * w1 \in Int /\ f * w \in Int
      /\ (d1 * f) * w = d1 * (f * w) /\ b * (d1 * w1) = d1 * (b * w1) /\ b * a1 = a1 * b
  BY <1>2, <1>4, SMT DEF f
<1>6. Equiv(((d1 * e) % Order) * w, (d1 * f) * w)
  <2>1. Equiv((d1 * e) % Order, d1 * e) /\ (d1 * e) % Order \in Int
    BY <1>5, EquivMod
  <2>2. Equiv(d1 * e, d1 * f)
    BY <1>2, <1>4, <1>5, EquivTimes
  <2>3. Equiv((d1 * e) % Order, d1 * f) /\ Equiv(w, w)
    BY <2>1, <2>2 DEF Equiv
  <2> QED
    BY <1>2, <1>5, <2>1, <2>3, EquivMul
<1>7. Equiv(b * (d1 * w1), b * a1)
  BY <1>2, <1>4, <1>5, EquivTimes
<1>8. Equiv((a1 * b) % Order, a1 * b)
  BY <1>5, EquivMod
<1>9. Equiv(d1 * (f * w), d1 * (b * w1))
  BY <1>2, <1>3, <1>5, <1>6, <1>7, <1>8 DEF Equiv
<1>10. d1 % Order # 0
  BY <1>2, NonzeroIsInt, ModOfScalar
<1>11. Equiv(f * w, b * w1)
  BY <1>2, <1>5, <1>9, <1>10, Cancel
<1> QED
  BY <1>11 DEF f, w, w1, R

(***************************************************************************)
(* A Lagrange coefficient is a nonzero scalar, and the order of the ids    *)
(* does not matter.                                                        *)
(***************************************************************************)
LEMMA LagrangeNonzero ==
    ASSUME NEW n \in Nat, n < Order, NEW ids, Range(ids) \subseteq 1 .. n, NEW i \in 1 .. n
    PROVE  LagrangeInternal(ids, i) \in Nonzero
BY LagrangeIsWeight, WeightParts

LEMMA LagrangeIgnoresOrder ==
    ASSUME NEW ids, NEW jds, Range(ids) = Range(jds), NEW i
    PROVE  LagrangeInternal(ids, i) = LagrangeInternal(jds, i)
BY Zenon DEF LagrangeInternal
-----------------------------------------------------------------------------
(* Interpolation. *)

(***************************************************************************)
(* The values of F at the positions of S, combined with the coefficients.  *)
(***************************************************************************)
Terms(n, S, F) == [i \in 1 .. n |-> IF i \in S THEN Weight(S, i) * F[i] ELSE 0]

Combined(n, S, F) == SumMod(Terms(n, S, F))

LEMMA TermsType ==
    ASSUME NEW n \in Nat, n < Order, NEW S \in SUBSET (1 .. n), NEW F \in [1 .. n -> Int]
    PROVE  /\ Terms(n, S, F) \in [1 .. n -> Int]
           /\ Combined(n, S, F) \in Scalar /\ Combined(n, S, F) \in Int
<1>1. ASSUME NEW i \in 1 .. n PROVE Weight(S, i) * F[i] \in Int
  <2>1. Weight(S, i) \in Int /\ F[i] \in Int
    BY WeightParts, NonzeroIsInt
  <2> QED
    BY <2>1
<1>2. Terms(n, S, F) \in [1 .. n -> Int]
  BY <1>1 DEF Terms
<1> QED
  BY <1>2, SumModType, ScalarIsInt DEF Combined

LEMMA CombinedLinear ==
    ASSUME NEW n \in Nat, n < Order, NEW S \in SUBSET (1 .. n), NEW c \in Int,
           NEW F \in [1 .. n -> Int], NEW H \in [1 .. n -> Int], NEW K \in [1 .. n -> Int],
           \A i \in S : Equiv(H[i], F[i] + c * K[i])
    PROVE  Equiv(Combined(n, S, H), Combined(n, S, F) + c * Combined(n, S, K))
<1> DEFINE f == Terms(n, S, F)
           h == Terms(n, S, H)
           k == Terms(n, S, K)
<1>1. f \in [1 .. n -> Int] /\ h \in [1 .. n -> Int] /\ k \in [1 .. n -> Int]
  BY TermsType
<1>2. ASSUME NEW i \in 1 .. n PROVE Equiv(h[i], f[i] + c * k[i])
  <2>1. CASE i \notin S
    <3>1. h[i] = 0 /\ f[i] = 0 /\ k[i] = 0
      BY <2>1 DEF Terms
    <3> HIDE DEF f, h, k
    <3>2. f[i] + c * k[i] = 0
      BY <3>1
    <3> QED
      BY <3>1, <3>2 DEF Equiv
  <2>2. CASE i \in S
    <3> DEFINE w == Weight(S, i)
               x == F[i]
               y == K[i]
               z == H[i]
    <3>1. h[i] = w * z /\ f[i] = w * x /\ k[i] = w * y
      BY <2>2 DEF Terms
    <3>2. w \in Int /\ x \in Int /\ y \in Int /\ z \in Int
      BY WeightParts, NonzeroIsInt
    <3>3. Equiv(z, x + c * y)
      BY <2>2
    <3> HIDE DEF w, x, y, z, f, h, k
    <3>4. x + c * y \in Int
      BY <3>2
    <3>5. Equiv(w * z, w * (x + c * y))
      BY <3>2, <3>3, <3>4, EquivTimes
    <3>6. w * (x + c * y) = w * x + c * (w * y)
      <4>1. w * (x + c * y) = w * x + w * (c * y) /\ w * (c * y) = c * (w * y)
        BY <3>2, SMT
      <4> QED
        BY <4>1
    <3> QED
      BY <3>1, <3>5, <3>6
  <2> QED
    BY <2>1, <2>2
<1> HIDE DEF f, h, k
<1>3. Equiv(SumMod(h), SumMod(f) + c * SumMod(k))
  BY <1>1, <1>2, SumModLinear
<1> QED
  BY <1>3 DEF f, h, k, Combined

(***************************************************************************)
(* Each value multiplied by its position: the combination for S is that of *)
(* the values for S less that for S without b, times b.                    *)
(***************************************************************************)
LEMMA ShiftTerm ==
    ASSUME NEW b \in Int, NEW i \in Int, NEW w \in Int, NEW v \in Int, NEW x \in Int,
           NEW z \in Int, Equiv((b - i) * w, b * v), Equiv(z, i * x)
    PROVE  Equiv(w * z, 0 + b * (w * x + (-1) * (v * x)))
<1> DEFINE p == (b - i) * w
           q == b * v
<1>1. p \in Int /\ q \in Int /\ i * x \in Int /\ w * (i * x) \in Int
      /\ p * x \in Int /\ q * x \in Int /\ b * (w * x) \in Int
  BY SMT
<1>2. Equiv(w * z, w * (i * x))
  <2> DEFINE y == i * x
  <2>1. y \in Int /\ Equiv(z, y)
    BY <1>1
  <2> HIDE DEF y
  <2>2. Equiv(w * z, w * y)
    BY <2>1, EquivTimes
  <2> QED
    BY <2>2 DEF y
<1>3. Equiv(x * p, x * q)
  <2>1. Equiv(p, q)
    OBVIOUS
  <2> HIDE DEF p, q
  <2> QED
    BY <1>1, <2>1, EquivTimes
<1>4. w * (i * x) = b * (w * x) + (-1) * (x * p)
  <2>1. x * p = x * (b * w) - x * (i * w)
    <3>1. p = b * w - i * w /\ b * w \in Int /\ i * w \in Int
      BY SMT
    <3> HIDE DEF p
    <3> QED
      BY <3>1, SMT
  <2>2. x * (b * w) = b * (w * x) /\ x * (i * w) = w * (i * x)
    BY SMT
  <2> HIDE DEF p
  <2> QED
    BY <1>1, <2>1, <2>2, SMT
<1>5. 0 + b * (w * x + (-1) * (v * x)) = b * (w * x) + (-1) * (x * q)
  <2>1. x * q = b * (v * x) /\ v * x \in Int /\ w * x \in Int /\ b * (v * x) \in Int
    BY SMT
  <2>2. b * (w * x + (-1) * (v * x)) = b * (w * x) + (-1) * (b * (v * x))
    <3> DEFINE y == w * x
               u == v * x
    <3>1. y \in Int /\ u \in Int
      BY <2>1
    <3> HIDE DEF y, u
    <3>2. b * (y + (-1) * u) = b * y + (-1) * (b * u)
      BY <3>1, SMT
    <3> QED
      BY <3>2 DEF y, u
  <2> HIDE DEF q
  <2> QED
    BY <1>1, <2>1, <2>2
<1> DEFINE r == x * p
           s == x * q
           y == b * (w * x)
<1>6. r \in Int /\ s \in Int /\ y \in Int
  BY SMT
<1>7. Equiv(r, s) /\ Equiv(w * z, y + (-1) * r)
      /\ 0 + b * (w * x + (-1) * (v * x)) = y + (-1) * s
  BY <1>2, <1>3, <1>4, <1>5
<1> HIDE DEF r, s, y
<1>8. Equiv((-1) * r, (-1) * s) /\ Equiv(y, y)
  <2>1. -1 \in Int
    OBVIOUS
  <2>2. Equiv((-1) * r, (-1) * s)
    BY <1>6, <1>7, <2>1, EquivTimes
  <2> QED
    BY <2>2 DEF Equiv
<1>9. Equiv(y + (-1) * r, y + (-1) * s)
  <2>1. (-1) * r \in Int /\ (-1) * s \in Int
    BY <1>6
  <2> QED
    BY <1>6, <1>8, <2>1, EquivAdd
<1> QED
  BY <1>7, <1>9 DEF Equiv

LEMMA CombinedShift ==
    ASSUME NEW n \in Nat, n < Order, NEW S \in SUBSET (1 .. n), NEW b \in S,
           NEW F \in [1 .. n -> Int], NEW H \in [1 .. n -> Int],
           \A i \in 1 .. n : Equiv(H[i], i * F[i])
    PROVE  Equiv(Combined(n, S, H),
                 b * (Combined(n, S, F) + (-1) * Combined(n, S \ {b}, F)))
<1> DEFINE R == S \ {b}
           f == Terms(n, S, F)
           k == Terms(n, R, F)
           h == Terms(n, S, H)
           d == [i \in 1 .. n |-> f[i] + (-1) * k[i]]
           z == [i \in 1 .. n |-> 0]
<1>0. R \in SUBSET (1 .. n) /\ b \in 1 .. n /\ b \in Int
  OBVIOUS
<1>1. f \in [1 .. n -> Int] /\ k \in [1 .. n -> Int] /\ h \in [1 .. n -> Int]
  BY <1>0, TermsType
<1>2. d \in [1 .. n -> Int] /\ z \in [1 .. n -> Int]
      /\ \A i \in 1 .. n : d[i] = f[i] + (-1) * k[i] /\ z[i] = 0
  <2> HIDE DEF f, k
  <2> QED
    BY <1>1
<1>3. ASSUME NEW i \in 1 .. n PROVE Equiv(h[i], z[i] + b * d[i])
  <2> SUFFICES Equiv(h[i], 0 + b * (f[i] + (-1) * k[i]))
    BY <1>2
  <2>1. CASE i \notin S
    <3>1. h[i] = 0 /\ f[i] = 0 /\ k[i] = 0
      BY <2>1 DEF Terms
    <3> HIDE DEF f, h, k
    <3>2. 0 + b * (f[i] + (-1) * k[i]) = 0
      BY <1>0, <3>1
    <3> QED
      BY <3>1, <3>2 DEF Equiv
  <2>2. CASE i \in S
    <3> DEFINE w == Weight(S, i)
               v == IF i = b THEN 0 ELSE Weight(R, i)
               x == F[i]
               y == H[i]
    <3>1. h[i] = w * y /\ f[i] = w * x /\ k[i] = v * x
      <4>1. h[i] = w * y /\ f[i] = w * x
        BY <2>2 DEF Terms
      <4>2. i # b => k[i] = Weight(R, i) * x
        BY <2>2 DEF Terms
      <4>3. i = b => k[i] = 0
        BY DEF Terms
      <4>4. 0 * x = 0
        OBVIOUS
      <4> QED
        BY <4>1, <4>2, <4>3, <4>4
    <3>2. w \in Int /\ v \in Int /\ x \in Int /\ y \in Int /\ i \in Int
      BY <1>0, WeightParts, NonzeroIsInt
    <3>3. Equiv((b - i) * w, b * v)
      <4>1. CASE i = b
        <5>1. (b - i) * w = 0 /\ b * v = 0
          <6>1. b - i = 0 /\ v = 0
            BY <1>0, <4>1
          <6> HIDE DEF w, v
          <6> QED
            BY <1>0, <3>2, <6>1
        <5> QED
          BY <5>1 DEF Equiv
      <4>2. CASE i # b
        <5>1. v = Weight(R, i)
          BY <4>2
        <5> QED
          BY <2>2, <4>2, <5>1, WeightShift
      <4> QED
        BY <4>1, <4>2
    <3>4. Equiv(y, i * x)
      OBVIOUS
    <3> HIDE DEF w, v, x, y, f, h, k
    <3>5. Equiv(w * y, 0 + b * (w * x + (-1) * (v * x)))
      BY <1>0, <3>2, <3>3, <3>4, ShiftTerm
    <3> QED
      BY <3>1, <3>5
  <2> QED
    BY <2>1, <2>2
<1> HIDE DEF f, k, h, d
<1>4. Equiv(SumMod(d), SumMod(f) + (-1) * SumMod(k))
  <2>1. \A i \in 1 .. n : Equiv(d[i], f[i] + (-1) * k[i])
    BY <1>2 DEF Equiv
  <2>2. -1 \in Int
    OBVIOUS
  <2> QED
    BY <1>1, <1>2, <2>1, <2>2, SumModLinear
<1>5. Equiv(SumMod(h), SumMod(z) + b * SumMod(d))
  <2> HIDE DEF z
  <2> QED
    BY <1>0, <1>1, <1>2, <1>3, SumModLinear
<1>6. SumMod(z) = 0
  BY SumModZero
<1> DEFINE sf == SumMod(f)
           sk == SumMod(k)
           sd == SumMod(d)
<1>7. sf \in Int /\ sk \in Int /\ sd \in Int
  BY <1>1, <1>2, SumModType, ScalarIsInt
<1> HIDE DEF sf, sk, sd, z
<1>8. Equiv(b * sd, b * (sf + (-1) * sk))
  <2>1. sf + (-1) * sk \in Int /\ Equiv(sd, sf + (-1) * sk)
    BY <1>4, <1>7 DEF sf, sk, sd
  <2> QED
    BY <1>0, <1>7, <2>1, EquivTimes
<1>9. Equiv(SumMod(h), b * sd)
  <2>1. SumMod(z) + b * sd = b * sd
    BY <1>0, <1>6, <1>7
  <2> QED
    BY <1>5, <2>1 DEF sd
<1>10. Equiv(SumMod(h), b * (sf + (-1) * sk))
  BY <1>8, <1>9 DEF Equiv
<1> QED
  BY <1>10 DEF sf, sk, h, f, k, Combined

LEMMA PositionsAreFinite ==
    ASSUME NEW n \in Nat, NEW S \in SUBSET (1 .. n)
    PROVE  /\ IsFiniteSet(S) /\ Cardinality(S) \in Nat /\ Cardinality(S) <= n
           /\ (Cardinality(S) = 0 <=> S = {})
           /\ \A b \in S : Cardinality(S \ {b}) = Cardinality(S) - 1
<1>1. IsFiniteSet(1 .. n) /\ Cardinality(1 .. n) = n
  <2>1. 1 \in Int /\ n \in Int /\ (IF 1 > n THEN 0 ELSE n - 1 + 1) = n
    OBVIOUS
  <2> QED
    BY <2>1, FS_Interval
<1>2. IsFiniteSet(S) /\ Cardinality(S) <= n
  BY <1>1, FS_Subset
<1> QED
  BY <1>2, FS_CardinalityType, FS_EmptySet, FS_RemoveElement

(***************************************************************************)
(* The coefficients add up to one.                                         *)
(***************************************************************************)
LEMMA WeightOfOne ==
    ASSUME NEW n \in Nat, n < Order, NEW i \in 1 .. n
    PROVE  Equiv(Combined(n, {i}, [k \in 1 .. n |-> 1]), 1)
<1> DEFINE F == [k \in 1 .. n |-> 1]
           h == Terms(n, {i}, F)
           z == [k \in 1 .. n |-> 0]
           w == Weight({i}, i)
<1>1. F \in [1 .. n -> Int] /\ {i} \in SUBSET (1 .. n) /\ z \in [1 .. n -> Int]
  OBVIOUS
<1>2. h \in [1 .. n -> Int]
  <2> HIDE DEF F
  <2> QED
    BY <1>1, TermsType
<1>3. \A k \in 1 .. n : k # i => h[k] = z[k]
  BY DEF Terms
<1>4. h[i] = w /\ z[i] = 0
  <2>1. h[i] = w * 1
    BY DEF Terms
  <2>2. w \in Int
    BY <1>1, WeightParts, NonzeroIsInt
  <2> HIDE DEF w, h
  <2> QED
    BY <2>1, <2>2
<1>5. Equiv(h[i], z[i] + 1)
  <2>1. Equiv(w, 1)
    BY WeightAlone
  <2> HIDE DEF w, h, z
  <2> QED
    BY <1>4, <2>1
<1>6. SumMod(z) = 0
  BY SumModZero
<1> HIDE DEF h, z, w
<1>7. 1 \in Int /\ Equiv(SumMod(h), SumMod(z) + 1)
  BY <1>1, <1>2, <1>3, <1>5, SumModChange
<1> QED
  BY <1>6, <1>7 DEF h, Combined

LEMMA SameProduct ==
    ASSUME NEW a \in Scalar, NEW b \in Scalar, a # b, NEW u \in Int,
           Equiv(a * u, b * u)
    PROVE  Equiv(u, 0)
<1>1. a \in Int /\ b \in Int /\ a * u = u * a /\ b * u = u * b
  BY ScalarIsInt
<1>2. Equiv(u * a, u * b)
  BY <1>1
<1>3. u % Order = 0
  BY <1>1, <1>2, Cancel, EquivScalar
<1> QED
  BY <1>3, ScalarIsInt, ModOfScalar DEF Equiv

LEMMA WeightsSumToOne ==
    ASSUME NEW n \in Nat, n < Order, NEW S \in SUBSET (1 .. n), S # {}
    PROVE  Equiv(Combined(n, S, [i \in 1 .. n |-> 1]), 1)
<1> DEFINE F == [i \in 1 .. n |-> 1]
           H == [i \in 1 .. n |-> i]
           T == {m \in 0 .. n : \A R \in SUBSET (1 .. n) :
                    Cardinality(R) = m + 1 => Equiv(Combined(n, R, F), 1)}
<1>1. F \in [1 .. n -> Int] /\ H \in [1 .. n -> Int]
  BY PositionsAreNonzero
<1>2. \A i \in 1 .. n : Equiv(H[i], i * F[i])
  <2>1. \A i \in 1 .. n : H[i] = i * F[i]
    OBVIOUS
  <2> QED
    BY <2>1 DEF Equiv
<1>3. 0 \in T
  <2>1. ASSUME NEW R \in SUBSET (1 .. n), Cardinality(R) = 0 + 1
        PROVE  Equiv(Combined(n, R, F), 1)
    <3>1. IsFiniteSet(R) /\ Cardinality(R) = 1
      BY <2>1, PositionsAreFinite
    <3>2. PICK i : R = {i}
      BY <3>1, FS_Singleton
    <3>3. i \in 1 .. n
      BY <3>2
    <3> QED
      BY <3>2, <3>3, WeightOfOne
  <2>2. 0 \in 0 .. n
    OBVIOUS
  <2> HIDE DEF F
  <2> QED
    BY <2>1, <2>2, Zenon
<1> HIDE DEF F, H
<1>4. ASSUME NEW m \in 1 .. n, m - 1 \in T PROVE m \in T
  <2>1. ASSUME NEW R \in SUBSET (1 .. n), Cardinality(R) = m + 1
        PROVE  Equiv(Combined(n, R, F), 1)
    <3>1. PICK a \in R : TRUE
      BY <2>1, PositionsAreFinite
    <3>2. R \ {a} \in SUBSET (1 .. n) /\ Cardinality(R \ {a}) = m
      BY <2>1, <3>1, PositionsAreFinite
    <3>3. PICK b \in R \ {a} : TRUE
      BY <3>2, PositionsAreFinite
    <3>4. R \ {b} \in SUBSET (1 .. n) /\ Cardinality(R \ {b}) = m /\ b \in R
      BY <2>1, <3>3, PositionsAreFinite
    <3>5. (m - 1) + 1 = m
      OBVIOUS
    <3>6. Equiv(Combined(n, R \ {a}, F), 1) /\ Equiv(Combined(n, R \ {b}, F), 1)
      BY <1>4, <3>2, <3>4, <3>5
    <3> DEFINE C  == Combined(n, R, F)
               Ca == Combined(n, R \ {a}, F)
               Cb == Combined(n, R \ {b}, F)
               D  == Combined(n, R, H)
               u  == C + (-1) * 1
    <3>7. C \in Int /\ Ca \in Int /\ Cb \in Int /\ D \in Int
      BY <1>1, <3>2, <3>4, TermsType
    <3>8. Equiv(D, a * (C + (-1) * Ca)) /\ Equiv(D, b * (C + (-1) * Cb))
      BY <1>1, <1>2, <3>1, <3>4, CombinedShift
    <3>9. a \in Int /\ b \in Int /\ a # b /\ a \in Scalar /\ b \in Scalar
      BY <3>1, <3>3, PositionsAreNonzero
    <3> HIDE DEF C, Ca, Cb, D
    <3>10. Equiv(C + (-1) * Ca, u) /\ Equiv(C + (-1) * Cb, u)
      <4>1. 1 \in Int /\ Equiv(Ca, 1) /\ Equiv(Cb, 1)
        BY <3>6 DEF Ca, Cb
      <4> QED
        BY <3>7, <4>1, EquivMinus
    <3>11. u \in Int /\ C + (-1) * Ca \in Int /\ C + (-1) * Cb \in Int
      BY <3>7
    <3>12. C = u + 1 /\ 0 + 1 = 1
      BY <3>7
    <3> DEFINE ya == C + (-1) * Ca
               yb == C + (-1) * Cb
    <3> HIDE DEF u, ya, yb
    <3>13. Equiv(a * ya, a * u) /\ Equiv(b * yb, b * u)
      BY <3>9, <3>10, <3>11, EquivTimes DEF ya, yb
    <3>14. Equiv(a * u, b * u)
      BY <3>8, <3>13 DEF Equiv, ya, yb
    <3>15. Equiv(u, 0)
      BY <3>9, <3>11, <3>14, SameProduct
    <3>16. Equiv(u + 1, 0 + 1)
      <4>1. 0 \in Int /\ 1 \in Int
        OBVIOUS
      <4> QED
        BY <3>11, <3>15, <4>1, EquivPlus
    <3> QED
      BY <3>12, <3>16 DEF C
  <2>2. m \in 0 .. n
    OBVIOUS
  <2> QED
    BY <2>1, <2>2, Zenon
<1>5. Cardinality(S) - 1 \in 0 .. n /\ Cardinality(S) = (Cardinality(S) - 1) + 1
  <2> DEFINE c == Cardinality(S)
  <2>1. c \in Nat /\ c <= n /\ c # 0
    BY PositionsAreFinite
  <2> HIDE DEF c
  <2>2. c - 1 \in 0 .. n /\ c = (c - 1) + 1
    BY <2>1
  <2> QED
    BY <2>2 DEF c
<1>6. \A m \in 0 .. n : m \in T
  <2> HIDE DEF T
  <2> QED
    BY <1>3, <1>4, InductionUpTo
<1> QED
  BY <1>5, <1>6 DEF F

(***************************************************************************)
(* The powers of the positions, combined: zero but for the zeroth, while   *)
(* there are more positions than the power.                                *)
(***************************************************************************)
LEMMA PowersVanish ==
    ASSUME NEW n \in Nat, n < Order, NEW e \in Nat,
           NEW X \in [0 .. e -> [1 .. n -> Int]],
           X[0] = [i \in 1 .. n |-> 1],
           \A d \in 1 .. e : \A i \in 1 .. n : Equiv(X[d][i], i * X[d - 1][i])
    PROVE  \A d \in 0 .. e : \A S \in SUBSET (1 .. n) :
              d < Cardinality(S) =>
                 Equiv(Combined(n, S, X[d]), IF d = 0 THEN 1 ELSE 0)
<1> DEFINE Good(d) == \A S \in SUBSET (1 .. n) :
              d < Cardinality(S) =>
                 Equiv(Combined(n, S, X[d]), IF d = 0 THEN 1 ELSE 0)
           T == {d \in 0 .. e : Good(d)}
<1>1. 0 \in T
  <2>1. ASSUME NEW S \in SUBSET (1 .. n), 0 < Cardinality(S)
        PROVE  Equiv(Combined(n, S, X[0]), 1)
    <3>1. S # {}
      <4>1. Cardinality(S) # 0
        BY <2>1
      <4> QED
        BY <4>1, PositionsAreFinite
    <3> QED
      BY <3>1, WeightsSumToOne
  <2>2. 0 \in 0 .. e
    OBVIOUS
  <2> QED
    BY <2>1, <2>2
<1>2. ASSUME NEW d \in 1 .. e, d - 1 \in T PROVE d \in T
  <2>1. ASSUME NEW S \in SUBSET (1 .. n), d < Cardinality(S)
        PROVE  Equiv(Combined(n, S, X[d]), 0)
    <3>1. PICK b \in S : TRUE
      BY <2>1, PositionsAreFinite
    <3>2. S \ {b} \in SUBSET (1 .. n) /\ d - 1 < Cardinality(S \ {b}) /\ d - 1 < Cardinality(S)
      <4> DEFINE c == Cardinality(S)
                 k == Cardinality(S \ {b})
      <4>1. c \in Nat /\ k = c - 1
        BY PositionsAreFinite
      <4>2. d < c /\ d \in Int
        BY <2>1
      <4> HIDE DEF c, k
      <4>3. d - 1 < k /\ d - 1 < c
        BY <4>1, <4>2
      <4> QED
        BY <4>3 DEF c, k
    <3> DEFINE z  == IF d - 1 = 0 THEN 1 ELSE 0
               F  == X[d - 1]
               H  == X[d]
               C  == Combined(n, S, F)
               Cb == Combined(n, S \ {b}, F)
               D  == Combined(n, S, H)
    <3>3. Equiv(C, z) /\ Equiv(Cb, z) /\ z \in Int
      BY <1>2, <3>2
    <3>4. d - 1 \in 0 .. e /\ d \in 0 .. e
      OBVIOUS
    <3>5. F \in [1 .. n -> Int] /\ H \in [1 .. n -> Int] /\ \A i \in 1 .. n : Equiv(H[i], i * F[i])
      BY <3>4
    <3> HIDE DEF F, H
    <3>6. Equiv(D, b * (C + (-1) * Cb)) /\ b \in Int
      <4>1. Equiv(Combined(n, S, H),
                  b * (Combined(n, S, F) + (-1) * Combined(n, S \ {b}, F)))
        BY <3>5, CombinedShift
      <4>2. b \in Int
        OBVIOUS
      <4> QED
        BY <4>1, <4>2
    <3>7. C \in Int /\ Cb \in Int /\ D \in Int
      BY <3>2, <3>5, TermsType
    <3> HIDE DEF C, Cb, z
    <3>8. Equiv(C + (-1) * Cb, C + (-1) * z)
      BY <3>3, <3>7, EquivMinus
    <3>9. (-1) * z \in Int
      BY <3>3
    <3>10. Equiv(C + (-1) * z, z + (-1) * z)
      BY <3>3, <3>7, <3>9, EquivPlus
    <3>11. z + (-1) * z = 0 /\ C + (-1) * Cb \in Int /\ b * 0 = 0 /\ 0 \in Int
      BY <3>3, <3>6, <3>7
    <3>12. Equiv(C + (-1) * Cb, 0)
      BY <3>8, <3>10, <3>11, EquivTrans
    <3> DEFINE y == C + (-1) * Cb
    <3> HIDE DEF y
    <3>13. Equiv(b * y, b * 0)
      BY <3>6, <3>11, <3>12, EquivTimes DEF y
    <3>14. Equiv(D, 0)
      BY <3>6, <3>11, <3>13 DEF Equiv, y
    <3> QED
      BY <3>14 DEF H
  <2>2. d \in 0 .. e /\ d # 0
    OBVIOUS
  <2>3. Good(d)
    BY <2>1, <2>2
  <2> HIDE DEF Good
  <2> QED
    BY <2>2, <2>3
<1> HIDE DEF T
<1>3. \A d \in 0 .. e : d \in T
  BY <1>1, <1>2, InductionUpTo
<1> QED
  BY <1>3 DEF T

(***************************************************************************)
(* EvalPubShare coefficient by coefficient: g lists the values, x the      *)
(* powers of i, before the first coefficient and after each.               *)
(***************************************************************************)
Evaluates(c, e, i, g, x) ==
    /\ g \in [0 .. e -> Scalar] /\ g[0] = 0
    /\ x \in [0 .. e -> Scalar] /\ x[0] = 1
    /\ \A m \in 1 .. e : /\ g[m] = (g[m - 1] + c[m] * x[m - 1]) % Order
                         /\ x[m] = Times(x[m - 1], i)

LEMMA EvalRuns ==
    ASSUME NEW e \in Nat, NEW c \in [1 .. e -> Int], NEW i \in Int
    PROVE  \E g, x : Evaluates(c, e, i, g, x) /\ EvalPubShare(c, i) = g[e]
<1> DEFINE V == [sum : Scalar, x_power : Scalar]
           Next(acc, C) == [sum     |-> (acc.sum + C * acc.x_power) % Order,
                            x_power |-> Times(acc.x_power, i)]
           start == [sum |-> 0, x_power |-> 1]
           h == [k \in 1 .. e |-> [acc \in V |-> Next(acc, c[k])]]
           S == 1 .. e
           Folds(iter) ==
               iter = [s \in SUBSET S |->
                          IF s = {} THEN start
                          ELSE Next(iter[s \ {Max(s)}], c[Max(s)])]
           iter == CHOOSE iter : Folds(iter)
<1>0. start \in V
  BY ScalarIsInt
<1>1. ASSUME NEW acc \in V, NEW C \in Int PROVE Next(acc, C) \in V
  <2> DEFINE s == acc.sum
             p == acc.x_power
  <2>1. s \in Int /\ p \in Int
    BY ScalarIsInt
  <2> HIDE DEF s, p
  <2>2. s + C * p \in Int /\ p * i \in Int
    BY <2>1
  <2>3. (s + C * p) % Order \in Scalar /\ Times(p, i) \in Scalar
    BY <2>2, ModType DEF Times
  <2> QED
    BY <2>3 DEF s, p
<1>2. h \in [1 .. e -> [V -> V]]
  <2> HIDE DEF V, Next
  <2> QED
    BY <1>1
<1>3. PICK G \in [SUBSET S -> V] : \A s \in SUBSET S : FoldStep(G, start, h, s)
  <2> HIDE DEF h, V, start
  <2> QED
    BY <1>0, <1>2, FoldExists
<1>4. Folds(G)
  <2>1. ASSUME NEW s \in SUBSET S
        PROVE  G[s] = IF s = {} THEN start ELSE Next(G[s \ {Max(s)}], c[Max(s)])
    <3>1. s \ {Max(s)} \in SUBSET S /\ G[s \ {Max(s)}] \in V
      BY <1>3
    <3>2. s # {} => Max(s) \in 1 .. e
      BY GreatestElement
    <3> HIDE DEF V, Next, start
    <3>3. s # {} => h[Max(s)][G[s \ {Max(s)}]] = Next(G[s \ {Max(s)}], c[Max(s)])
      BY <3>1, <3>2
    <3> HIDE DEF h
    <3> QED
      BY <1>3, <3>3 DEF FoldStep
  <2> HIDE DEF Next, start, V
  <2> QED
    BY <1>3, <2>1
<1>5. Folds(iter)
  <2> HIDE DEF Folds
  <2> QED
    BY <1>4
<1>6. EvalPubShare(c, i) = iter[S].sum
  <2>1. DOMAIN c = S
    OBVIOUS
  <2> QED
    BY <2>1, Zenon DEF EvalPubShare, FoldLeft, MapThenFoldSet
<1> HIDE DEF iter, Next, start, V
<1>7. ASSUME NEW m \in 1 .. e
      PROVE  iter[1 .. m] = Next(iter[1 .. m - 1], c[m])
  <2>1. /\ 1 .. m \in SUBSET S /\ 1 .. m # {} /\ m \in 1 .. m
        /\ (1 .. m) \ {m} = 1 .. m - 1
    BY IntervalParts
  <2>2. Max(1 .. m) = m
    BY <2>1, MaxOfInterval
  <2>3. iter[1 .. m] = Next(iter[(1 .. m) \ {Max(1 .. m)}], c[Max(1 .. m)])
    BY <1>5, <2>1
  <2> QED
    BY <2>1, <2>2, <2>3
<1>8. iter[1 .. 0] = start
  <2>1. 1 .. 0 = {} /\ {} \in SUBSET S
    OBVIOUS
  <2> QED
    BY <1>5, <2>1
<1> HIDE DEF Folds
<1>9. \A m \in 0 .. e : iter[1 .. m] \in V
  <2> DEFINE T == {k \in 0 .. e : iter[1 .. k] \in V}
  <2>1. 0 \in T
    BY <1>0, <1>8
  <2>2. ASSUME NEW k \in 1 .. e, k - 1 \in T PROVE k \in T
    <3>1. iter[1 .. k - 1] \in V /\ c[k] \in Int /\ k \in 0 .. e
      BY <2>2
    <3> QED
      BY <1>1, <1>7, <3>1
  <2> HIDE DEF T
  <2>3. \A m \in 0 .. e : m \in T
    BY <2>1, <2>2, InductionUpTo
  <2> QED
    BY <2>3 DEF T
<1> DEFINE g == [m \in 0 .. e |-> iter[1 .. m].sum]
           x == [m \in 0 .. e |-> iter[1 .. m].x_power]
<1>10. g \in [0 .. e -> Scalar] /\ x \in [0 .. e -> Scalar]
  BY <1>9 DEF V
<1>11. g[0] = 0 /\ x[0] = 1 /\ EvalPubShare(c, i) = g[e]
  <2>1. 0 \in 0 .. e /\ e \in 0 .. e
    OBVIOUS
  <2> QED
    BY <1>6, <1>8, <2>1 DEF start
<1>12. ASSUME NEW m \in 1 .. e
       PROVE  /\ g[m] = (g[m - 1] + c[m] * x[m - 1]) % Order
              /\ x[m] = Times(x[m - 1], i)
  <2>1. m \in 0 .. e /\ m - 1 \in 0 .. e
    OBVIOUS
  <2>2. /\ g[m] = iter[1 .. m].sum /\ g[m - 1] = iter[1 .. m - 1].sum
        /\ x[m] = iter[1 .. m].x_power /\ x[m - 1] = iter[1 .. m - 1].x_power
    BY <2>1
  <2> DEFINE a == iter[1 .. m]
             b == iter[1 .. m - 1]
  <2>3. a = Next(b, c[m])
    BY <1>7
  <2> HIDE DEF g, x, a, b
  <2>4. a.sum = (b.sum + c[m] * b.x_power) % Order /\ a.x_power = Times(b.x_power, i)
    BY <2>3 DEF Next
  <2> QED
    BY <2>2, <2>4 DEF a, b
<1> HIDE DEF g, x
<1>13. Evaluates(c, e, i, g, x)
  BY <1>10, <1>11, <1>12 DEF Evaluates
<1> QED
  BY <1>11, <1>13

LEMMA EvalPubShareType ==
    ASSUME NEW e \in Nat, NEW c \in [1 .. e -> Int], NEW i \in Int
    PROVE  EvalPubShare(c, i) \in Scalar
<1>1. PICK g, x : Evaluates(c, e, i, g, x) /\ EvalPubShare(c, i) = g[e]
  BY EvalRuns
<1>2. e \in 0 .. e
  OBVIOUS
<1> QED
  BY <1>1, <1>2 DEF Evaluates

(***************************************************************************)
(* Values of a polynomial of e coefficients at e positions or more         *)
(* interpolate to the constant coefficient.                                *)
(***************************************************************************)
LEMMA NothingCombined ==
    ASSUME NEW n \in Nat, n < Order, NEW S \in SUBSET (1 .. n)
    PROVE  Combined(n, S, [i \in 1 .. n |-> 0]) = 0
<1> DEFINE F == [i \in 1 .. n |-> 0]
<1>1. ASSUME NEW i \in 1 .. n PROVE Terms(n, S, F)[i] = 0
  <2> DEFINE w == Weight(S, i)
  <2>1. w \in Int
    BY WeightParts, NonzeroIsInt
  <2>2. Terms(n, S, F)[i] = IF i \in S THEN w * 0 ELSE 0
    BY DEF Terms
  <2> HIDE DEF w, F
  <2>3. w * 0 = 0
    BY <2>1
  <2> QED
    BY <2>2, <2>3
<1>2. Terms(n, S, F) = [i \in 1 .. n |-> 0]
  <2>1. Terms(n, S, F) = [i \in 1 .. n |-> Terms(n, S, F)[i]]
    BY DEF Terms
  <2> HIDE DEF F
  <2> QED
    BY <1>1, <2>1
<1> QED
  BY <1>2, SumModZero DEF Combined

LEMMA Interpolates ==
    ASSUME NEW n \in Nat, n < Order, NEW S \in SUBSET (1 .. n),
           NEW e \in Nat, 1 <= e, e <= Cardinality(S), NEW c \in [1 .. e -> Int],
           NEW F \in [1 .. n -> Int], \A i \in S : Equiv(F[i], EvalPubShare(c, i))
    PROVE  Equiv(Combined(n, S, F), c[1])
<1> DEFINE Runs(i, r) == Evaluates(c, e, i, r[1], r[2]) /\ EvalPubShare(c, i) = r[1][e]
           run(i) == CHOOSE r : Runs(i, r)
           G == [m \in 0 .. e |-> [i \in 1 .. n |-> run(i)[1][m]]]
           X == [m \in 0 .. e |-> [i \in 1 .. n |-> run(i)[2][m]]]
<1>1. ASSUME NEW i \in 1 .. n PROVE Runs(i, run(i))
  <2>1. PICK g, x : Evaluates(c, e, i, g, x) /\ EvalPubShare(c, i) = g[e]
    BY EvalRuns, PositionsAreNonzero
  <2>2. Runs(i, <<g, x>>)
    BY <2>1
  <2> HIDE DEF Runs
  <2> QED
    BY <2>2
<1> HIDE DEF run
<1>2. ASSUME NEW m \in 0 .. e
      PROVE  /\ G[m] \in [1 .. n -> Int] /\ X[m] \in [1 .. n -> Int]
             /\ \A i \in 1 .. n : /\ G[m][i] = run(i)[1][m] /\ X[m][i] = run(i)[2][m]
                                  /\ run(i)[1][m] \in Int /\ run(i)[2][m] \in Int
  <2>1. \A i \in 1 .. n : run(i)[1][m] \in Scalar /\ run(i)[2][m] \in Scalar
    BY <1>1 DEF Evaluates
  <2> QED
    BY <2>1, ScalarIsInt
<1>3. 0 \in 0 .. e /\ e \in 0 .. e
  OBVIOUS
<1>4. G[0] = [i \in 1 .. n |-> 0] /\ X[0] = [i \in 1 .. n |-> 1]
  <2>1. \A i \in 1 .. n : run(i)[1][0] = 0 /\ run(i)[2][0] = 1
    BY <1>1 DEF Evaluates
  <2> QED
    BY <1>3, <2>1
<1>5. ASSUME NEW m \in 1 .. e, NEW i \in 1 .. n
      PROVE  /\ Equiv(G[m][i], G[m - 1][i] + c[m] * X[m - 1][i])
             /\ Equiv(X[m][i], i * X[m - 1][i])
  <2> DEFINE g0 == G[m - 1][i]
             g1 == G[m][i]
             x0 == X[m - 1][i]
             x1 == X[m][i]
             d  == c[m]
  <2>1. m \in 0 .. e /\ m - 1 \in 0 .. e
    OBVIOUS
  <2>2. g0 \in Int /\ x0 \in Int /\ d \in Int /\ i \in Int
    BY <1>2, <2>1
  <2>3. g1 = (g0 + d * x0) % Order /\ x1 = (x0 * i) % Order
    BY <1>1, <1>2, <2>1 DEF Evaluates, Times
  <2> HIDE DEF g0, g1, x0, x1, d
  <2>4. g0 + d * x0 \in Int /\ x0 * i = i * x0 /\ x0 * i \in Int
    BY <2>2
  <2>5. Equiv(g1, g0 + d * x0) /\ Equiv(x1, i * x0)
    BY <2>3, <2>4, EquivMod
  <2> QED
    BY <2>5 DEF g0, g1, x0, x1, d
<1>6. X \in [0 .. e -> [1 .. n -> Int]]
  BY <1>2
<1>7. ASSUME NEW i \in S PROVE G[e][i] = EvalPubShare(c, i)
  BY <1>1, <1>2, <1>3
<1> HIDE DEF G, X, Runs
<1>8. ASSUME NEW d \in 0 .. e, d < Cardinality(S)
      PROVE  Equiv(Combined(n, S, X[d]), IF d = 0 THEN 1 ELSE 0)
  BY <1>4, <1>5, <1>6, <1>8, PowersVanish
<1> DEFINE T == {m \in 0 .. e : Equiv(Combined(n, S, G[m]), IF m = 0 THEN 0 ELSE c[1])}
<1>9. 0 \in T
  BY <1>3, <1>4, NothingCombined DEF Equiv
<1>10. ASSUME NEW m \in 1 .. e, m - 1 \in T PROVE m \in T
  <2>1. m \in 0 .. e /\ m - 1 \in 0 .. e /\ m # 0 /\ (m - 1 = 0 <=> m = 1)
    OBVIOUS
  <2>2. m - 1 < Cardinality(S)
    <3> DEFINE k == Cardinality(S)
    <3>1. k \in Nat /\ e <= k
      BY PositionsAreFinite
    <3> HIDE DEF k
    <3>2. m - 1 < k
      BY <3>1
    <3> QED
      BY <3>2 DEF k
  <2> DEFINE g0 == Combined(n, S, G[m - 1])
             g1 == Combined(n, S, G[m])
             x0 == Combined(n, S, X[m - 1])
             d  == c[m]
             z  == IF m = 1 THEN 1 ELSE 0
             y  == IF m = 1 THEN 0 ELSE c[1]
  <2>3. d \in Int /\ c[1] \in Int
    <3>1. 1 \in 1 .. e
      OBVIOUS
    <3> QED
      BY <3>1
  <2>4. Equiv(g1, g0 + d * x0)
    <3> DEFINE A == G[m - 1]
               B == G[m]
               Y == X[m - 1]
    <3>1. A \in [1 .. n -> Int] /\ B \in [1 .. n -> Int] /\ Y \in [1 .. n -> Int]
      BY <1>2, <2>1
    <3>2. \A i \in S : Equiv(B[i], A[i] + c[m] * Y[i])
      BY <1>5
    <3> HIDE DEF A, B, Y
    <3>3. Equiv(Combined(n, S, B), Combined(n, S, A) + c[m] * Combined(n, S, Y))
      BY <2>3, <3>1, <3>2, CombinedLinear
    <3> QED
      BY <3>3 DEF A, B, Y
  <2>5. g0 \in Int /\ g1 \in Int /\ x0 \in Int
    BY <1>2, <2>1, TermsType
  <2>6. Equiv(x0, z) /\ Equiv(g0, y)
    BY <1>8, <1>10, <2>1, <2>2
  <2>7. d * z = IF m = 1 THEN c[1] ELSE 0
    BY <2>3
  <2>8. z \in Int /\ y \in Int
    BY <2>3
  <2>9. y + d * z = c[1]
    BY <2>3, <2>7
  <2> HIDE DEF g0, g1, x0, d, z, y
  <2>10. Equiv(d * x0, d * z) /\ d * x0 \in Int /\ d * z \in Int
    <3>1. d \in Int /\ x0 \in Int /\ z \in Int /\ Equiv(x0, z)
      BY <2>3, <2>5, <2>6, <2>8
    <3>2. Equiv(d * x0, d * z)
      BY <3>1, EquivTimes
    <3> QED
      BY <3>1, <3>2
  <2>11. Equiv(g0 + d * x0, y + d * z)
    BY <2>5, <2>6, <2>8, <2>10, EquivAdd
  <2>12. Equiv(g1, c[1])
    BY <2>4, <2>9, <2>11 DEF Equiv
  <2> QED
    BY <2>1, <2>12 DEF g1
<1> HIDE DEF T
<1>11. e \in T
  BY <1>3, <1>9, <1>10, InductionUpTo
<1>12. Equiv(Combined(n, S, G[e]), c[1])
  BY <1>11 DEF T
<1>13. Equiv(Combined(n, S, F), Combined(n, S, G[e]) + 0 * Combined(n, S, F))
  <2>1. \A i \in S : Equiv(F[i], G[e][i] + 0 * F[i])
    <3> SUFFICES ASSUME NEW i \in S PROVE Equiv(F[i], G[e][i] + 0 * F[i])
      OBVIOUS
    <3>1. G[e][i] \in Int /\ F[i] \in Int /\ Equiv(F[i], G[e][i])
      BY <1>2, <1>3, <1>7
    <3>2. G[e][i] + 0 * F[i] = G[e][i]
      BY <3>1
    <3> QED
      BY <3>1, <3>2
  <2>2. 0 \in Int
    OBVIOUS
  <2> QED
    BY <1>2, <1>3, <2>1, <2>2, CombinedLinear
<1> DEFINE r == Combined(n, S, G[e])
           s == Combined(n, S, F)
<1>14. r \in Int /\ s \in Int
  BY <1>2, <1>3, TermsType
<1> HIDE DEF r, s
<1>15. r + 0 * s = r
  BY <1>14
<1> QED
  BY <1>12, <1>13, <1>15 DEF Equiv, r, s

(***************************************************************************)
(* The public shares of t parties at different positions out of n, all     *)
(* evaluated from the commitment c.                                        *)
(***************************************************************************)
Sharing(n, t, ids, c, shares) ==
    /\ n \in Nat /\ n < Order /\ t \in Nat /\ 1 <= t
    /\ ids \in [1 .. t -> 1 .. n]
    /\ \A j, k \in 1 .. t : ids[j] = ids[k] => j = k
    /\ c \in [1 .. t -> Scalar] /\ c[1] # Identity
    /\ shares \in [1 .. t -> Int]
    /\ \A k \in 1 .. t : shares[k] = EvalPubShare(c, ids[k])

(***************************************************************************)
(* They interpolate to the constant coefficient of the commitment.         *)
(***************************************************************************)
LEMMA SharesInterpolate ==
    ASSUME NEW n, NEW t, NEW ids, NEW c, NEW shares, Sharing(n, t, ids, c, shares)
    PROVE  InterpolatePubkey(ids, shares) = Ok(c[1])
<1> SUFFICES ASSUME n \in Nat, n < Order, t \in Nat, 1 <= t,
                    ids \in [1 .. t -> 1 .. n],
                    \A j, k \in 1 .. t : ids[j] = ids[k] => j = k,
                    c \in [1 .. t -> Scalar], c[1] # Identity,
                    shares \in [1 .. t -> Int],
                    \A k \in 1 .. t : shares[k] = EvalPubShare(c, ids[k])
             PROVE  InterpolatePubkey(ids, shares) = Ok(c[1])
  BY DEF Sharing
<1> DEFINE S == Range(ids)
           F == [i \in 1 .. n |-> EvalPubShare(c, i)]
           f == Terms(n, S, F)
           p == [k \in 1 .. t |-> (shares[k] * LagrangeInternal(ids, ids[k])) % Order]
           q == [k \in 1 .. t |-> f[ids[k]]]
<1>1. S \in SUBSET (1 .. n) /\ \A k \in 1 .. t : ids[k] \in S /\ ids[k] \in 1 .. n
  BY DEF Range
<1>2. c \in [1 .. t -> Int] /\ 1 \in 1 .. t /\ c[1] \in Scalar
  BY ScalarIsInt
<1>3. \A i \in 1 .. n : EvalPubShare(c, i) \in Int
  BY <1>2, EvalPubShareType, PositionsAreNonzero, ScalarIsInt
<1>4. F \in [1 .. n -> Int]
  BY <1>3
<1>5. f \in [1 .. n -> Int]
  <2> HIDE DEF F, S
  <2> QED
    BY <1>1, <1>4, TermsType
<1>6. Cardinality(S) = t
  <2>1. ids \in Surjection(1 .. t, S) /\ ids \in Injection(1 .. t, S)
    BY DEF Range, Surjection, Injection, IsInjective
  <2>2. IsFiniteSet(1 .. t) /\ Cardinality(1 .. t) = t
    <3>1. 1 \in Int /\ t \in Int /\ (IF 1 > t THEN 0 ELSE t - 1 + 1) = t
      OBVIOUS
    <3> QED
      BY <3>1, FS_Interval
  <2> HIDE DEF S
  <2> QED
    BY <2>1, <2>2, FS_Surjection
<1>7. Equiv(SumMod(f), c[1])
  <2>1. t <= Cardinality(S)
    BY <1>6
  <2>2. \A i \in S : Equiv(F[i], EvalPubShare(c, i))
    BY <1>1 DEF Equiv
  <2> HIDE DEF F, S
  <2>3. Equiv(Combined(n, S, F), c[1])
    BY <1>1, <1>2, <1>4, <2>1, <2>2, Interpolates
  <2> QED
    BY <2>3 DEF Combined
<1>8. ASSUME NEW k \in 1 .. t PROVE Equiv(p[k], q[k])
  <2> DEFINE i == ids[k]
             w == Weight(S, i)
             y == shares[k]
  <2>1. i \in S /\ i \in 1 .. n /\ y = F[i]
    BY <1>1
  <2>2. w \in Int /\ y \in Int
    BY <1>1, <2>1, WeightParts, NonzeroIsInt
  <2>3. p[k] = (y * w) % Order
    BY LagrangeIsWeight
  <2>4. q[k] = w * y
    BY <2>1 DEF Terms
  <2> HIDE DEF p, q, y, w
  <2>5. y * w = w * y /\ y * w \in Int
    BY <2>2
  <2> QED
    BY <2>3, <2>4, <2>5, EquivMod
<1>9. p \in [1 .. t -> Int] /\ q \in [1 .. t -> Int]
  <2>1. \A k \in 1 .. t : p[k] \in Int
    <3> SUFFICES ASSUME NEW k \in 1 .. t PROVE p[k] \in Int
      OBVIOUS
    <3>1. shares[k] \in Int /\ Weight(S, ids[k]) \in Int
      BY <1>1, WeightParts, NonzeroIsInt
    <3>2. p[k] = (shares[k] * Weight(S, ids[k])) % Order
      BY LagrangeIsWeight
    <3> DEFINE x == shares[k]
               w == Weight(S, ids[k])
    <3> HIDE DEF x, w, p
    <3>3. x * w \in Int
      BY <3>1 DEF x, w
    <3> QED
      BY <3>2, <3>3, EquivMod DEF x, w
  <2>2. \A k \in 1 .. t : q[k] \in Int
    <3> HIDE DEF f
    <3> QED
      BY <1>1, <1>5
  <2>3. p = [k \in 1 .. t |-> p[k]] /\ q = [k \in 1 .. t |-> q[k]]
    OBVIOUS
  <2> HIDE DEF p, q
  <2> QED
    BY <2>1, <2>2, <2>3
<1> HIDE DEF p
<1>10. Equiv(SumMod(p), SumMod(q))
  <2>1. \A k \in 1 .. t : Equiv(p[k], q[k] + 0 * q[k])
    <3> SUFFICES ASSUME NEW k \in 1 .. t PROVE Equiv(p[k], q[k] + 0 * q[k])
      OBVIOUS
    <3> HIDE DEF q
    <3>1. q[k] + 0 * q[k] = q[k]
      BY <1>9
    <3> QED
      BY <1>8, <3>1
  <2> HIDE DEF q
  <2>0. 0 \in Int
    OBVIOUS
  <2>2. Equiv(SumMod(p), SumMod(q) + 0 * SumMod(q))
    BY <1>9, <2>0, <2>1, SumModLinear
  <2> DEFINE s == SumMod(q)
  <2>3. s \in Int
    BY <1>9, SumModType, ScalarIsInt
  <2> HIDE DEF s
  <2>4. s + 0 * s = s
    BY <2>3
  <2> QED
    BY <2>2, <2>4 DEF s
<1>11. SumMod(q) = SumMod(f)
  <2>1. Scattered(f, ids, n) = f
    <3>1. \A i \in 1 .. n : i \notin S => f[i] = 0
      BY DEF Terms
    <3> HIDE DEF f
    <3> QED
      BY <1>5, <3>1 DEF Scattered
  <2>2. q = Picked(f, ids, t)
    BY DEF Picked
  <2> HIDE DEF f, q
  <2>3. SumMod(Picked(f, ids, t)) = SumMod(Scattered(f, ids, n))
    BY <1>5, SumModScatter
  <2> QED
    BY <2>1, <2>2, <2>3
<1>12. SumMod(p) = c[1]
  <2>1. Equiv(SumMod(p), c[1])
    BY <1>7, <1>10, <1>11 DEF Equiv
  <2>2. SumMod(p) \in Scalar
    BY <1>9, SumModType
  <2> QED
    BY <1>2, <2>1, <2>2, EquivScalar
<1>13. /\ DOMAIN ids = 1 .. t /\ Len(ids) = t /\ Len(shares) = t /\ IsInjective(ids)
  <2>1. Len(ids) = t /\ Len(shares) = t
    BY SMT
  <2> QED
    BY <2>1 DEF IsInjective
<1> QED
  BY <1>12, <1>13, Zenon DEF InterpolatePubkey, p

-----------------------------------------------------------------------------
(* Folds from the right. *)

(***************************************************************************)
(* The same for a fold from the right, which takes the least position      *)
(* first: it is the fold over the positions counted from the end.          *)
(***************************************************************************)
LEMMA MinOfInterval ==
    ASSUME NEW S, NEW n \in S, S \subseteq Nat, \A k \in S : n <= k
    PROVE  Min(S) = n
<1> DEFINE P(x) == x \in S /\ \A y \in S : x <= y
<1>1. P(n)
  OBVIOUS
<1>2. \A x : P(x) => x = n
  <2> SUFFICES ASSUME NEW x, P(x) PROVE x = n
    OBVIOUS
  <2>1. x <= n /\ n <= x /\ x \in Nat /\ n \in Nat
    OBVIOUS
  <2> QED
    BY <2>1
<1>3. Min(S) = CHOOSE x : P(x)
  BY DEF Min
<1> QED
  BY <1>1, <1>2, <1>3

Reflected(n, s) == {n + 1 - i : i \in s}

LEMMA ReflectedParts ==
    ASSUME NEW n \in Nat, NEW s \in SUBSET (1 .. n)
    PROVE  /\ Reflected(n, s) \in SUBSET (1 .. n)
           /\ s = {} <=> Reflected(n, s) = {}
           /\ s # {} =>
                /\ Min(s) \in s /\ \A k \in s : Min(s) <= k
                /\ Max(Reflected(n, s)) = n + 1 - Min(s)
                /\ Reflected(n, s \ {Min(s)}) = Reflected(n, s) \ {Max(Reflected(n, s))}
<1> DEFINE r == Reflected(n, s)
<1>1. r \in SUBSET (1 .. n)
  BY DEF Reflected
<1>2. s = {} <=> r = {}
  BY DEF Reflected
<1>3. ASSUME s # {}
      PROVE  /\ Min(s) \in s /\ \A k \in s : Min(s) <= k
             /\ Max(r) = n + 1 - Min(s)
             /\ Reflected(n, s \ {Min(s)}) = r \ {Max(r)}
  <2>1. s \subseteq Nat
    OBVIOUS
  <2>2. PICK m \in s : \A k \in s : m <= k
    BY <1>3, <2>1, LeastElement
  <2>3. Min(s) = m
    BY <2>1, <2>2, MinOfInterval
  <2>4. m \in 1 .. n /\ n + 1 - m \in r /\ r \subseteq Nat
    BY <1>1, <2>2 DEF Reflected
  <2>5. \A k \in r : k <= n + 1 - m
    BY <2>2 DEF Reflected
  <2>6. Max(r) = n + 1 - m
    <3> HIDE DEF r
    <3>1. \A x : x \in r /\ (\A y \in r : x >= y) => x = n + 1 - m
      <4> SUFFICES ASSUME NEW x \in r, \A y \in r : x >= y PROVE x = n + 1 - m
        OBVIOUS
      <4>1. x >= n + 1 - m /\ x <= n + 1 - m /\ x \in Nat
        BY <2>4, <2>5
      <4> QED
        BY <2>4, <4>1
    <3>2. \A y \in r : n + 1 - m >= y
      BY <2>4, <2>5
    <3>3. \E x \in r : \A y \in r : x >= y
      BY <2>4, <3>2
    <3> QED
      BY <3>1, <3>3 DEF Max
  <2>7. \A k : k \in Reflected(n, s \ {m}) <=> k \in r \ {n + 1 - m}
    BY <2>1, <2>4 DEF Reflected
  <2> HIDE DEF r
  <2> QED
    BY <2>2, <2>3, <2>6, <2>7
<1> QED
  BY <1>1, <1>2, <1>3

RightFoldStep(G, base, h, s) ==
    G[s] = IF s = {} THEN base ELSE h[Min(s)][G[s \ {Min(s)}]]

LEMMA RightFoldExists ==
    ASSUME NEW n \in Nat, NEW V, NEW base \in V, NEW h \in [1 .. n -> [V -> V]]
    PROVE  \E G \in [SUBSET (1 .. n) -> V] :
              \A s \in SUBSET (1 .. n) : RightFoldStep(G, base, h, s)
<1> DEFINE back == [i \in 1 .. n |-> h[n + 1 - i]]
<1>1. back \in [1 .. n -> [V -> V]]
  OBVIOUS
<1>2. PICK F \in [SUBSET (1 .. n) -> V] :
              \A s \in SUBSET (1 .. n) : FoldStep(F, base, back, s)
  <2> HIDE DEF back
  <2> QED
    BY <1>1, FoldExists
<1> DEFINE G == [s \in SUBSET (1 .. n) |-> F[Reflected(n, s)]]
<1>3. G \in [SUBSET (1 .. n) -> V]
  <2>1. \A s \in SUBSET (1 .. n) : Reflected(n, s) \in SUBSET (1 .. n)
    BY ReflectedParts
  <2> QED
    BY <2>1
<1>4. ASSUME NEW s \in SUBSET (1 .. n) PROVE RightFoldStep(G, base, h, s)
  <2> DEFINE r == Reflected(n, s)
  <2>1. r \in SUBSET (1 .. n) /\ FoldStep(F, base, back, r) /\ G[s] = F[r]
    BY <1>2, ReflectedParts
  <2>2. CASE s = {}
    <3>1. r = {}
      BY <2>2, ReflectedParts
    <3> HIDE DEF r, G
    <3> QED
      BY <2>1, <2>2, <3>1 DEF FoldStep, RightFoldStep
  <2>3. CASE s # {}
    <3>1. /\ r # {} /\ Min(s) \in 1 .. n /\ Max(r) = n + 1 - Min(s)
          /\ Reflected(n, s \ {Min(s)}) = r \ {Max(r)}
      BY <2>3, ReflectedParts
    <3>2. G[s \ {Min(s)}] = F[r \ {Max(r)}]
      BY <3>1
    <3>3. back[Max(r)] = h[Min(s)]
      <4>1. \A m \in 1 .. n : n + 1 - m \in 1 .. n /\ n + 1 - (n + 1 - m) = m
        OBVIOUS
      <4> QED
        BY <3>1, <4>1
    <3> HIDE DEF r, G, back
    <3> QED
      BY <2>1, <2>3, <3>1, <3>2, <3>3 DEF FoldStep, RightFoldStep
  <2> QED
    BY <2>2, <2>3
<1> HIDE DEF G
<1> QED
  BY <1>3, <1>4

-----------------------------------------------------------------------------
(* Commitments are evaluated linearly. *)

(***************************************************************************)
(* What is added to the constant term is added to every value.             *)
(***************************************************************************)
LEMMA EvalShift ==
    ASSUME NEW e \in Nat, e >= 1, NEW c \in [1 .. e -> Int], NEW d \in [1 .. e -> Int],
           NEW i \in Int, NEW w \in Int,
           Equiv(d[1], c[1] + w), \A m \in 2 .. e : d[m] = c[m]
    PROVE  Equiv(EvalPubShare(d, i), EvalPubShare(c, i) + w)
<1>1. PICK g, x : Evaluates(c, e, i, g, x) /\ EvalPubShare(c, i) = g[e]
  BY EvalRuns
<1>2. PICK k, y : Evaluates(d, e, i, k, y) /\ EvalPubShare(d, i) = k[e]
  BY EvalRuns
<1> DEFINE Moved(m) == y[m] = x[m] /\ Equiv(k[m], g[m] + IF m = 0 THEN 0 ELSE w)
           T == {m \in 0 .. e : Moved(m)}
<1>3. 0 \in T
  <2>1. y[0] = x[0] /\ k[0] = 0 /\ g[0] = 0
    BY <1>1, <1>2 DEF Evaluates
  <2> QED
    BY <2>1 DEF Equiv
<1>4. ASSUME NEW m \in 1 .. e, m - 1 \in T PROVE m \in T
  <2> DEFINE X == x[m - 1]
             G == g[m - 1]
             K == k[m - 1]
             C == c[m]
             D == d[m]
             v == IF m - 1 = 0 THEN 0 ELSE w
  <2>0. m \in 0 .. e /\ m - 1 \in 0 .. e
    OBVIOUS
  <2>1. X \in Int /\ G \in Int /\ K \in Int /\ C \in Int /\ D \in Int /\ v \in Int
    BY <1>1, <1>2, <2>0, ScalarIsInt DEF Evaluates
  <2>2. y[m - 1] = X /\ Equiv(K, G + v)
    BY <1>4
  <2>3. /\ g[m] = (G + C * X) % Order /\ k[m] = (K + D * X) % Order
        /\ x[m] = Times(X, i) /\ y[m] = Times(X, i)
    BY <1>1, <1>2, <2>2 DEF Evaluates
  <2>4. Equiv(K + D * X, (G + C * X) + w)
    <3>1. CASE m = 1
      <4>1. X = 1 /\ G = 0 /\ K = 0 /\ Equiv(D, C + w)
        BY <1>1, <1>2, <3>1 DEF Evaluates
      <4>2. K + D * X = D /\ (G + C * X) + w = C + w
        BY <2>1, <4>1
      <4> QED
        BY <4>1, <4>2
    <3>2. CASE m # 1
      <4>1. D = C /\ v = w
        BY <3>2
      <4> HIDE DEF X, G, K, C, D, v
      <4>2. C * X \in Int /\ G + w \in Int
        BY <2>1
      <4>3. Equiv(K + C * X, (G + w) + C * X)
        BY <2>1, <2>2, <4>1, <4>2, EquivPlus
      <4>4. (G + w) + C * X = (G + C * X) + w
        BY <2>1, <4>2
      <4> QED
        BY <4>1, <4>3, <4>4
    <3> QED
      BY <3>1, <3>2
  <2> HIDE DEF X, G, K, C, D, v
  <2>5. Equiv(k[m], g[m] + w)
    <3> DEFINE a == K + D * X
               b == G + C * X
    <3>1. a \in Int /\ b \in Int /\ Equiv(a, b + w)
      <4>1. D * X \in Int /\ C * X \in Int
        BY <2>1
      <4> QED
        BY <2>1, <2>4, <4>1
    <3>2. k[m] = a % Order /\ g[m] = b % Order
      BY <2>3
    <3> HIDE DEF a, b
    <3>3. Equiv(a % Order, a) /\ Equiv(b % Order, b) /\ b % Order \in Int
      BY <3>1, EquivMod
    <3>4. Equiv((b % Order) + w, b + w)
      BY <3>1, <3>3, EquivPlus
    <3> QED
      BY <3>1, <3>2, <3>3, <3>4 DEF Equiv
  <2>6. Moved(m)
    BY <2>3, <2>5
  <2> HIDE DEF Moved
  <2> QED
    BY <2>0, <2>6
<1> HIDE DEF T
<1>5. e \in T
  <2>1. e \in 0 .. e
    OBVIOUS
  <2> QED
    BY <1>3, <1>4, <2>1, InductionUpTo
<1>6. Moved(e)
  BY <1>5 DEF T
<1> QED
  BY <1>1, <1>2, <1>6

(***************************************************************************)
(* The sum of several commitments has the sums of their values.            *)
(***************************************************************************)
Column(C, n, k) == [i \in 1 .. n |-> C[i][k]]

ValuesAt(C, n, j) == [i \in 1 .. n |-> EvalPubShare(C[i], j)]

LEMMA EvalOfSums ==
    ASSUME NEW n \in Nat, NEW e \in Nat, NEW j \in Int,
           NEW C \in [1 .. n -> [1 .. e -> Int]], NEW S \in [1 .. e -> Int],
           \A k \in 1 .. e : S[k] = SumMod(Column(C, n, k))
    PROVE  EvalPubShare(S, j) = SumMod(ValuesAt(C, n, j))
<1>1. PICK g, x : Evaluates(S, e, j, g, x) /\ EvalPubShare(S, j) = g[e]
  BY EvalRuns
<1> DEFINE Run(i, r) == Evaluates(C[i], e, j, r.g, r.x) /\ EvalPubShare(C[i], j) = r.g[e]
           run == [i \in 1 .. n |-> CHOOSE r : Run(i, r)]
<1>2. \A i \in 1 .. n : Run(i, run[i])
  <2>1. ASSUME NEW i \in 1 .. n PROVE \E r : Run(i, r)
    <3>1. C[i] \in [1 .. e -> Int]
      OBVIOUS
    <3>2. PICK h, y : Evaluates(C[i], e, j, h, y) /\ EvalPubShare(C[i], j) = h[e]
      BY <3>1, EvalRuns
    <3> DEFINE r == [g |-> h, x |-> y]
    <3>3. r.g = h /\ r.x = y
      OBVIOUS
    <3> HIDE DEF r
    <3>4. Run(i, r)
      BY <3>2, <3>3
    <3> QED
      BY <3>4
  <2>2. \A i \in 1 .. n : run[i] = CHOOSE r : Run(i, r)
    OBVIOUS
  <2> HIDE DEF Run, run
  <2> QED
    BY <2>1, <2>2
<1> HIDE DEF run
<1> DEFINE Powers == {m \in 0 .. e : \A i \in 1 .. n : run[i].x[m] = x[m]}
<1>3. \A m \in 0 .. e : m \in Powers
  <2>1. 0 \in Powers
    BY <1>1, <1>2 DEF Evaluates
  <2>2. ASSUME NEW m \in 1 .. e, m - 1 \in Powers PROVE m \in Powers
    <3>1. m \in 0 .. e
      OBVIOUS
    <3>2. ASSUME NEW i \in 1 .. n PROVE run[i].x[m] = x[m]
      <4>1. run[i].x[m - 1] = x[m - 1]
        BY <2>2
      <4>2. run[i].x[m] = Times(run[i].x[m - 1], j) /\ x[m] = Times(x[m - 1], j)
        BY <1>1, <1>2 DEF Evaluates
      <4> QED
        BY <4>1, <4>2
    <3> QED
      BY <3>1, <3>2
  <2> HIDE DEF Powers
  <2> QED
    BY <2>1, <2>2, InductionUpTo
<1> DEFINE Row(m) == [i \in 1 .. n |-> run[i].g[m]]
           T == {m \in 0 .. e : Equiv(g[m], SumMod(Row(m)))}
<1>4. \A m \in 0 .. e : Row(m) \in [1 .. n -> Int]
  BY <1>2, ScalarIsInt DEF Evaluates
<1>5. 0 \in T
  <2>1. \A i \in 1 .. n : Row(0)[i] = 0
    BY <1>2 DEF Evaluates
  <2>2. 0 \in 0 .. e
    OBVIOUS
  <2>3. Row(0) \in [1 .. n -> Int]
    BY <1>4, <2>2
  <2> HIDE DEF Row
  <2>4. SumMod(Row(0)) = 0
    BY <2>1, <2>3, SumModZero
  <2>5. g[0] = 0
    BY <1>1 DEF Evaluates
  <2> QED
    BY <2>2, <2>4, <2>5 DEF Equiv
<1>6. ASSUME NEW m \in 1 .. e, m - 1 \in T PROVE m \in T
  <2> DEFINE f == Row(m - 1)
             h == Column(C, n, m)
             s == Row(m)
             X == x[m - 1]
             sf == SumMod(f)
             sh == SumMod(h)
             G == g[m - 1]
  <2>0. m \in 0 .. e /\ m - 1 \in 0 .. e
    OBVIOUS
  <2>1. f \in [1 .. n -> Int] /\ s \in [1 .. n -> Int]
    BY <1>4, <2>0
  <2>2. h \in [1 .. n -> Int]
    BY DEF Column
  <2>3. X \in Int /\ G \in Int
    BY <1>1, <2>0, ScalarIsInt DEF Evaluates
  <2>4. ASSUME NEW i \in 1 .. n PROVE Equiv(s[i], f[i] + X * h[i])
    <3> DEFINE a == f[i]
               b == h[i]
    <3>1. s[i] = (a + b * X) % Order
      <4>1. run[i].g[m] = (run[i].g[m - 1] + C[i][m] * run[i].x[m - 1]) % Order
        BY <1>2 DEF Evaluates
      <4>2. run[i].x[m - 1] = X
        BY <1>3, <2>0
      <4> QED
        BY <4>1, <4>2 DEF Column
    <3>2. a \in Int /\ b \in Int
      BY <2>1, <2>2
    <3> HIDE DEF a, b, X, s, f, h
    <3>3. a + b * X \in Int /\ a + b * X = a + X * b
      BY <2>3, <3>2
    <3>4. Equiv((a + b * X) % Order, a + b * X)
      BY <3>3, EquivMod
    <3>5. Equiv(s[i], a + X * b)
      BY <3>1, <3>3, <3>4
    <3> QED
      BY <3>5 DEF a, b
  <2>5. S[m] = sh /\ Equiv(G, sf)
    BY <1>6
  <2>6. g[m] = (G + S[m] * X) % Order
    BY <1>1 DEF Evaluates
  <2> HIDE DEF f, h, s, X, G
  <2>7. Equiv(SumMod(s), sf + X * sh)
    BY <2>1, <2>2, <2>3, <2>4, SumModLinear
  <2>8. sf \in Int /\ sh \in Int
    BY <2>1, <2>2, SumModType, ScalarIsInt
  <2> HIDE DEF sf, sh
  <2>9. X * sh \in Int /\ sh * X = X * sh /\ G + sh * X \in Int
    BY <2>3, <2>8
  <2>10. Equiv(G + X * sh, sf + X * sh)
    BY <2>3, <2>5, <2>8, <2>9, EquivPlus
  <2>11. Equiv(g[m], G + X * sh)
    BY <2>5, <2>6, <2>9, EquivMod
  <2>12. Equiv(g[m], SumMod(s))
    BY <2>7, <2>10, <2>11 DEF Equiv
  <2> QED
    BY <2>0, <2>12 DEF s
<1> HIDE DEF T
<1>7. e \in T
  <2>1. e \in 0 .. e
    OBVIOUS
  <2> QED
    BY <1>5, <1>6, <2>1, InductionUpTo
<1>8. Row(e) = ValuesAt(C, n, j)
  BY <1>2 DEF ValuesAt
<1>9. e \in 0 .. e /\ Row(e) \in [1 .. n -> Int]
  <2>1. e \in 0 .. e
    OBVIOUS
  <2> QED
    BY <1>4, <2>1
<1> HIDE DEF Row
<1>10. SumMod(Row(e)) \in Scalar /\ g[e] \in Scalar
  BY <1>1, <1>9, SumModType DEF Evaluates
<1>11. Equiv(g[e], SumMod(Row(e)))
  BY <1>7 DEF T
<1> QED
  BY <1>1, <1>8, <1>10, <1>11, EquivScalar

-----------------------------------------------------------------------------
(* Tweaks. *)

(***************************************************************************)
(* Signs are closed under multiplication.                                  *)
(***************************************************************************)
Sign == {1, MinusOne}

LEMMA SignProduct ==
    ASSUME NEW g \in Sign, NEW h \in Sign
    PROVE  (g * h) % Order \in Sign
<1>1. Order \in Nat /\ MinusOne = Order - 1 /\ 1 \in Scalar /\ MinusOne \in Scalar
  BY MinusOneValue, OrderAssumption
<1>2. 1 % Order = 1 /\ MinusOne % Order = MinusOne
  BY <1>1, ModOfScalar
<1>3. CASE g = 1 \/ h = 1
  BY <1>1, <1>2, <1>3 DEF Sign
<1>4. CASE g = MinusOne /\ h = MinusOne
  <2>1. g * h = 1 + (Order - 2) * Order
    BY <1>1, <1>4
  <2>2. (g * h) % Order = 1 % Order
    <3>1. g * h \in Int /\ Order - 2 \in Int
      BY <1>1, <1>4
    <3> QED
      BY <2>1, <3>1, Congruent
  <2> QED
    BY <1>2, <2>2 DEF Sign
<1> QED
  BY <1>3, <1>4 DEF Sign

LEMMA SignIsScalar == \A g \in Sign : g \in Scalar /\ g \in Int
BY MinusOneValue, ScalarIsInt DEF Sign

(***************************************************************************)
(* A tweak that is not refused leads to another point than the identity.   *)
(***************************************************************************)
LEMMA TweakApplyOk ==
    ASSUME NEW c, NEW tweak, TweakApply(c, tweak).ok
    PROVE  LET g == Flip(c, tweak)
               q == (g * c.q + MulG(tweak.value)) % Order
           IN  /\ q # Identity
               /\ TweakApply(c, tweak).val =
                     [q |-> q, gacc |-> (g * c.gacc) % Order,
                      tacc |-> (tweak.value + g * c.tacc) % Order]
BY DEF TweakApply, Ok, Err

LEMMA FlipIsSign ==
    ASSUME NEW c, NEW tweak PROVE Flip(c, tweak) \in Sign
BY DEF Flip, Sign

(***************************************************************************)
(* The accumulators after a tweak, as integers.                            *)
(***************************************************************************)
LEMMA AccumulatorsMove ==
    ASSUME NEW P \in Int, NEW q \in Int, NEW a \in Int, NEW t \in Int,
           NEW g \in Int, NEW v \in Int, q = (a * P + t) % Order
    PROVE  (g * q + (v % Order)) % Order
              = (((g * a) % Order) * P + ((v + g * t) % Order)) % Order
<1>0. Order \in Int
  BY OrderAssumption
<1>1. PICK k1 \in Int : q = (a * P + t) + k1 * Order
  <2>1. a * P + t \in Int
    OBVIOUS
  <2> QED
    BY <2>1, ModQuotient
<1>2. PICK k2 \in Int : v % Order = v + k2 * Order
  BY ModQuotient
<1>3. PICK k3 \in Int : (g * a) % Order = g * a + k3 * Order
  <2>1. g * a \in Int
    OBVIOUS
  <2> QED
    BY <2>1, ModQuotient
<1>4. PICK k4 \in Int : (v + g * t) % Order = (v + g * t) + k4 * Order
  <2>1. v + g * t \in Int
    OBVIOUS
  <2> QED
    BY <2>1, ModQuotient
<1> DEFINE x == g * q + (v % Order)
           y == ((g * a) % Order) * P + ((v + g * t) % Order)
           k == g * k1 + k2 - k3 * P - k4
<1>5. x \in Int /\ y \in Int /\ k \in Int
  BY <1>0, <1>2, <1>3, <1>4
<1>6. x = g * (a * P) + g * t + (g * k1) * Order + v + k2 * Order
  BY <1>0, <1>1, <1>2
<1>7. y = g * (a * P) + (k3 * P) * Order + v + g * t + k4 * Order
  BY <1>0, <1>3, <1>4
<1>8. k * Order = (g * k1) * Order + k2 * Order - (k3 * P) * Order - k4 * Order
  BY <1>0
<1>9. x = y + k * Order
  <2>1. /\ g * (a * P) \in Int /\ g * t \in Int /\ (g * k1) * Order \in Int
        /\ k2 * Order \in Int /\ (k3 * P) * Order \in Int /\ k4 * Order \in Int
    BY <1>0
  <2> HIDE DEF x, y, k
  <2> QED
    BY <1>6, <1>7, <1>8, <2>1
<1> HIDE DEF x, y, k
<1>10. x % Order = y % Order
  BY <1>5, <1>9, Congruent
<1> QED
  BY <1>10 DEF x, y

(***************************************************************************)
(* A context that accounts for the way from a key to its point, and stays  *)
(* one when a tweak is applied.                                            *)
(***************************************************************************)
Context == [q : Scalar \ {Identity}, gacc : Sign, tacc : Scalar]

AnyTweak == [value : Nat, is_xonly : BOOLEAN]

Tracks(key, c) == c \in Context /\ c.q = (c.gacc * key + c.tacc) % Order

LEMMA TracksStart ==
    ASSUME NEW key \in Scalar \ {Identity} PROVE Tracks(key, TweakContext(key))
<1>1. key \in Int /\ 0 \in Scalar /\ (1 * key + 0) % Order = key /\ 1 \in Sign
  BY ScalarIsInt, ModOfScalar DEF Sign
<1> QED
  BY <1>1 DEF Tracks, Context, TweakContext

LEMMA TweakApplyTracks ==
    ASSUME NEW key \in Int, NEW c, Tracks(key, c), NEW tweak \in AnyTweak,
           TweakApply(c, tweak).ok
    PROVE  Tracks(key, TweakApply(c, tweak).val)
<1> DEFINE g == Flip(c, tweak)
           v == tweak.value
           q == (g * c.q + MulG(v)) % Order
           a == (g * c.gacc) % Order
           t == (v + g * c.tacc) % Order
<1>1. g \in Sign /\ v \in Nat
  BY FlipIsSign DEF AnyTweak
<1>2. /\ g \in Int /\ c.q \in Int /\ c.tacc \in Int /\ c.gacc \in Int
      /\ c.gacc \in Sign /\ MulG(v) \in Int
  BY <1>1, SignIsScalar, ScalarIsInt, ModType DEF Tracks, Context, MulG
<1>3. q # Identity /\ TweakApply(c, tweak).val = [q |-> q, gacc |-> a, tacc |-> t]
  BY TweakApplyOk
<1>4. c.q = (c.gacc * key + c.tacc) % Order
  BY DEF Tracks
<1> HIDE DEF g, v
<1>5. g * c.q + MulG(v) \in Int /\ v + g * c.tacc \in Int
  BY <1>1, <1>2
<1>6. q \in Scalar /\ t \in Scalar /\ a \in Sign
  BY <1>1, <1>2, <1>5, ModType, SignProduct
<1>7. (g * c.q + (v % Order)) % Order = (((g * c.gacc) % Order) * key + ((v + g * c.tacc) % Order)) % Order
  BY <1>1, <1>2, <1>4, AccumulatorsMove
<1>8. q = (a * key + t) % Order
  BY <1>7 DEF MulG
<1> HIDE DEF q, a, t
<1>9. [q |-> q, gacc |-> a, tacc |-> t] \in Context
  BY <1>3, <1>6 DEF Context
<1> QED
  BY <1>3, <1>8, <1>9 DEF Tracks

LEMMA TweakApplyRefused ==
    ASSUME NEW c, NEW tweak, ~TweakApply(c, tweak).ok
    PROVE  TweakApply(c, tweak) = Err(Error("Value"))
BY DEF TweakApply, Ok

(***************************************************************************)
(* The same for a chain of tweaks.                                         *)
(***************************************************************************)
LEMMA TweakApplyAllTracks ==
    ASSUME NEW key \in Scalar \ {Identity}, NEW n \in Nat, NEW tweaks \in [1 .. n -> AnyTweak],
           TweakApplyAll(TweakContext(key), tweaks).ok
    PROVE  Tracks(key, TweakApplyAll(TweakContext(key), tweaks).val)
<1> DEFINE V == {res \in {Ok(c) : c \in Context} : Tracks(key, res.val)}
                    \cup {Err(Error("Value"))}
           S == 1 .. n
           Step(res, tweak) == IF res.ok THEN TweakApply(res.val, tweak) ELSE res
           base == Ok(TweakContext(key))
           h == [i \in S |-> [res \in V |-> Step(res, tweaks[i])]]
           Folds(iter) ==
               iter = [s \in SUBSET S |->
                          IF s = {} THEN base ELSE Step(iter[s \ {Max(s)}], tweaks[Max(s)])]
           iter == CHOOSE iter : Folds(iter)
<1>0. key \in Int
  BY ScalarIsInt
<1>1. \A c : Tracks(key, c) => Ok(c) \in V
  BY DEF Ok, Tracks
<1>2. ASSUME NEW res \in V, NEW tweak \in AnyTweak PROVE Step(res, tweak) \in V
  <2>1. CASE res.ok
    <3>1. Tracks(key, res.val)
      BY <2>1 DEF Ok, Err
    <3>2. CASE TweakApply(res.val, tweak).ok
      <4>1. Tracks(key, TweakApply(res.val, tweak).val)
        BY <1>0, <3>1, <3>2, TweakApplyTracks
      <4>2. TweakApply(res.val, tweak) = Ok(TweakApply(res.val, tweak).val)
        BY <3>2 DEF TweakApply, Ok, Err
      <4>3. Step(res, tweak) = TweakApply(res.val, tweak)
        BY <2>1
      <4> HIDE DEF V, Step
      <4> QED
        BY <1>1, <4>1, <4>2, <4>3
    <3>3. CASE ~TweakApply(res.val, tweak).ok
      BY <2>1, <3>3, TweakApplyRefused
    <3> QED
      BY <3>2, <3>3
  <2>2. CASE ~res.ok
    BY <2>2
  <2> QED
    BY <2>1, <2>2
<1>3. base \in V
  BY <1>1, TracksStart
<1>4. h \in [S -> [V -> V]]
  <2> HIDE DEF V, Step
  <2> QED
    BY <1>2
<1> HIDE DEF V, base, Step
<1>5. PICK G \in [SUBSET S -> V] : \A s \in SUBSET S : FoldStep(G, base, h, s)
  <2> HIDE DEF h
  <2> QED
    BY <1>3, <1>4, FoldExists
<1>6. Folds(G)
  <2>1. ASSUME NEW s \in SUBSET S
        PROVE  G[s] = IF s = {} THEN base ELSE Step(G[s \ {Max(s)}], tweaks[Max(s)])
    <3>1. s \ {Max(s)} \in SUBSET S /\ G[s \ {Max(s)}] \in V
      BY <1>5
    <3>2. s # {} => Max(s) \in 1 .. n
      BY GreatestElement
    <3>3. s # {} => h[Max(s)][G[s \ {Max(s)}]] = Step(G[s \ {Max(s)}], tweaks[Max(s)])
      BY <3>1, <3>2
    <3> HIDE DEF h
    <3> QED
      BY <1>5, <3>3 DEF FoldStep
  <2> QED
    BY <1>5, <2>1
<1>7. Folds(iter)
  <2> HIDE DEF Folds
  <2> QED
    BY <1>6
<1>8. TweakApplyAll(TweakContext(key), tweaks) = iter[S]
  <2>1. DOMAIN tweaks = S
    OBVIOUS
  <2> QED
    BY <2>1, Zenon DEF TweakApplyAll, FoldLeft, MapThenFoldSet, Step, base
<1> HIDE DEF iter
<1> DEFINE T == {m \in 0 .. n : iter[1 .. m] \in V}
<1>9. 0 \in T
  <2>1. 1 .. 0 = {} /\ {} \in SUBSET S
    OBVIOUS
  <2>2. iter[1 .. 0] = base
    BY <1>7, <2>1
  <2> QED
    BY <1>3, <2>2
<1>10. ASSUME NEW m \in 1 .. n, m - 1 \in T PROVE m \in T
  <2>1. /\ 1 .. m \in SUBSET S /\ 1 .. m # {} /\ m \in 1 .. m
        /\ (1 .. m) \ {m} = 1 .. m - 1
    BY IntervalParts
  <2>2. Max(1 .. m) = m
    BY <2>1, MaxOfInterval
  <2>3. iter[1 .. m] = Step(iter[(1 .. m) \ {Max(1 .. m)}], tweaks[Max(1 .. m)])
    BY <1>7, <2>1
  <2>4. iter[1 .. m] = Step(iter[1 .. m - 1], tweaks[m])
    BY <2>1, <2>2, <2>3
  <2>5. iter[1 .. m - 1] \in V /\ tweaks[m] \in AnyTweak
    BY <1>10
  <2>6. iter[1 .. m] \in V
    BY <1>2, <2>4, <2>5
  <2> QED
    BY <2>6
<1>11. iter[S] \in V
  <2>1. n \in 0 .. n
    OBVIOUS
  <2> HIDE DEF T
  <2>2. n \in T
    BY <1>9, <1>10, <2>1, InductionUpTo
  <2> QED
    BY <2>2 DEF T
<1> DEFINE res == TweakApplyAll(TweakContext(key), tweaks)
<1>12. res \in V /\ res.ok
  BY <1>8, <1>11
<1> HIDE DEF res
<1>13. Tracks(key, res.val)
  BY <1>12 DEF V, Ok, Err
<1> QED
  BY <1>13 DEF res

(***************************************************************************)
(* Signers and aggregator together hold the secret of the even key.        *)
(***************************************************************************)
LEMMA EvenKeyShared ==
    ASSUME NEW key \in Int, NEW ctx, Tracks(key, ctx)
    PROVE  EvenYPoint(ctx.q) =
              (EvenSign(ctx) * ctx.gacc * key + EvenSign(ctx) * ctx.tacc) % Order
<1> DEFINE w == ctx.gacc * key + ctx.tacc
<1>0. Order \in Nat /\ Order > 2 /\ MinusOne = Order - 1
  BY OrderAssumption, MinusOneValue
<1>1. ctx.q \in Scalar /\ ctx.q = w % Order
  BY DEF Tracks, Context
<1>2. ctx.gacc \in Int /\ key \in Int /\ ctx.tacc \in Int
  BY SignIsScalar, ScalarIsInt DEF Tracks, Context
<1>3. w \in Int
  BY <1>2
<1>4. CASE HasEvenY(ctx.q)
  <2>1. EvenSign(ctx) * ctx.gacc * key + EvenSign(ctx) * ctx.tacc = w
    BY <1>2, <1>4 DEF EvenSign
  <2> QED
    BY <1>1, <1>4, <2>1 DEF EvenYPoint
<1>5. CASE ~ HasEvenY(ctx.q)
  <2> DEFINE y == EvenSign(ctx) * ctx.gacc * key + EvenSign(ctx) * ctx.tacc
  <2>1. EvenYPoint(ctx.q) = (Order - ctx.q) % Order
    BY <1>5 DEF EvenYPoint, Neg
  <2>2. y = (Order - 1) * ctx.gacc * key + (Order - 1) * ctx.tacc
    BY <1>0, <1>5 DEF EvenSign
  <2>3. y = w * Order - w
    <3> DEFINE a == ctx.gacc
               t == ctx.tacc
    <3>1. (Order - 1) * a * key + (Order - 1) * t = (a * key + t) * Order - (a * key + t)
      <4>1. Order \in Int /\ a \in Int /\ key \in Int /\ t \in Int
        BY <1>0, <1>2
      <4> HIDE DEF a, t, w, y
      <4>2. (Order - 1) * a = Order * a - a
        BY <4>1
      <4>3. (Order - 1) * a * key = Order * a * key - a * key
        BY <4>1, <4>2
      <4>4. (a * key + t) * Order = Order * a * key + Order * t
        BY <4>1
      <4>5. (Order - 1) * t = Order * t - t
        BY <4>1
      <4>6. /\ Order * a * key \in Int /\ Order * t \in Int /\ a * key \in Int
            /\ (Order - 1) * a * key \in Int /\ (a * key + t) * Order \in Int
        BY <4>1
      <4> QED
        BY <4>1, <4>3, <4>4, <4>5, <4>6
    <3>2. (Order - 1) * ctx.gacc * key + (Order - 1) * ctx.tacc = w * Order - w
      BY <3>1, Zenon
    <3> HIDE DEF y, w
    <3> QED
      BY <2>2, <3>2
  <2>4. PICK i \in Int : ctx.q = w + i * Order
    BY <1>1, <1>3, ModQuotient
  <2>5. y \in Int /\ Order - ctx.q \in Int /\ 1 - i - w \in Int
    BY <1>0, <1>3, <2>3, <2>4
  <2> HIDE DEF w, y
  <2>6. (1 - i - w) * Order = Order - i * Order - w * Order
    BY <1>0, <1>3, <2>4
  <2>7. Order - ctx.q = y + (1 - i - w) * Order
    <3>1. i * Order \in Int /\ w * Order \in Int
      BY <1>0, <1>3, <2>4
    <3> QED
      BY <1>0, <1>3, <2>3, <2>4, <2>6, <3>1
  <2>8. (Order - ctx.q) % Order = y % Order
    BY <2>5, <2>7, Congruent
  <2> QED
    BY <2>1, <2>8 DEF y
<1> QED
  BY <1>4, <1>5
=============================================================================
