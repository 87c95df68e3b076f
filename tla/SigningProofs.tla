----------------------------- MODULE SigningProofs -------------------------
(***************************************************************************)
(* Theorems about FROST signing sessions, for any parties, keys, lists,    *)
(* requests and randomness, and for any hash functions that never make the *)
(* same nonce from different inputs (NoncesAssumption).  First, lemmas     *)
(* about the functions of a session: lists put in order, what a list and a *)
(* request determine, and when a partial signature passes verification.    *)
(***************************************************************************)
EXTENDS SigningProperties, FieldLemmas

-----------------------------------------------------------------------------
(* Ids in ascending order. *)

LEMMA RankInjective ==
    ASSUME NEW S \in SUBSET Nat, IsFiniteSet(S), NEW a \in S, NEW b \in S, a < b
    PROVE  Rank(S, a) < Rank(S, b)
<1> DEFINE A == {i \in S : i <= a}
           B == {i \in S : i <= b}
<1>1. a \in Nat /\ b \in Nat /\ A \in SUBSET B /\ b \in B /\ b \notin A
  <2>1. a \in Nat /\ b \in Nat /\ b \in B /\ b \notin A
    BY SMT
  <2>2. ASSUME NEW i \in A PROVE i \in B
    BY <2>1
  <2> HIDE DEF A, B
  <2> QED
    BY <2>1, <2>2
<1>2. IsFiniteSet(B) /\ IsFiniteSet(A)
  BY FS_Subset
<1>3. Cardinality(A) \in Nat /\ Cardinality(B) \in Nat
  BY <1>2, FS_CardinalityType
<1> HIDE DEF A, B
<1>4. Cardinality(A) <= Cardinality(B) /\ (Cardinality(B) = Cardinality(A) => B = A)
  BY <1>1, <1>2, FS_Subset
<1>5. Cardinality(A) < Cardinality(B)
  BY <1>1, <1>3, <1>4
<1> QED
  BY <1>5 DEF Rank, A, B

LEMMA RankBijective ==
    ASSUME NEW S \in SUBSET Nat, IsFiniteSet(S)
    PROVE  /\ Cardinality(S) \in Nat
           /\ \A a \in S : Rank(S, a) \in 1 .. Cardinality(S)
           /\ \A a, b \in S : Rank(S, a) = Rank(S, b) => a = b
           /\ \A k \in 1 .. Cardinality(S) : \E a \in S : Rank(S, a) = k
<1> DEFINE c == Cardinality(S)
           r == [a \in S |-> Rank(S, a)]
<1>1. c \in Nat
  BY FS_CardinalityType
<1> HIDE DEF c
<1>2. ASSUME NEW a \in S PROVE Rank(S, a) \in 1 .. c
  <2> DEFINE A == {i \in S : i <= a}
  <2>1. A \in SUBSET S /\ a \in A
    BY SMT
  <2> HIDE DEF A
  <2>2. IsFiniteSet(A) /\ Cardinality(A) <= c
    BY <2>1, FS_Subset DEF c
  <2>3. Cardinality(A) \in Nat /\ (Cardinality(A) = 0 <=> A = {})
    BY <2>2, FS_CardinalityType, FS_EmptySet
  <2>4. Cardinality(A) \in 1 .. c
    BY <1>1, <2>1, <2>2, <2>3
  <2> QED
    BY <2>4 DEF Rank, A
<1>3. ASSUME NEW a \in S, NEW b \in S, Rank(S, a) = Rank(S, b) PROVE a = b
  <2>1. a \in Nat /\ b \in Nat /\ Rank(S, a) \in Nat
    BY <1>1, <1>2
  <2>2. ~(a < b)
    <3>1. a < b => Rank(S, a) < Rank(S, b)
      BY RankInjective
    <3> QED
      BY <1>3, <2>1, <3>1
  <2>3. ~(b < a)
    <3>1. b < a => Rank(S, b) < Rank(S, a)
      BY RankInjective
    <3> QED
      BY <1>3, <2>1, <3>1
  <2> QED
    BY <2>1, <2>2, <2>3
<1>4. r \in Injection(S, 1 .. c)
  BY <1>2, <1>3 DEF Injection, IsInjective
<1>5. IsFiniteSet(1 .. c) /\ Cardinality(1 .. c) = c
  <2>1. 1 \in Int /\ c \in Int /\ (1 > c => c = 0) /\ c - 1 + 1 = c
    BY <1>1
  <2> QED
    BY <2>1, FS_Interval
<1>6. r \in Surjection(S, 1 .. c)
  BY <1>4, <1>5, FS_Injection DEF c
<1>7. \A k \in 1 .. c : \E a \in S : Rank(S, a) = k
  BY <1>6 DEF Surjection
<1> QED
  BY <1>1, <1>2, <1>3, <1>7 DEF c

(***************************************************************************)
(* Sorted lists each id once.                                              *)
(***************************************************************************)
LEMMA SortedFacts ==
    ASSUME NEW ids, Range(ids) \in SUBSET Nat, IsFiniteSet(Range(ids))
    PROVE  /\ Cardinality(Range(ids)) \in Nat
           /\ Sorted(ids) \in [1 .. Cardinality(Range(ids)) -> Range(ids)]
           /\ IsInjective(Sorted(ids))
           /\ Range(Sorted(ids)) = Range(ids)
<1> DEFINE S == Range(ids)
           c == Cardinality(S)
           At(k) == CHOOSE id \in S : Rank(S, id) = k
<1>0. S \in SUBSET Nat /\ IsFiniteSet(S)
  OBVIOUS
<1> HIDE DEF S
<1>1. /\ c \in Nat
      /\ \A a \in S : Rank(S, a) \in 1 .. c
      /\ \A a, b \in S : Rank(S, a) = Rank(S, b) => a = b
      /\ \A k \in 1 .. c : \E a \in S : Rank(S, a) = k
  BY <1>0, RankBijective
<1> HIDE DEF c
<1>2. ASSUME NEW k \in 1 .. c PROVE At(k) \in S /\ Rank(S, At(k)) = k
  BY <1>1, Zenon
<1>3. ASSUME NEW a \in S PROVE At(Rank(S, a)) = a
  <2>1. At(Rank(S, a)) \in S /\ Rank(S, At(Rank(S, a))) = Rank(S, a)
    BY <1>1, <1>2
  <2> HIDE DEF At
  <2> QED
    BY <1>1, <2>1
<1>4. Sorted(ids) = [k \in 1 .. c |-> At(k)]
  BY DEF Sorted, S, c
<1> DEFINE f == [k \in 1 .. c |-> At(k)]
<1> HIDE DEF At
<1>5. f \in [1 .. c -> S]
  BY <1>2
<1>6. IsInjective(f)
  <2>1. ASSUME NEW a \in 1 .. c, NEW b \in 1 .. c, f[a] = f[b] PROVE a = b
    BY <1>2, <2>1
  <2> QED
    BY <2>1 DEF IsInjective
<1>7. Range(f) = S
  <2>1. ASSUME NEW a \in S PROVE a \in Range(f)
    <3>1. Rank(S, a) \in 1 .. c /\ f[Rank(S, a)] = a
      BY <1>1, <1>3
    <3> QED
      BY <1>5, <3>1 DEF Range
  <2> QED
    BY <1>5, <2>1 DEF Range
<1> QED
  BY <1>1, <1>4, <1>5, <1>6, <1>7 DEF c, S
-----------------------------------------------------------------------------
(* Lists of contributions, put in order. *)

IsList(list, n) == DOMAIN list = 1 .. n /\ \A k \in 1 .. n : list[k].id \in Nat

LEMMA IdsOfList ==
    ASSUME NEW n \in Nat, NEW list, IsList(list, n)
    PROVE  /\ Range(IdsOf(list)) \in SUBSET Nat /\ IsFiniteSet(Range(IdsOf(list)))
           /\ Range(IdsOf(list)) = {list[k].id : k \in 1 .. n}
           /\ IdsOf(list) \in [1 .. n -> Range(IdsOf(list))]
           /\ Len(IdsOf(list)) = n
<1> DEFINE ids == IdsOf(list)
<1>1. ids = [k \in 1 .. n |-> list[k].id]
  BY DEF IdsOf, IsList
<1>2. Range(ids) = {list[k].id : k \in 1 .. n}
  BY <1>1 DEF Range
<1>3. Range(ids) \in SUBSET Nat
  BY <1>2 DEF IsList
<1>4. IsFiniteSet(1 .. n)
  BY FS_Interval
<1>5. ids \in Surjection(1 .. n, Range(ids))
  BY <1>1, <1>2 DEF Surjection
<1> HIDE DEF ids
<1>6. IsFiniteSet(Range(ids))
  BY <1>4, <1>5, FS_Surjection
<1>7. ids \in [1 .. n -> Nat]
  BY <1>1, <1>2, <1>3
<1>8. Len(ids) = n
  BY <1>7
<1> QED
  BY <1>2, <1>3, <1>5, <1>6, <1>8 DEF ids, Surjection

(***************************************************************************)
(* In order, every id of the list comes once, with an element of the list. *)
(***************************************************************************)
LEMMA ByIdFacts ==
    ASSUME NEW n \in Nat, NEW list, IsList(list, n)
    PROVE  LET c == Cardinality(Range(IdsOf(list)))
               L == ById(list)
           IN  /\ c \in Nat /\ IsList(L, c)
               /\ \A k \in 1 .. c : \E i \in 1 .. n : L[k] = list[i]
               /\ IdsOf(L) = Sorted(IdsOf(list))
               /\ IsInjective(IdsOf(L)) /\ Range(IdsOf(L)) = Range(IdsOf(list))
<1> DEFINE c == Cardinality(Range(IdsOf(list)))
           L == ById(list)
           ids == Sorted(IdsOf(list))
<1>1. /\ Range(IdsOf(list)) \in SUBSET Nat /\ IsFiniteSet(Range(IdsOf(list)))
      /\ Range(IdsOf(list)) = {list[k].id : k \in 1 .. n}
  BY IdsOfList
<1>2. /\ c \in Nat /\ ids \in [1 .. c -> Range(IdsOf(list))]
      /\ IsInjective(ids) /\ Range(ids) = Range(IdsOf(list))
  BY <1>1, SortedFacts
<1> HIDE DEF c
<1>3. L = [k \in 1 .. c |-> LastOf(list, ids[k])]
  BY <1>2, Zenon DEF ById
<1> HIDE DEF L, ids
<1>4. ASSUME NEW k \in 1 .. c PROVE \E i \in 1 .. n : L[k] = list[i] /\ L[k].id = ids[k]
  <2> DEFINE P == {i \in DOMAIN list : list[i].id = ids[k]}
  <2>1. P \in SUBSET (1 .. n) /\ P # {}
    BY <1>1, <1>2 DEF IsList
  <2>2. Max(P) \in P
    <3> HIDE DEF P
    <3> QED
      BY <2>1, GreatestElement
  <2>3. L[k] = list[Max(P)]
    BY <1>3 DEF LastOf
  <2> QED
    BY <2>1, <2>2, <2>3
<1>5. DOMAIN L = 1 .. c
  BY <1>3
<1>6. IsList(L, c)
  BY <1>4, <1>5 DEF IsList
<1>7. IdsOf(L) = ids
  BY <1>2, <1>4, <1>5 DEF IdsOf
<1> QED
  BY <1>2, <1>4, <1>6, <1>7 DEF c, L, ids

(***************************************************************************)
(* A list without repeated ids is only rearranged.                         *)
(***************************************************************************)
LEMMA ByIdPermutes ==
    ASSUME NEW n \in Nat, NEW list, IsList(list, n), IsInjective(IdsOf(list))
    PROVE  /\ Cardinality(Range(IdsOf(list))) = n
           /\ IsList(ById(list), n)
           /\ \E pi \in [1 .. n -> 1 .. n] :
                 /\ \A i, j \in 1 .. n : pi[i] = pi[j] => i = j
                 /\ \A k \in 1 .. n : ById(list)[k] = list[pi[k]]
<1> DEFINE c == Cardinality(Range(IdsOf(list)))
           L == ById(list)
<1>1. c = n
  <2>1. IdsOf(list) \in Injection(1 .. n, Range(IdsOf(list)))
    BY IdsOfList DEF Injection
  <2>2. IdsOf(list) \in Surjection(1 .. n, Range(IdsOf(list)))
    BY IdsOfList DEF Surjection, Range
  <2>3. IsFiniteSet(Range(IdsOf(list)))
    BY IdsOfList
  <2>4. Cardinality(1 .. n) = c
    BY <2>1, <2>2, <2>3, FS_Injection
  <2>5. 1 \in Int /\ n \in Int /\ (1 > n => n = 0) /\ n - 1 + 1 = n
    OBVIOUS
  <2> HIDE DEF c
  <2> QED
    BY <2>4, <2>5, FS_Interval
<1>2. /\ c \in Nat /\ IsList(L, c) /\ IsInjective(IdsOf(L))
      /\ \A k \in 1 .. c : \E i \in 1 .. n : L[k] = list[i]
  BY ByIdFacts
<1> HIDE DEF c, L
<1> DEFINE pi == [k \in 1 .. n |-> CHOOSE i \in 1 .. n : L[k] = list[i]]
<1>3. \A k \in 1 .. n : pi[k] \in 1 .. n /\ L[k] = list[pi[k]]
  BY <1>1, <1>2
<1>4. pi \in [1 .. n -> 1 .. n]
  BY <1>3
<1> HIDE DEF pi
<1>5. ASSUME NEW i \in 1 .. n, NEW j \in 1 .. n, pi[i] = pi[j] PROVE i = j
  <2>1. L[i].id = L[j].id
    BY <1>3, <1>5
  <2> QED
    BY <1>1, <1>2, <2>1 DEF IsInjective, IdsOf, IsList
<1> QED
  BY <1>1, <1>2, <1>3, <1>4, <1>5 DEF c, L
-----------------------------------------------------------------------------
(* What a list and a request determine. *)

IsNonceList(list, n) ==
    /\ IsList(list, n)
    /\ \A k \in 1 .. n : list[k].nonce.R1 \in Scalar /\ list[k].nonce.R2 \in Scalar

LEMMA AggregateType ==
    ASSUME NEW n \in Nat, NEW list, IsNonceList(list, n)
    PROVE  /\ AggrPubnonces(NoncesOf(list)).R1 \in Scalar
           /\ AggrPubnonces(NoncesOf(list)).R2 \in Scalar
<1> DEFINE f1 == [k \in 1 .. n |-> list[k].nonce.R1]
           f2 == [k \in 1 .. n |-> list[k].nonce.R2]
<1>1. f1 \in [1 .. n -> Int] /\ f2 \in [1 .. n -> Int]
  BY ScalarIsInt DEF IsNonceList
<1>2. /\ AggrPubnonces(NoncesOf(list)).R1 = SumMod(f1)
      /\ AggrPubnonces(NoncesOf(list)).R2 = SumMod(f2)
  <2>1. NoncesOf(list) = [k \in 1 .. n |-> list[k].nonce]
    BY DEF NoncesOf, IsNonceList, IsList
  <2>2. [k \in DOMAIN NoncesOf(list) |-> NoncesOf(list)[k].R1] = f1
    BY <2>1
  <2>3. [k \in DOMAIN NoncesOf(list) |-> NoncesOf(list)[k].R2] = f2
    BY <2>1
  <2> HIDE DEF f1, f2
  <2> QED
    BY <2>2, <2>3 DEF AggrPubnonces
<1> HIDE DEF f1, f2
<1> QED
  BY <1>1, <1>2, SumModType

LEMMA AggregateIgnoresOrder ==
    ASSUME NEW n \in Nat, NEW list, IsNonceList(list, n), NEW L, IsNonceList(L, n),
           NEW pi \in [1 .. n -> 1 .. n],
           \A i, j \in 1 .. n : pi[i] = pi[j] => i = j,
           \A k \in 1 .. n : L[k] = list[pi[k]]
    PROVE  AggrPubnonces(NoncesOf(L)) = AggrPubnonces(NoncesOf(list))
<1> DEFINE f1 == [k \in 1 .. n |-> list[k].nonce.R1]
           f2 == [k \in 1 .. n |-> list[k].nonce.R2]
           g1 == [k \in 1 .. n |-> L[k].nonce.R1]
           g2 == [k \in 1 .. n |-> L[k].nonce.R2]
<1>1. f1 \in [1 .. n -> Int] /\ f2 \in [1 .. n -> Int]
  BY ScalarIsInt DEF IsNonceList
<1>2. AggrPubnonces(NoncesOf(list)) = [R1 |-> SumMod(f1), R2 |-> SumMod(f2)]
  <2>1. NoncesOf(list) = [k \in 1 .. n |-> list[k].nonce]
    BY DEF NoncesOf, IsNonceList, IsList
  <2>2. [k \in DOMAIN NoncesOf(list) |-> NoncesOf(list)[k].R1] = f1
    BY <2>1
  <2>3. [k \in DOMAIN NoncesOf(list) |-> NoncesOf(list)[k].R2] = f2
    BY <2>1
  <2> HIDE DEF f1, f2
  <2> QED
    BY <2>2, <2>3 DEF AggrPubnonces
<1>3. AggrPubnonces(NoncesOf(L)) = [R1 |-> SumMod(g1), R2 |-> SumMod(g2)]
  <2>1. NoncesOf(L) = [k \in 1 .. n |-> L[k].nonce]
    BY DEF NoncesOf, IsNonceList, IsList
  <2>2. [k \in DOMAIN NoncesOf(L) |-> NoncesOf(L)[k].R1] = g1
    BY <2>1
  <2>3. [k \in DOMAIN NoncesOf(L) |-> NoncesOf(L)[k].R2] = g2
    BY <2>1
  <2> HIDE DEF g1, g2
  <2> QED
    BY <2>2, <2>3 DEF AggrPubnonces
<1>4. g1 = [k \in 1 .. n |-> f1[pi[k]]] /\ g2 = [k \in 1 .. n |-> f2[pi[k]]]
  OBVIOUS
<1> HIDE DEF f1, f2, g1, g2
<1>5. SumMod(g1) = SumMod(f1) /\ SumMod(g2) = SumMod(f2)
  BY <1>1, <1>4, SumModPermute, ZenonT(60)
<1> QED
  BY <1>2, <1>3, <1>5

LEMMA AggregateById ==
    ASSUME NEW n \in Nat, NEW list, IsNonceList(list, n), IsInjective(IdsOf(list))
    PROVE  /\ AggrPubnonces(NoncesOf(ById(list))) = AggrPubnonces(NoncesOf(list))
           /\ IsNonceList(ById(list), n)
<1> DEFINE L == ById(list)
<1>1. /\ IsList(L, n)
      /\ \E pi \in [1 .. n -> 1 .. n] :
            /\ \A i, j \in 1 .. n : pi[i] = pi[j] => i = j
            /\ \A k \in 1 .. n : L[k] = list[pi[k]]
  <2>1. IsList(list, n)
    BY DEF IsNonceList
  <2>2. /\ IsList(ById(list), n)
        /\ \E pi \in [1 .. n -> 1 .. n] :
              /\ \A i, j \in 1 .. n : pi[i] = pi[j] => i = j
              /\ \A k \in 1 .. n : ById(list)[k] = list[pi[k]]
    BY <2>1, ByIdPermutes
  <2> QED
    BY <2>2
<1> HIDE DEF L
<1>2. PICK pi \in [1 .. n -> 1 .. n] :
            /\ \A i, j \in 1 .. n : pi[i] = pi[j] => i = j
            /\ \A k \in 1 .. n : L[k] = list[pi[k]]
  BY <1>1, Zenon
<1>3. IsNonceList(L, n)
  <2>1. ASSUME NEW k \in 1 .. n
        PROVE  L[k].nonce.R1 \in Scalar /\ L[k].nonce.R2 \in Scalar
    <3>1. pi[k] \in 1 .. n /\ L[k] = list[pi[k]]
      BY <1>2
    <3> QED
      BY <3>1 DEF IsNonceList
  <2> QED
    BY <1>1, <2>1, Zenon DEF IsNonceList
<1>4. AggrPubnonces(NoncesOf(L)) = AggrPubnonces(NoncesOf(list))
  BY <1>2, <1>3, AggregateIgnoresOrder, ZenonT(60)
<1> QED
  BY <1>3, <1>4 DEF L

(***************************************************************************)
(* The values of a session, when it has some.                              *)
(***************************************************************************)
LEMMA SessionValuesOk ==
    ASSUME NEW key, NEW list, NEW msg, NEW tweaks,
           NEW v, v = SessionValues(key, list, msg, tweaks), v.ok
    PROVE  LET ctx == TweakApplyAll(TweakContext(key), tweaks)
               agg == AggrPubnonces(NoncesOf(list))
           IN  /\ ctx.ok
               /\ v.val.ids = IdsOf(list)
               /\ v.val.ctx = ctx.val
               /\ v.val.b # 0
               /\ v.val.b = NonceCoefHash(Sorted(IdsOf(list)), agg.R1, agg.R2,
                                          XOnly(ctx.val.q), msg)
               /\ v.val.R = LET R == (agg.R1 + Times(agg.R2, v.val.b)) % Order
                            IN  IF R = Identity THEN MulG(1) ELSE R
               /\ v.val.e # 0
               /\ v.val.e = ChallengeHash(XOnly(v.val.R), XOnly(ctx.val.q), msg)
<1> DEFINE ctx == TweakApplyAll(TweakContext(key), tweaks)
           agg == AggrPubnonces(NoncesOf(list))
           nonce == SigningNonce(IdsOf(list), agg, ctx.val, msg)
           e == Challenge(nonce.val.R, ctx.val, msg)
<1>1. ctx.ok /\ v = ValuesUnder(ctx.val, list, msg)
  BY Zenon DEF SessionValues
<1>2. /\ nonce.ok /\ e.ok
      /\ v = Ok([ids |-> IdsOf(list), ctx |-> ctx.val, b |-> nonce.val.b,
                 R |-> nonce.val.R, e |-> e.val])
  <2> HIDE DEF ctx
  <2> QED
    BY <1>1, Zenon DEF ValuesUnder
<1> HIDE DEF ctx, agg
<1> DEFINE b == NonceCoefHash(Sorted(IdsOf(list)), agg.R1, agg.R2, XOnly(ctx.val.q), msg)
           R == (agg.R1 + Times(agg.R2, b)) % Order
           F == IF R = Identity THEN MulG(1) ELSE R
<1>3. b # 0 /\ nonce = Ok([b |-> b, R |-> F])
  <2>1. ~Err(Error("Runtime")).ok
    BY DEF Err
  <2> QED
    BY <1>2, <2>1, Zenon DEF SigningNonce
<1>4. nonce.val.b = b /\ nonce.val.R = F
  <2> HIDE DEF b, F, nonce
  <2> QED
    BY <1>3 DEF Ok
<1> DEFINE c == ChallengeHash(XOnly(nonce.val.R), XOnly(ctx.val.q), msg)
<1> HIDE DEF nonce
<1>5. c # 0 /\ e = Ok(c)
  <2>1. ~Err(Error("Runtime")).ok
    BY DEF Err
  <2> QED
    BY <1>2, <2>1, Zenon DEF Challenge
<1>6. e.val = c
  <2> HIDE DEF c, e
  <2> QED
    BY <1>5 DEF Ok
<1> HIDE DEF c, e, b, F
<1>7. /\ v.val.ids = IdsOf(list) /\ v.val.ctx = ctx.val /\ v.val.b = b
      /\ v.val.R = F /\ v.val.e = c
  BY <1>2, <1>4, <1>6 DEF Ok
<1>8. c = ChallengeHash(XOnly(v.val.R), XOnly(ctx.val.q), msg)
  BY <1>4, <1>7 DEF c
<1>9. b = NonceCoefHash(Sorted(IdsOf(list)), agg.R1, agg.R2, XOnly(ctx.val.q), msg)
  BY DEF b
<1>10. F = LET Q == (agg.R1 + Times(agg.R2, v.val.b)) % Order
           IN  IF Q = Identity THEN MulG(1) ELSE Q
  BY <1>7 DEF F
<1> QED
  BY <1>1, <1>3, <1>5, <1>7, <1>8, <1>9, <1>10 DEF ctx, agg

(***************************************************************************)
(* Lists with the same ids and the same aggregate nonce determine the same *)
(* values.                                                                 *)
(***************************************************************************)
SameValues(v, w) == v.ctx = w.ctx /\ v.b = w.b /\ v.R = w.R /\ v.e = w.e

LEMMA SessionValuesSame ==
    ASSUME NEW key, NEW l1, NEW l2, NEW msg, NEW tweaks,
           Range(IdsOf(l1)) = Range(IdsOf(l2)),
           AggrPubnonces(NoncesOf(l1)) = AggrPubnonces(NoncesOf(l2)),
           SessionValues(key, l1, msg, tweaks).ok
    PROVE  /\ SessionValues(key, l2, msg, tweaks).ok
           /\ SameValues(SessionValues(key, l1, msg, tweaks).val,
                         SessionValues(key, l2, msg, tweaks).val)
<1> DEFINE ctx == TweakApplyAll(TweakContext(key), tweaks)
           n1 == SigningNonce(IdsOf(l1), AggrPubnonces(NoncesOf(l1)), ctx.val, msg)
           n2 == SigningNonce(IdsOf(l2), AggrPubnonces(NoncesOf(l2)), ctx.val, msg)
           e1 == Challenge(n1.val.R, ctx.val, msg)
           e2 == Challenge(n2.val.R, ctx.val, msg)
           v1 == SessionValues(key, l1, msg, tweaks)
           v2 == SessionValues(key, l2, msg, tweaks)
<1>1. Sorted(IdsOf(l1)) = Sorted(IdsOf(l2))
  BY DEF Sorted
<1>2. n1 = n2
  BY <1>1, Zenon DEF SigningNonce
<1>3. /\ ctx.ok /\ v1 = ValuesUnder(ctx.val, l1, msg) /\ v2 = ValuesUnder(ctx.val, l2, msg)
  BY Zenon DEF SessionValues
<1>4. /\ n1.ok /\ e1.ok
      /\ v1 = Ok([ids |-> IdsOf(l1), ctx |-> ctx.val, b |-> n1.val.b, R |-> n1.val.R,
                  e |-> e1.val])
  <2> HIDE DEF ctx, v2
  <2> QED
    BY <1>3, Zenon DEF ValuesUnder
<1>5. e1 = e2
  BY <1>2
<1> HIDE DEF ctx, v1
<1>6. v2 = Ok([ids |-> IdsOf(l2), ctx |-> ctx.val, b |-> n2.val.b, R |-> n2.val.R,
               e |-> e2.val])
  <2> HIDE DEF v2
  <2> QED
    BY <1>2, <1>3, <1>4, <1>5, Zenon DEF ValuesUnder
<1> HIDE DEF n1, n2, e1, e2, v2
<1>7. v2.ok /\ SameValues(v1.val, v2.val)
  BY <1>2, <1>4, <1>5, <1>6 DEF Ok, SameValues
<1> QED
  BY <1>7 DEF v1, v2

LEMMA CoefficientIgnoresOrder ==
    ASSUME NEW ids, NEW jds, Range(ids) = Range(jds), IsInjective(ids), IsInjective(jds), NEW i
    PROVE  LagrangeCoefficient(ids, i) = LagrangeCoefficient(jds, i)
BY LagrangeIgnoresOrder, Zenon DEF LagrangeCoefficient

LEMMA VerifySame ==
    ASSUME NEW psig, NEW id, NEW pubnonce, NEW pubshare, NEW v, NEW w, SameValues(v, w),
           LagrangeCoefficient(v.ids, id) = LagrangeCoefficient(w.ids, id)
    PROVE  PartialVerify(psig, id, pubnonce, pubshare, v)
              = PartialVerify(psig, id, pubnonce, pubshare, w)
BY Zenon DEF PartialVerify, SameValues
-----------------------------------------------------------------------------
(* When a partial signature passes verification. *)

LEMMA EquivOpposite ==
    ASSUME NEW x \in Int, NEW y \in Int, Equiv(x, y) PROVE Equiv(-x, -y)
<1>1. Equiv(-1, -1) /\ -1 \in Int
  BY DEF Equiv
<1>2. Equiv((-1) * x, (-1) * y)
  BY <1>1, EquivMul
<1>3. (-1) * x = -x /\ (-1) * y = -y
  OBVIOUS
<1> QED
  BY <1>2, <1>3

LEMMA TimesType ==
    ASSUME NEW x \in Int, NEW y \in Int
    PROVE  Times(x, y) \in Scalar /\ Times(x, y) \in Int /\ Equiv(Times(x, y), x * y)
<1>1. x * y \in Int
  OBVIOUS
<1> QED
  BY <1>1, ModType, EquivMod, ScalarIsInt DEF Times

(***************************************************************************)
(* The nonce that a signer uses is the one its public nonce stands for,    *)
(* and both are negated with the final nonce.                              *)
(***************************************************************************)
LEMMA NonceAnswered ==
    ASSUME NEW k1 \in Scalar, NEW k2 \in Scalar, NEW b \in Scalar
    PROVE  LET sum == (MulG(k1) + Times(MulG(k2), b)) % Order
           IN  /\ sum \in Scalar
               /\ Equiv(k1 + Times(b, k2), sum)
               /\ Equiv(Neg(k1) + Times(b, Neg(k2)), Neg(sum))
<1> DEFINE x == b * k2
           y == k1 + Times(b, k2)
           sum == (MulG(k1) + Times(MulG(k2), b)) % Order
<1>1. k1 \in Int /\ k2 \in Int /\ b \in Int /\ x \in Int /\ -x \in Int /\ -k1 \in Int
  BY ScalarIsInt
<1>2. Times(b, k2) \in Int /\ Equiv(Times(b, k2), x)
  BY <1>1, TimesType
<1>3. MulG(k1) + Times(MulG(k2), b) = y
  <2>1. MulG(k1) = k1 /\ MulG(k2) = k2
    BY ModOfScalar DEF MulG
  <2>2. b * k2 = k2 * b
    BY <1>1
  <2> QED
    BY <2>1, <2>2 DEF Times
<1>4. y \in Int
  BY <1>1, <1>2
<1>5. sum = y % Order
  BY <1>3
<1> HIDE DEF sum
<1>6. sum \in Scalar /\ sum \in Int /\ Equiv(y, sum)
  BY <1>4, <1>5, ModType, EquivMod, ScalarIsInt DEF Equiv
<1>7. Equiv(y, k1 + x)
  <2>1. Equiv(k1, k1)
    BY DEF Equiv
  <2> HIDE DEF x
  <2> QED
    BY <1>1, <1>2, <2>1, EquivAdd
<1>8. Neg(k1) \in Int /\ Neg(k2) \in Int /\ Equiv(Neg(k1), -k1) /\ Equiv(Neg(k2), -k2)
  BY <1>1, NegEquiv, ScalarIsInt
<1>9. Times(b, Neg(k2)) \in Int /\ Equiv(Times(b, Neg(k2)), -x)
  <2>1. Times(b, Neg(k2)) \in Int /\ Equiv(Times(b, Neg(k2)), b * Neg(k2))
    BY <1>1, <1>8, TimesType
  <2>2. Equiv(b * Neg(k2), b * (-k2))
    <3>1. Equiv(b, b) /\ -k2 \in Int
      BY <1>1 DEF Equiv
    <3> QED
      BY <1>1, <1>8, <3>1, EquivMul
  <2>3. b * (-k2) = -x
    BY <1>1
  <2> QED
    BY <2>1, <2>2, <2>3 DEF Equiv
<1>10. Equiv(Neg(k1) + Times(b, Neg(k2)), (-k1) + (-x))
  BY <1>1, <1>8, <1>9, EquivAdd
<1>11. Equiv(Neg(sum), -(k1 + x))
  <2>1. Equiv(Neg(sum), -sum)
    BY <1>6, NegEquiv
  <2>2. k1 + x \in Int /\ Equiv(sum, k1 + x)
    <3>1. k1 + x \in Int
      BY <1>1
    <3> QED
      BY <3>1, <1>6, <1>7 DEF Equiv
  <2>3. Equiv(-sum, -(k1 + x))
    BY <1>6, <2>2, EquivOpposite
  <2> QED
    BY <2>1, <2>3 DEF Equiv
<1>12. (-k1) + (-x) = -(k1 + x)
  <2> HIDE DEF x
  <2> QED
    BY <1>1
<1>13. Equiv(Neg(k1) + Times(b, Neg(k2)), Neg(sum))
  BY <1>10, <1>11, <1>12 DEF Equiv
<1> QED
  BY <1>6, <1>13 DEF sum

(***************************************************************************)
(* The point that verification compares with is the answer of the holder   *)
(* of the nonce and the share, and no other scalar stands for it.          *)
(***************************************************************************)
LEMMA AnswerIsExpected ==
    ASSUME NEW st, st.secnonce.k1 \in Scalar, st.secnonce.k2 \in Scalar,
           st.secshare \in Scalar, NEW a \in Scalar,
           NEW v, v.b \in Scalar, v.e \in Scalar, v.ctx.gacc \in Sign
    PROVE  LET k    == PubNonce(st.secnonce)
               sum  == (k.R1 + Times(k.R2, v.b)) % Order
               Re_s == IF HasEvenY(v.R) THEN sum ELSE Neg(sum)
               g    == Times(EvenSign(v.ctx), v.ctx.gacc)
           IN  /\ PartialSignature(st, a, v) \in Scalar
               /\ PartialSignature(st, a, v)
                     = (Re_s + Times(Times(v.e, a), Times(g, MulG(st.secshare)))) % Order
<1> DEFINE k == PubNonce(st.secnonce)
           sum == (k.R1 + Times(k.R2, v.b)) % Order
           Re_s == IF HasEvenY(v.R) THEN sum ELSE Neg(sum)
           g == Times(EvenSign(v.ctx), v.ctx.gacc)
           K == EvenYNonce(st.secnonce, v.R)
           D == Times(Times(v.e, a), Times(g, st.secshare))
           n == K.k1 + Times(v.b, K.k2)
<1>1. MulG(st.secshare) = st.secshare
  BY ModOfScalar DEF MulG
<1>2. D \in Int
  <2>1. /\ EvenSign(v.ctx) \in Int /\ v.ctx.gacc \in Int /\ v.e \in Int /\ a \in Int
        /\ st.secshare \in Int
    BY SignIsScalar, ScalarIsInt DEF EvenSign, Sign
  <2>2. g \in Int /\ Times(v.e, a) \in Int
    BY <2>1, TimesType
  <2> HIDE DEF g
  <2>3. Times(g, st.secshare) \in Int
    BY <2>1, <2>2, TimesType
  <2> QED
    BY <2>2, <2>3, TimesType
<1>3. sum = (MulG(st.secnonce.k1) + Times(MulG(st.secnonce.k2), v.b)) % Order
  BY DEF PubNonce
<1>4. /\ sum \in Scalar
      /\ Equiv(st.secnonce.k1 + Times(v.b, st.secnonce.k2), sum)
      /\ Equiv(Neg(st.secnonce.k1) + Times(v.b, Neg(st.secnonce.k2)), Neg(sum))
  BY <1>3, NonceAnswered
<1> HIDE DEF sum, D
<1>5. n \in Int /\ Re_s \in Int /\ Equiv(n, Re_s)
  <2>1. CASE HasEvenY(v.R)
    <3>1. K = st.secnonce /\ Re_s = sum
      BY <2>1 DEF EvenYNonce
    <3>2. Times(v.b, st.secnonce.k2) \in Int /\ st.secnonce.k1 \in Int /\ sum \in Int
      BY <1>4, TimesType, ScalarIsInt
    <3> QED
      BY <1>4, <3>1, <3>2
  <2>2. CASE ~HasEvenY(v.R)
    <3>1. K.k1 = Neg(st.secnonce.k1) /\ K.k2 = Neg(st.secnonce.k2) /\ Re_s = Neg(sum)
      BY <2>2 DEF EvenYNonce
    <3>2. /\ Neg(st.secnonce.k1) \in Int /\ Neg(st.secnonce.k2) \in Int /\ Neg(sum) \in Int
      BY <1>4, NegEquiv, ScalarIsInt
    <3>3. Times(v.b, Neg(st.secnonce.k2)) \in Int
      BY <3>2, TimesType, ScalarIsInt
    <3> HIDE DEF K, Re_s
    <3> QED
      BY <1>4, <3>1, <3>2, <3>3
  <2> QED
    BY <2>1, <2>2
<1>6. PartialSignature(st, a, v) = (n + D) % Order
  BY DEF PartialSignature, D
<1> HIDE DEF n, Re_s
<1>7. Equiv(n + D, Re_s + D) /\ n + D \in Int
  <2>1. Equiv(D, D)
    BY DEF Equiv
  <2>2. n + D \in Int
    BY <1>2, <1>5
  <2>3. Equiv(n + D, Re_s + D)
    BY <1>2, <1>5, <2>1, EquivAdd, Zenon
  <2> QED
    BY <2>2, <2>3
<1>8. PartialSignature(st, a, v) \in Scalar
  BY <1>6, <1>7, ModType
<1>9. PartialSignature(st, a, v) = (Re_s + D) % Order
  BY <1>6, <1>7 DEF Equiv
<1> QED
  BY <1>1, <1>8, <1>9 DEF D, Re_s, sum

(***************************************************************************)
(* Verification accepts the answer of the holder and nothing else.         *)
(***************************************************************************)
LEMMA VerifiedIsAnswer ==
    ASSUME NEW st, st.secnonce.k1 \in Scalar, st.secnonce.k2 \in Scalar,
           st.secshare \in Scalar, NEW psig \in Scalar, NEW id,
           NEW v, v.b \in Scalar, v.e \in Scalar, v.ctx.gacc \in Sign,
           NEW a \in Scalar, LagrangeCoefficient(v.ids, id) = Ok(a)
    PROVE  PartialVerify(psig, id, PubNonce(st.secnonce), MulG(st.secshare), v).ok
              <=> /\ ~IsIdentity(PubNonce(st.secnonce))
                  /\ psig = PartialSignature(st, a, v)
<1> DEFINE k == PubNonce(st.secnonce)
           sum == (k.R1 + Times(k.R2, v.b)) % Order
           Re_s == IF HasEvenY(v.R) THEN sum ELSE Neg(sum)
           g == Times(EvenSign(v.ctx), v.ctx.gacc)
           E == (Re_s + Times(Times(v.e, a), Times(g, MulG(st.secshare)))) % Order
           c == LagrangeCoefficient(v.ids, id)
           E0 == (Re_s + Times(Times(v.e, c.val), Times(g, MulG(st.secshare)))) % Order
<1>1. PartialSignature(st, a, v) = E
  BY AnswerIsExpected
<1>2. MulG(psig) = psig
  BY ModOfScalar DEF MulG
<1>3. c.ok /\ c.val = a
  BY DEF Ok
<1>4. E0 = E
  BY <1>3
<1>5. PartialVerify(psig, id, k, MulG(st.secshare), v).ok
         <=> ~IsIdentity(k) /\ MulG(psig) = E0
  <2>1. /\ ~Err(Naming("InvalidContribution", id)).ok /\ Ok(id).ok
    BY DEF Err, Ok
  <2> HIDE DEF k
  <2> QED
    BY <1>3, <2>1, Zenon DEF PartialVerify
<1> HIDE DEF E, E0, k
<1> QED
  BY <1>1, <1>2, <1>4, <1>5 DEF k

-----------------------------------------------------------------------------
(* When the combined signature passes verification. *)

LEMMA EquivChain ==
    ASSUME NEW x \in Int, NEW y \in Int, NEW z \in Int, Equiv(x, y), Equiv(y, z)
    PROVE  Equiv(x, z)
BY DEF Equiv

(***************************************************************************)
(* A partial signature that is verified, in terms of integers.             *)
(***************************************************************************)
LEMMA VerifiedEquiv ==
    ASSUME NEW psig \in Int, NEW sum \in Int, NEW sign \in Int, NEW re \in Int,
           Equiv(re, sign * sum), NEW e \in Int, NEW a \in Int, NEW E \in Int, NEW g \in Int,
           NEW Y \in Int,
           MulG(psig) = (re + Times(Times(e, a), Times(Times(E, g), Y))) % Order
    PROVE  Equiv(psig, sign * sum + (e * (E * g)) * ((Y * a) % Order))
<1> DEFINE A == Times(e, a)
           B == Times(E, g)
           C == Times(B, Y)
           x == Times(A, C)
           G == E * g
           D == e * a
<1>1. /\ A \in Int /\ Equiv(A, D) /\ D \in Int
      /\ B \in Int /\ Equiv(B, G) /\ G \in Int
  BY TimesType
<1> HIDE DEF A, B, D, G
<1>2. C \in Int /\ Equiv(C, B * Y) /\ B * Y \in Int /\ G * Y \in Int
  BY <1>1, TimesType
<1>3. Equiv(C, G * Y)
  <2>1. Equiv(Y, Y)
    BY DEF Equiv
  <2>2. Equiv(B * Y, G * Y)
    BY <1>1, <2>1, EquivMul
  <2> HIDE DEF C
  <2> QED
    BY <1>2, <2>2, EquivChain
<1> HIDE DEF C
<1>4. x \in Int /\ Equiv(x, A * C) /\ A * C \in Int
  BY <1>1, <1>2, TimesType
<1>5. Equiv(A * C, D * (G * Y)) /\ D * (G * Y) \in Int
  <2> DEFINE H == G * Y
  <2> HIDE DEF H
  <2>1. H \in Int /\ Equiv(C, H)
    BY <1>2, <1>3 DEF H
  <2>2. Equiv(A * C, D * H) /\ D * H \in Int
    BY <1>1, <1>2, <2>1, EquivMul
  <2> QED
    BY <2>2 DEF H
<1> HIDE DEF x
<1>6. Equiv(x, D * (G * Y))
  BY <1>4, <1>5, EquivChain
<1>7. D * (G * Y) = (e * G) * (Y * a)
  BY <1>1 DEF D
<1>8. /\ (Y * a) % Order \in Int /\ Y * a \in Int /\ Equiv(Y * a, (Y * a) % Order)
      /\ e * G \in Int
  <2>1. Y * a \in Int /\ e * G \in Int
    BY <1>1
  <2> DEFINE M == Y * a
  <2> HIDE DEF M
  <2>2. M % Order \in Int /\ Equiv(M, M % Order)
    BY <2>1, EquivMod DEF M, Equiv
  <2> QED
    BY <2>1, <2>2 DEF M
<1>9. Equiv((e * G) * (Y * a), (e * G) * ((Y * a) % Order))
  <2>1. Equiv(e * G, e * G)
    BY DEF Equiv
  <2> QED
    BY <1>8, <2>1, EquivMul
<1> DEFINE y == (e * G) * (Y * a)
           z == (e * G) * ((Y * a) % Order)
<1>10. y \in Int /\ z \in Int /\ Equiv(x, y) /\ Equiv(y, z)
  <2>1. y \in Int /\ z \in Int
    BY <1>8
  <2>2. Equiv(x, y) /\ Equiv(y, z)
    BY <1>6, <1>7, <1>9
  <2> QED
    BY <2>1, <2>2
<1> HIDE DEF y, z
<1>11. Equiv(x, z)
  BY <1>4, <1>10, EquivChain
<1>12. sign * sum \in Int
  OBVIOUS
<1>13. Equiv(re + x, sign * sum + z)
  BY <1>4, <1>10, <1>11, <1>12, EquivAdd
<1>14. Equiv(psig, re + x)
  <2>1. psig % Order = (re + x) % Order
    BY DEF MulG, x, A, B, C
  <2> QED
    BY <2>1 DEF Equiv
<1>15. re + x \in Int /\ sign * sum + z \in Int
  BY <1>4, <1>10, <1>12
<1> QED
  BY <1>13, <1>14, <1>15, EquivChain DEF z, G

(***************************************************************************)
(* Sums of multiples.                                                      *)
(***************************************************************************)
LEMMA SumModTimes ==
    ASSUME NEW n \in Nat, NEW c \in Int, NEW h \in [1 .. n -> Int], NEW s \in [1 .. n -> Int],
           \A i \in 1 .. n : Equiv(s[i], c * h[i])
    PROVE  Equiv(SumMod(s), c * SumMod(h))
<1> DEFINE f == [i \in 1 .. n |-> 0]
<1>1. f \in [1 .. n -> Int] /\ SumMod(f) = 0 /\ SumMod(h) \in Int
  BY SumModZero, SumModType, ScalarIsInt
<1>2. \A i \in 1 .. n : Equiv(s[i], f[i] + c * h[i])
  <2>1. ASSUME NEW i \in 1 .. n PROVE f[i] + c * h[i] = c * h[i]
    OBVIOUS
  <2> QED
    BY <2>1
<1> HIDE DEF f
<1>3. Equiv(SumMod(s), SumMod(f) + c * SumMod(h))
  BY <1>1, <1>2, SumModLinear
<1>4. SumMod(f) + c * SumMod(h) = c * SumMod(h)
  BY <1>1
<1> QED
  BY <1>3, <1>4

(***************************************************************************)
(* The final nonce of a list, before the generator stands in for it.       *)
(***************************************************************************)
FinalNonce(list, v) ==
    (AggrPubnonces(NoncesOf(list)).R1 + Times(AggrPubnonces(NoncesOf(list)).R2, v.b)) % Order

(***************************************************************************)
(* The part of a partial signature that verification expects of the nonce. *)
(***************************************************************************)
NoncePart(list, v) ==
    [k \in DOMAIN list |-> (list[k].nonce.R1 + Times(list[k].nonce.R2, v.b)) % Order]

LEMMA NoncePartsAddUp ==
    ASSUME NEW n \in Nat, NEW L, IsNonceList(L, n), NEW v, v.b \in Scalar
    PROVE  /\ NoncePart(L, v) \in [1 .. n -> Scalar]
           /\ SumMod(NoncePart(L, v)) = FinalNonce(L, v)
<1> DEFINE f == [k \in DOMAIN NoncesOf(L) |-> NoncesOf(L)[k].R1]
           h == [k \in DOMAIN NoncesOf(L) |-> NoncesOf(L)[k].R2]
           N == NoncePart(L, v)
           b == v.b
<1>1. DOMAIN L = 1 .. n /\ DOMAIN NoncesOf(L) = 1 .. n
  BY DEF IsNonceList, IsList, NoncesOf
<1>2. ASSUME NEW k \in 1 .. n
      PROVE  /\ f[k] = L[k].nonce.R1 /\ h[k] = L[k].nonce.R2
             /\ f[k] \in Int /\ h[k] \in Int
  BY <1>1, ScalarIsInt DEF NoncesOf, IsNonceList
<1>3. f \in [1 .. n -> Int] /\ h \in [1 .. n -> Int]
  BY <1>1, <1>2
<1>4. AggrPubnonces(NoncesOf(L)).R1 = SumMod(f) /\ AggrPubnonces(NoncesOf(L)).R2 = SumMod(h)
  BY DEF AggrPubnonces
<1> HIDE DEF f, h, b
<1>5. b \in Int
  BY ScalarIsInt DEF b
<1>6. ASSUME NEW x \in Int, NEW y \in Int
      PROVE  /\ (x + Times(y, b)) % Order \in Scalar
             /\ Equiv((x + Times(y, b)) % Order, x + b * y)
  <2>0. Times(y, b) \in Int /\ Equiv(Times(y, b), y * b)
    BY <1>5, TimesType
  <2>a. y * b \in Int /\ y * b = b * y
    BY <1>5
  <2>1. Times(y, b) \in Int /\ Equiv(Times(y, b), y * b) /\ y * b \in Int /\ y * b = b * y
    BY <2>0, <2>a
  <2> DEFINE t == Times(y, b)
             u == b * y
  <2>2. t \in Int /\ u \in Int /\ Equiv(t, u)
    BY <2>1
  <2> HIDE DEF t, u
  <2>3. Equiv(x, x)
    BY DEF Equiv
  <2>4. Equiv(x + t, x + u) /\ x + t \in Int /\ x + u \in Int
    BY <2>2, <2>3, EquivAdd
  <2>5. (x + t) % Order \in Scalar /\ (x + t) % Order \in Int /\ Equiv((x + t) % Order, x + t)
    BY <2>4, ModType, EquivMod
  <2>6. Equiv((x + t) % Order, x + u)
    BY <2>4, <2>5, EquivChain
  <2> QED
    BY <2>5, <2>6 DEF t, u
<1>7. ASSUME NEW k \in 1 .. n
      PROVE  N[k] \in Scalar /\ Equiv(N[k], f[k] + b * h[k])
  <2>1. N[k] = (f[k] + Times(h[k], b)) % Order
    BY <1>1, <1>2 DEF NoncePart, b
  <2> HIDE DEF N
  <2> QED
    BY <1>2, <1>6, <2>1
<1>8. N \in [1 .. n -> Scalar] /\ N \in [1 .. n -> Int]
  <2>1. N = [k \in 1 .. n |-> N[k]]
    BY <1>1 DEF NoncePart
  <2> HIDE DEF N
  <2> QED
    BY <1>7, <2>1, ScalarIsInt
<1> HIDE DEF N
<1>9. Equiv(SumMod(N), SumMod(f) + b * SumMod(h)) /\ SumMod(N) \in Scalar
      /\ SumMod(f) \in Scalar /\ SumMod(h) \in Scalar
  BY <1>3, <1>5, <1>7, <1>8, SumModLinear, SumModType
<1> DEFINE F == SumMod(f)
           H == SumMod(h)
           S == SumMod(N)
<1>10. /\ S \in Scalar /\ S \in Int /\ F \in Int /\ H \in Int /\ Equiv(S, F + b * H)
       /\ FinalNonce(L, v) = (F + Times(H, b)) % Order
  BY <1>4, <1>9, ScalarIsInt DEF FinalNonce, b
<1> HIDE DEF F, H, S
<1>11. /\ FinalNonce(L, v) \in Scalar /\ FinalNonce(L, v) \in Int
       /\ Equiv(FinalNonce(L, v), F + b * H)
  BY <1>6, <1>10, ScalarIsInt
<1>12. S = FinalNonce(L, v)
  BY <1>10, <1>11, EquivScalar DEF Equiv
<1> QED
  BY <1>8, <1>12 DEF N, S

(***************************************************************************)
(* Partial signatures that are verified add up to the final nonce and the  *)
(* key, up to the sign of the nonce.                                       *)
(***************************************************************************)
EvenNonceSign(R) == IF HasEvenY(R) THEN 1 ELSE -1

LEMMA VerifiedAddUp ==
    ASSUME NEW n \in Nat, NEW L, IsNonceList(L, n), NEW key \in Scalar,
           NEW v, v.b \in Scalar, v.e \in Scalar, Tracks(key, v.ctx),
           NEW s \in [1 .. n -> Int], NEW Y \in [1 .. n -> Int], NEW a \in [1 .. n -> Int],
           \A k \in 1 .. n : LagrangeCoefficient(v.ids, L[k].id) = Ok(a[k]),
           SumMod([k \in 1 .. n |-> (Y[k] * a[k]) % Order]) = key,
           \A k \in 1 .. n : PartialVerify(s[k], L[k].id, L[k].nonce, Y[k], v).ok
    PROVE  Equiv(SumMod(s), EvenNonceSign(v.R) * FinalNonce(L, v)
                               + (v.e * (EvenSign(v.ctx) * v.ctx.gacc)) * key)
<1> DEFINE N == NoncePart(L, v)
           z == [k \in 1 .. n |-> (Y[k] * a[k]) % Order]
           sign == EvenNonceSign(v.R)
           E == EvenSign(v.ctx)
           g == v.ctx.gacc
           e == v.e
           c == e * (E * g)
           t == [k \in 1 .. n |-> sign * N[k]]
<1>1. N \in [1 .. n -> Scalar] /\ SumMod(N) = FinalNonce(L, v)
  BY NoncePartsAddUp
<1>2. sign \in Int /\ E \in Int /\ g \in Int /\ e \in Int
  <2>1. sign \in Int
    BY DEF EvenNonceSign
  <2>2. E \in Int
    <3>1. MinusOne \in Int /\ 1 \in Int
      BY MinusOneValue, ScalarIsInt
    <3> QED
      BY <3>1, Zenon DEF EvenSign
  <2>3. g \in Int
    <3>1. v.ctx \in [q : Scalar \ {Identity}, gacc : Sign, tacc : Scalar]
      BY DEF Tracks, Context
    <3>2. g \in Sign
      BY <3>1
    <3> QED
      BY <3>2, SignIsScalar
  <2>4. e \in Int
    BY ScalarIsInt
  <2> QED
    BY <2>1, <2>2, <2>3, <2>4
<1>3. ASSUME NEW k \in 1 .. n PROVE Equiv(s[k], sign * N[k] + c * ((Y[k] * a[k]) % Order))
  <2> DEFINE sum == (L[k].nonce.R1 + Times(L[k].nonce.R2, v.b)) % Order
             re  == IF HasEvenY(v.R) THEN sum ELSE Neg(sum)
             co  == LagrangeCoefficient(v.ids, L[k].id)
  <2>1. co = Ok(a[k]) /\ co.ok /\ co.val = a[k]
    BY DEF Ok
  <2>2. MulG(s[k]) = (re + Times(Times(e, co.val), Times(Times(E, g), Y[k]))) % Order
    <3>1. PartialVerify(s[k], L[k].id, L[k].nonce, Y[k], v).ok
      OBVIOUS
    <3>2. ~Err(Naming("InvalidContribution", L[k].id)).ok
      BY DEF Err
    <3> QED
      BY <2>1, <3>1, <3>2, Zenon DEF PartialVerify
  <2>3. N[k] = sum
    BY DEF NoncePart, IsNonceList, IsList
  <2>4. sum \in Int
    BY <1>1, <2>3, ScalarIsInt
  <2> HIDE DEF sum, co
  <2>5. re \in Int /\ Equiv(re, sign * sum)
    <3>1. CASE HasEvenY(v.R)
      BY <2>4, <3>1 DEF EvenNonceSign, Equiv
    <3>2. CASE ~HasEvenY(v.R)
      <4>1. Equiv(Neg(sum), -sum) /\ Neg(sum) \in Int
        BY <2>4, NegEquiv, ScalarIsInt
      <4>2. re = Neg(sum) /\ sign = -1
        BY <3>2 DEF EvenNonceSign
      <4>3. (-1) * sum = -sum
        BY <2>4
      <4> QED
        BY <4>1, <4>2, <4>3
    <3> QED
      BY <3>1, <3>2
  <2>6. s[k] \in Int /\ Y[k] \in Int /\ a[k] \in Int
    OBVIOUS
  <2> HIDE DEF re, sign, E, g, e
  <2>7. MulG(s[k]) = (re + Times(Times(e, a[k]), Times(Times(E, g), Y[k]))) % Order
    BY <2>1, <2>2
  <2>8. Equiv(s[k], sign * sum + (e * (E * g)) * ((Y[k] * a[k]) % Order))
    BY <1>2, <2>4, <2>5, <2>6, <2>7, VerifiedEquiv
  <2> QED
    BY <2>3, <2>8
<1> HIDE DEF sign, E, g, e
<1>4. c \in Int
  BY <1>2
<1> HIDE DEF c, N
<1>5. /\ N \in [1 .. n -> Int] /\ SumMod(N) \in Int
  BY <1>1, SumModType, ScalarIsInt
<1>6. t \in [1 .. n -> Int] /\ \A k \in 1 .. n : t[k] = sign * N[k]
  BY <1>2, <1>5
<1>7. z \in [1 .. n -> Int] /\ \A k \in 1 .. n : z[k] = (Y[k] * a[k]) % Order
  <2>1. ASSUME NEW k \in 1 .. n PROVE (Y[k] * a[k]) % Order \in Int
    <3>1. Y[k] \in Int /\ a[k] \in Int
      OBVIOUS
    <3>2. Y[k] * a[k] \in Int
      BY <3>1
    <3> QED
      BY <3>2, EquivMod
  <2> QED
    BY <2>1
<1>8. SumMod(z) = key
  OBVIOUS
<1> HIDE DEF t, z
<1>9. \A k \in 1 .. n : Equiv(s[k], t[k] + c * z[k])
  BY <1>3, <1>6, <1>7
<1>10. Equiv(SumMod(s), SumMod(t) + c * SumMod(z))
  BY <1>4, <1>6, <1>7, <1>9, SumModLinear
<1>11. Equiv(SumMod(t), sign * SumMod(N))
  <2>1. \A k \in 1 .. n : Equiv(t[k], sign * N[k])
    BY <1>6 DEF Equiv
  <2> QED
    BY <1>2, <1>5, <1>6, <2>1, SumModTimes
<1> DEFINE T == SumMod(t)
           S == SumMod(s)
           M == sign * SumMod(N)
           K == c * key
<1>12. T \in Int /\ S \in Int
  BY <1>6, SumModType, ScalarIsInt
<1>13. M \in Int /\ K \in Int
  BY <1>2, <1>4, <1>5, ScalarIsInt
<1>14. Equiv(S, T + K) /\ Equiv(T, M)
  BY <1>8, <1>10, <1>11
<1> HIDE DEF T, S, M, K
<1>15. Equiv(K, K)
  BY DEF Equiv
<1>16. Equiv(T + K, M + K) /\ T + K \in Int /\ M + K \in Int
  BY <1>12, <1>13, <1>14, <1>15, EquivAdd
<1>17. Equiv(S, M + K)
  BY <1>12, <1>14, <1>16, EquivChain
<1> QED
  BY <1>1, <1>17 DEF S, M, K, c, sign, E, g, e
(***************************************************************************)
(* A combined signature passes verification when its parts add up to the   *)
(* final nonce and the key.                                                *)
(***************************************************************************)
LEMMA EvenNonce ==
    ASSUME NEW F \in Scalar, F # Identity
    PROVE  /\ EvenYPoint(F) \in Scalar /\ EvenYPoint(F) # Identity
           /\ HasEvenY(EvenYPoint(F)) /\ XOnly(EvenYPoint(F)) = XOnly(F)
           /\ Equiv(EvenYPoint(F), EvenNonceSign(F) * F)
<1> DEFINE h == Order \div 2
<1>1. /\ Order \in Nat /\ Order > 2 /\ h \in Nat /\ 2 * h <= Order /\ Order <= 2 * h + 1
  BY OrderAssumption
<1>2. F \in Int /\ F > 0 /\ F < Order
  BY <1>1 DEF Scalar, Identity
<1>3. CASE HasEvenY(F)
  <2>1. EvenYPoint(F) = F /\ EvenNonceSign(F) * F = F
    BY <1>2, <1>3 DEF EvenYPoint, EvenNonceSign
  <2> QED
    BY <1>3, <2>1 DEF Equiv
<1>4. CASE ~HasEvenY(F)
  <2>1. EvenYPoint(F) = Neg(F) /\ EvenNonceSign(F) = -1
    BY <1>4 DEF EvenYPoint, EvenNonceSign
  <2>2. Order - F \in Scalar
    BY <1>1, <1>2 DEF Scalar
  <2>3. Neg(F) = Order - F
    BY <2>2, ModOfScalar DEF Neg
  <2>4. ~(F <= h)
    BY <1>4 DEF HasEvenY
  <2> HIDE DEF h
  <2>5. Order - F <= h /\ Order - F # 0
    BY <1>1, <1>2, <2>4
  <2>6. HasEvenY(Neg(F)) /\ Neg(F) # Identity /\ Neg(F) \in Scalar
    BY <2>2, <2>3, <2>5 DEF HasEvenY, Identity, h
  <2>7. XOnly(Neg(F)) = XOnly(F)
    BY <2>1, <2>6 DEF XOnly, EvenYPoint
  <2>8. Equiv(Neg(F), -F) /\ (-1) * F = -F
    BY <1>2, NegEquiv
  <2> QED
    BY <2>1, <2>6, <2>7, <2>8
<1> QED
  BY <1>3, <1>4

LEMMA CombinedPasses ==
    ASSUME NEW key \in Scalar, NEW msg, NEW tweaks, NEW v,
           v.R \in Scalar, v.R # Identity, v.e \in Scalar, Tracks(key, v.ctx),
           SigningPubkey(key, tweaks) = Ok(v.ctx.q),
           v.e = ChallengeHash(XOnly(v.R), XOnly(v.ctx.q), msg),
           NEW parts, SumMod(parts) \in Scalar,
           Equiv(SumMod(parts), EvenNonceSign(v.R) * v.R
                                   + (v.e * (EvenSign(v.ctx) * v.ctx.gacc)) * key)
    PROVE  VerifySignature(key, Combine(parts, v), msg, tweaks).ok
<1> DEFINE S  == SumMod(parts)
           e  == v.e
           E  == EvenSign(v.ctx)
           g  == v.ctx.gacc
           t  == v.ctx.tacc
           q  == v.ctx.q
           M  == EvenNonceSign(v.R) * v.R
           Y  == EvenYPoint(q)
           N  == EvenYPoint(v.R)
           sg == (S + Times(e, Times(E, t))) % Order
<1>1. S \in Int /\ e \in Int /\ key \in Int
  BY ScalarIsInt
<1>2. E \in Int
  <2>1. MinusOne \in Int /\ 1 \in Int
    BY MinusOneValue, ScalarIsInt
  <2> QED
    BY <2>1, Zenon DEF EvenSign
<1>3. g \in Int /\ t \in Int /\ q \in Scalar /\ q # Identity
  <2>1. v.ctx \in [q : Scalar \ {Identity}, gacc : Sign, tacc : Scalar]
    BY DEF Tracks, Context
  <2>2. g \in Sign /\ t \in Scalar /\ q \in Scalar /\ q # Identity
    BY <2>1
  <2> QED
    BY <2>2, SignIsScalar, ScalarIsInt
<1>4. M \in Int
  <2>1. EvenNonceSign(v.R) \in Int /\ v.R \in Int
    BY ScalarIsInt DEF EvenNonceSign
  <2> QED
    BY <2>1
<1>5. Y = (E * g * key + E * t) % Order
  BY <1>1, EvenKeyShared
<1>6. N \in Scalar /\ N # Identity /\ HasEvenY(N) /\ XOnly(N) = XOnly(v.R) /\ Equiv(N, M)
  BY EvenNonce
<1>7. Equiv(S, M + (e * (E * g)) * key)
  OBVIOUS
<1> HIDE DEF S, e, E, g, t, q, M, Y, N
<1> DEFINE a == E * t
           w == E * g * key + E * t
<1>8. a \in Int /\ w \in Int /\ (e * (E * g)) * key + e * a = e * w
  <2> DEFINE x == E * g
  <2>1. x \in Int /\ a \in Int
    BY <1>2, <1>3
  <2>2. w = x * key + a
    OBVIOUS
  <2> HIDE DEF x, a, w
  <2>3. x * key \in Int /\ (e * x) * key = e * (x * key)
    BY <1>1, <2>1
  <2>4. e * (x * key + a) = e * (x * key) + e * a
    BY <1>1, <2>1, <2>3
  <2>5. w \in Int
    BY <2>1, <2>2, <2>3
  <2> QED
    BY <2>1, <2>2, <2>3, <2>4, <2>5 DEF x
<1>9. Y \in Int /\ Equiv(Y, w)
  BY <1>5, <1>8, EquivMod
<1> HIDE DEF w
<1>10. Equiv(Times(e, Times(E, t)), e * a) /\ Times(e, Times(E, t)) \in Int
  <2>1. Times(E, t) \in Int /\ Equiv(Times(E, t), a)
    BY <1>2, <1>3, TimesType
  <2>2. Times(e, Times(E, t)) \in Int /\ Equiv(Times(e, Times(E, t)), e * Times(E, t))
    BY <1>1, <2>1, TimesType
  <2>3. Equiv(e, e)
    BY DEF Equiv
  <2> DEFINE u == Times(E, t)
  <2> HIDE DEF u, a
  <2>4. u \in Int /\ Equiv(u, a)
    BY <2>1 DEF u
  <2>5. Equiv(e * u, e * a) /\ e * u \in Int /\ e * a \in Int
    BY <1>1, <1>8, <2>3, <2>4, EquivMul
  <2> QED
    BY <2>2, <2>5, EquivChain DEF u
<1> HIDE DEF a
<1> DEFINE T == Times(e, Times(E, t))
           k == (e * (E * g)) * key
           A == e * a
           W == e * w
<1>11. k \in Int /\ A \in Int /\ W \in Int
  BY <1>1, <1>2, <1>3, <1>8
<1>12. T \in Int /\ Equiv(T, A) /\ Equiv(S, M + k) /\ k + A = W
  BY <1>7, <1>8, <1>10
<1>13. Equiv(Times(e, Y), W) /\ Times(e, Y) \in Int
  <2>1. Equiv(e, e)
    BY DEF Equiv
  <2>2. Equiv(e * Y, e * w) /\ e * Y \in Int /\ e * w \in Int
    BY <1>1, <1>8, <1>9, <2>1, EquivMul
  <2>3. Times(e, Y) \in Int /\ Equiv(Times(e, Y), e * Y)
    BY <1>1, <1>9, TimesType
  <2> QED
    BY <2>2, <2>3, EquivChain
<1> DEFINE Z == Times(e, Y)
<1> HIDE DEF T, k, A, W, Z
<1>14. Equiv(S + T, M + W)
  <2>1. Equiv(S + T, (M + k) + A) /\ M + k \in Int
    BY <1>1, <1>4, <1>11, <1>12, EquivAdd
  <2>2. (M + k) + A = M + W
    BY <1>4, <1>11, <1>12
  <2> QED
    BY <2>1, <2>2
<1>15. sg \in Int /\ Equiv(sg, S + T) /\ S + T \in Int
  <2>1. S + T \in Int
    BY <1>1, <1>12
  <2>2. sg = (S + T) % Order
    BY DEF T
  <2> QED
    BY <2>1, <2>2, EquivMod
<1> HIDE DEF sg
<1>16. Equiv(MulG(sg), M + W) /\ MulG(sg) \in Int /\ M + W \in Int
  <2>1. MulG(sg) \in Int /\ Equiv(MulG(sg), sg)
    BY <1>15, EquivMod DEF MulG
  <2>2. M + W \in Int
    BY <1>4, <1>11
  <2> QED
    BY <1>14, <1>15, <2>1, <2>2, EquivChain
<1>17. Equiv(Neg(Z), -W) /\ Neg(Z) \in Int /\ -W \in Int
  <2>1. Z \in Int /\ Equiv(Z, W)
    BY <1>13 DEF Z
  <2>2. Equiv(Neg(Z), -Z) /\ Neg(Z) \in Int /\ -Z \in Int /\ -W \in Int
    BY <1>11, <2>1, NegEquiv, ScalarIsInt
  <2>3. Equiv(-Z, -W)
    BY <1>11, <2>1, EquivOpposite
  <2> QED
    BY <2>2, <2>3, EquivChain
<1> DEFINE G == MulG(sg)
           O == Neg(Z)
<1>18. G \in Int /\ O \in Int /\ Equiv(G, M + W) /\ Equiv(O, -W)
  BY <1>16, <1>17
<1> HIDE DEF G, O
<1>19. (G + O) % Order = N
  <2>1. Equiv(G + O, (M + W) + (-W)) /\ G + O \in Int
    BY <1>16, <1>17, <1>18, EquivAdd
  <2>2. (M + W) + (-W) = M
    BY <1>4, <1>11
  <2>3. N \in Int
    BY <1>6, ScalarIsInt
  <2>4. Equiv(N, G + O)
    BY <1>6, <2>1, <2>2 DEF Equiv
  <2> QED
    BY <1>6, <2>4, ModOfScalar DEF Equiv
<1> DEFINE sig == [R |-> XOnly(v.R), s |-> sg]
<1>20. Combine(parts, v) = sig
  BY DEF Combine, sg, S, e, E, t
<1>21. sig.R = XOnly(v.R) /\ sig.s = sg
  OBVIOUS
<1> HIDE DEF sig
<1>22. SchnorrVerify(q, sig, msg)
  <2>1. ChallengeHash(sig.R, XOnly(q), msg) = e
    BY <1>21 DEF q, e
  <2>2. (MulG(sig.s) + Neg(Times(e, EvenYPoint(q)))) % Order = N
    BY <1>19, <1>21 DEF G, O, Z, Y
  <2> QED
    BY <1>3, <1>6, <1>21, <2>1, <2>2, Zenon DEF SchnorrVerify
<1>23. Ok(q).ok /\ Ok(q).val = q /\ Ok(sig).ok
  BY DEF Ok
<1>24. SigningPubkey(key, tweaks) = Ok(q)
  BY DEF q
<1>25. VerifySignature(key, sig, msg, tweaks) = Ok(sig)
  BY <1>22, <1>23, <1>24, Zenon DEF VerifySignature
<1> QED
  BY <1>20, <1>23, <1>25

-----------------------------------------------------------------------------
(* What a call returns. *)

LEMMA OkIsNoError == ASSUME NEW v PROVE Ok(v).ok /\ Ok(v).val = v
BY DEF Ok

LEMMA ErrorIsNotOk == ASSUME NEW e PROVE ~Err(e).ok
BY DEF Err

(***************************************************************************)
(* A call leaves the driver as it is, fails, or moves it on by `next`.     *)
(***************************************************************************)
LEMMA CallCases ==
    ASSUME NEW d, NEW expected, NEW res, NEW call, call = Transition(d, expected, res)
    PROVE  \/ ~call.reply.ok /\ (call.state = d \/ call.state.phase = "Failed")
           \/ /\ d.phase = expected /\ res.ok
              /\ call.reply = Ok(res.out)
              /\ call.state = Driver(res.phase, res.st)
BY ErrorIsNotOk DEF Transition, Failed, Driver

-----------------------------------------------------------------------------
(* What the steps return. *)

LEMMA SignerInitialNextOk ==
    ASSUME NEW p, NEW st, NEW msg, NEW tweaks, NEW random,
           st = SignerInitialState(p, Key.t, SecShare[p], Key.pubshares,
                                   Key.threshold_pubkey),
           NEW res, res = SignerInitialNext(st, msg, tweaks, random), res.ok
    PROVE  /\ res.phase = "Step1"
           /\ res.st.id = p
           /\ res.st.secshare = SecShare[p]
           /\ res.st.threshold_pubkey = Key.threshold_pubkey
           /\ res.st.pubshares = Key.pubshares
           /\ res.st.t = Key.t
           /\ res.st.msg = msg
           /\ res.st.tweaks = tweaks
           /\ SampledNonce(p, random, msg, tweaks).ok
           /\ res.st.secnonce = SampledNonce(p, random, msg, tweaks).val
           /\ res.out.nonce = PubNonce(res.st.secnonce)
<1> DEFINE key == NonceKey(st.threshold_pubkey, tweaks)
           k == SampleNonce(random, st.secshare, st.id, MulG(st.secshare), key.val, msg)
           step1 == [id |-> st.id, t |-> st.t, secshare |-> st.secshare,
                     pubshares |-> st.pubshares,
                     threshold_pubkey |-> st.threshold_pubkey,
                     msg |-> msg, tweaks |-> tweaks, secnonce |-> k.val]
           out == [id |-> st.id, nonce |-> PubNonce(k.val)]
<1>1. /\ st.id = p /\ st.secshare = SecShare[p] /\ st.t = Key.t
      /\ st.threshold_pubkey = Key.threshold_pubkey /\ st.pubshares = Key.pubshares
  BY DEF SignerInitialState
<1>2. key.ok /\ k.ok /\ res = Advance("Step1", step1, out)
  BY ErrorIsNotOk, Zenon DEF SignerInitialNext
<1>3. SampledNonce(p, random, msg, tweaks) = k
  BY <1>1, <1>2 DEF SampledNonce
<1> HIDE DEF key, k
<1> QED
  BY <1>1, <1>2, <1>3 DEF Advance

LEMMA SignerStep1NextOk ==
    ASSUME NEW st, NEW list, NEW msg, NEW tweaks,
           NEW res, res = SignerStep1Next(st, list, msg, tweaks), res.ok
    PROVE  /\ res.phase = "Successful"
           /\ st.msg \in {{}, {msg}}
           /\ st.tweaks \in {{}, {tweaks}}
           /\ PartialSign(st, list, msg, tweaks).ok
           /\ res.out.psig = PartialSign(st, list, msg, tweaks).val
<1> DEFINE s == PartialSign(st, list, msg, tweaks)
<1> HIDE DEF s
<1>1. /\ res = Answer(st.id, s)
      /\ ~ (st.msg \notin {{}, {msg}} \/ st.tweaks \notin {{}, {tweaks}})
  BY ErrorIsNotOk, Zenon DEF SignerStep1Next, s
<1>2. s.ok /\ res = Finish([id |-> st.id, psig |-> s.val])
  BY <1>1, Zenon DEF Answer
<1>3. res.phase = "Successful" /\ res.out.psig = s.val
  BY <1>2 DEF Finish, Advance
<1> QED
  BY <1>1, <1>2, <1>3 DEF s

LEMMA CoordinatorInitialNextOk ==
    ASSUME NEW st, NEW list, NEW res, res = SignCoordinatorInitialNext(st, list), res.ok
    PROVE  /\ res.phase = "Step1"
           /\ res.st.threshold_pubkey = st.threshold_pubkey
           /\ res.st.pubshares = st.pubshares
           /\ res.st.t = st.t
<1>1. res = Advance("Step1",
                    [t |-> st.t, pubshares |-> st.pubshares,
                     threshold_pubkey |-> st.threshold_pubkey, pubnonces |-> ById(list)],
                    list)
  BY ErrorIsNotOk, Zenon DEF SignCoordinatorInitialNext
<1> QED
  BY <1>1 DEF Advance

LEMMA CoordinatorStep1NextOk ==
    ASSUME NEW st, NEW list, NEW msg, NEW tweaks,
           NEW res, res = SignCoordinatorStep1Next(st, list, msg, tweaks), res.ok
    PROVE  res.phase = "Successful"
<1>1. \E sig : res = Finish(sig)
  BY ErrorIsNotOk, Zenon DEF SignCoordinatorStep1Next, VerifiedAndCombined, Checked
<1> QED
  BY <1>1 DEF Finish, Advance

-----------------------------------------------------------------------------
(* Type correctness. *)

LEMMA SignTypeOKInit == Init => SignTypeOK
BY SwitchesAssumption DEF Init, SignTypeOK, SignerDriver, SignCoordinatorDriver

(***************************************************************************)
(* What a step of signer p leaves alone, and the driver it ends with.      *)
(***************************************************************************)
LEMMA SignerKeepsType ==
    ASSUME SignTypeOK, NEW p \in Honest,
           DOMAIN sst' = DOMAIN sst, DOMAIN serr' = DOMAIN serr,
           DOMAIN nonces' = DOMAIN nonces, DOMAIN psigs' = DOMAIN psigs,
           DOMAIN drawn' = DOMAIN drawn,
           \A q \in Honest \ {p} : /\ sst'[q] = sst[q]
                                   /\ nonces'[q] = nonces[q]
                                   /\ drawn'[q] = drawn[q],
           SignerDriver(p, sst'[p], nonces'[p]), drawn'[p] \subseteq Randoms,
           sessions' \in [Honest -> 1 .. MaxSessions],
           UNCHANGED <<request, kst, ksessions>>
    PROVE  SignTypeOK'
<1>1. ASSUME NEW q \in Honest
      PROVE  SignerDriver(q, sst'[q], nonces'[q]) /\ drawn'[q] \subseteq Randoms
  <2>1. CASE q = p
    BY <2>1
  <2>2. CASE q # p
    BY <2>2 DEF SignTypeOK
  <2> QED
    BY <2>1, <2>2
<1>2. SignCoordinatorDriver(kst')
  BY DEF SignTypeOK
<1> QED
  BY <1>1, <1>2 DEF SignTypeOK

LEMMA SignerStep1Typed ==
    ASSUME SignTypeOK, NEW p \in Honest, SignerStep1(p)
    PROVE  SignTypeOK'
<1>1. PICK r \in Asked, binding \in Bindings,
           random \in IF FreshRandoms THEN Randoms \ drawn[p] ELSE Randoms :
         LET msg    == Optional(binding.msg, r.msg)
             tweaks == Optional(binding.tweaks, r.tweaks)
             call   == Transition(sst[p], "Initial",
                                  SignerInitialNext(sst[p].st, msg, tweaks, random))
         IN  /\ sst' = [sst EXCEPT ![p] = call.state]
             /\ serr' = [serr EXCEPT ![p] = ErrorOf(call.reply)]
             /\ nonces' = [nonces EXCEPT ![p] =
                              IF call.reply.ok
                              THEN @ \cup {[nonce |-> call.reply.val.nonce,
                                            msg |-> msg, tweaks |-> tweaks]}
                              ELSE @]
             /\ drawn' = [drawn EXCEPT ![p] = @ \cup {random}]
  BY DEF SignerStep1
<1> DEFINE msg    == Optional(binding.msg, r.msg)
           tweaks == Optional(binding.tweaks, r.tweaks)
           res    == SignerInitialNext(sst[p].st, msg, tweaks, random)
           call   == Transition(sst[p], "Initial", res)
           new    == [nonce |-> call.reply.val.nonce, msg |-> msg, tweaks |-> tweaks]
           sent   == IF call.reply.ok THEN nonces[p] \cup {new} ELSE nonces[p]
<1> HIDE DEF msg, tweaks
<1>2. /\ sst' = [sst EXCEPT ![p] = call.state]
      /\ serr' = [serr EXCEPT ![p] = ErrorOf(call.reply)]
      /\ nonces' = [nonces EXCEPT ![p] = sent]
      /\ drawn' = [drawn EXCEPT ![p] = drawn[p] \cup {random}]
  BY <1>1 DEF msg, tweaks
<1>3. UNCHANGED <<request, psigs, sessions, kst, ksessions>>
  BY DEF SignerStep1, kvars
<1>4. random \in Randoms
  OBVIOUS
<1>5. nonces'[p] = sent /\ sst'[p] = call.state /\ drawn'[p] = drawn[p] \cup {random}
  BY <1>2 DEF SignTypeOK
<1>0. res = SignerInitialNext(sst[p].st, msg, tweaks, random)
  OBVIOUS
<1> HIDE DEF res
<1>6. SignerDriver(p, call.state, sent)
  <2>1. CASE call.state = sst[p] \/ call.state.phase = "Failed"
    <3>1. SignerDriver(p, sst[p], nonces[p])
      BY DEF SignTypeOK
    <3>2. nonces[p] \subseteq sent
      OBVIOUS
    <3> HIDE DEF call, sent
    <3> QED
      BY <2>1, <3>1, <3>2 DEF SignerDriver
  <2>2. CASE /\ sst[p].phase = "Initial" /\ res.ok
             /\ call.reply = Ok(res.out)
             /\ call.state = Driver(res.phase, res.st)
    <3>1. sst[p].st = SignerInitialState(p, Key.t, SecShare[p], Key.pubshares,
                                         Key.threshold_pubkey)
      BY <2>2 DEF SignTypeOK, SignerDriver, NewSigner, Driver
    <3>2. /\ res.phase = "Step1"
          /\ res.st.id = p
          /\ res.st.secshare = SecShare[p]
          /\ res.st.threshold_pubkey = Key.threshold_pubkey
          /\ res.st.pubshares = Key.pubshares
          /\ res.st.t = Key.t
          /\ res.st.msg = msg
          /\ res.st.tweaks = tweaks
          /\ res.out.nonce = PubNonce(res.st.secnonce)
      BY <1>0, <2>2, <3>1, SignerInitialNextOk
    <3>3. new \in sent
      BY <2>2, OkIsNoError
    <3>4. call.reply.val = res.out
      BY <2>2, OkIsNoError
    <3>5. new.nonce = PubNonce(res.st.secnonce) /\ new.msg = msg /\ new.tweaks = tweaks
      BY <3>2, <3>4
    <3>6. call.state.phase = "Step1" /\ call.state.st = res.st
      BY <2>2, <3>2 DEF Driver
    <3> HIDE DEF call, new, sent
    <3> QED
      BY <3>2, <3>3, <3>5, <3>6 DEF SignerDriver
  <2> HIDE DEF call
  <2> QED
    BY <2>1, <2>2, CallCases DEF call
<1> HIDE DEF call, sent
<1>7. drawn'[p] \subseteq Randoms
  BY <1>4, <1>5 DEF SignTypeOK
<1>8. SignerDriver(p, sst'[p], nonces'[p])
  BY <1>5, <1>6
<1> QED
  BY <1>2, <1>3, <1>7, <1>8, SignerKeepsType DEF SignTypeOK

LEMMA SignerFinalizeTyped ==
    ASSUME SignTypeOK, NEW p \in Honest, SignerFinalize(p)
    PROVE  SignTypeOK'
<1>1. PICK r \in Asked, list \in DeliverableLists :
         LET call == Transition(sst[p], "Step1",
                                SignerStep1Next(sst[p].st, list, r.msg, r.tweaks))
         IN  /\ sst' = [sst EXCEPT ![p] = call.state]
             /\ serr' = [serr EXCEPT ![p] = ErrorOf(call.reply)]
             /\ \E signed : psigs' = [psigs EXCEPT ![p] = signed]
  BY DEF SignerFinalize
<1> DEFINE res  == SignerStep1Next(sst[p].st, list, r.msg, r.tweaks)
           call == Transition(sst[p], "Step1", res)
<1>2. /\ sst' = [sst EXCEPT ![p] = call.state]
      /\ serr' = [serr EXCEPT ![p] = ErrorOf(call.reply)]
      /\ DOMAIN psigs' = DOMAIN psigs
  BY <1>1
<1>3. UNCHANGED <<request, nonces, drawn, sessions, kst, ksessions>>
  BY DEF SignerFinalize, kvars
<1>0. res = SignerStep1Next(sst[p].st, list, r.msg, r.tweaks)
  OBVIOUS
<1> HIDE DEF res
<1>4. \/ call.state = sst[p]
      \/ call.state.phase = "Failed"
      \/ call.state.phase = "Successful"
  <2>1. res.ok => res.phase = "Successful"
    BY <1>0, SignerStep1NextOk
  <2>2. call = Transition(sst[p], "Step1", res)
    OBVIOUS
  <2> HIDE DEF call
  <2>3. \/ call.state = sst[p] \/ call.state.phase = "Failed"
        \/ res.ok /\ call.state = Driver(res.phase, res.st)
    BY <2>2, CallCases
  <2> QED
    BY <2>1, <2>3 DEF Driver
<1> HIDE DEF call
<1>5. SignerDriver(p, sst'[p], nonces'[p])
  BY <1>2, <1>3, <1>4 DEF SignTypeOK, SignerDriver
<1> QED
  BY <1>2, <1>3, <1>5, SignerKeepsType DEF SignTypeOK

LEMMA SignTypeOKStep == SignTypeOK /\ [Next]_vars => SignTypeOK'
<1> SUFFICES ASSUME SignTypeOK, [Next]_vars PROVE SignTypeOK'
  OBVIOUS
<1>1. ASSUME NEW p \in Honest, SignerRestart(p) PROVE SignTypeOK'
  <2>1. sst'[p] = NewSigner(p)
    BY <1>1 DEF SignerRestart, SignTypeOK
  <2>2. SignerDriver(p, sst'[p], nonces'[p])
    BY <2>1 DEF SignerDriver
  <2>3. sessions' \in [Honest -> 1 .. MaxSessions]
    BY <1>1, SwitchesAssumption DEF SignerRestart, SignTypeOK
  <2> QED
    BY <1>1, <2>2, <2>3, SignerKeepsType DEF SignerRestart, SignTypeOK, kvars
<1>2. ASSUME UNCHANGED <<request, svars>>, SignCoordinatorDriver(kst'),
             ksessions' \in 0 .. MaxSessions
      PROVE  SignTypeOK'
  BY <1>2 DEF SignTypeOK, svars
<1>3. CASE CoordinatorCreate
  <2>1. ksessions' \in 0 .. MaxSessions
    BY <1>3, SwitchesAssumption DEF CoordinatorCreate, SignTypeOK
  <2>2. SignCoordinatorDriver(kst')
    BY <1>3 DEF CoordinatorCreate, SignCoordinatorDriver
  <2> QED
    BY <1>2, <1>3, <2>1, <2>2 DEF CoordinatorCreate
<1>4. CASE CoordinatorStep1
  <2>1. \E list : kst' = Transition(kst, "Initial",
                                    SignCoordinatorInitialNext(kst.st, list)).state
    BY <1>4 DEF CoordinatorStep1
  <2>2. PICK list : kst' = Transition(kst, "Initial",
                                      SignCoordinatorInitialNext(kst.st, list)).state
    BY <2>1
  <2> DEFINE res == SignCoordinatorInitialNext(kst.st, list)
             call == Transition(kst, "Initial", res)
  <2>3. kst' = call.state
    BY <2>2
  <2>0. res = SignCoordinatorInitialNext(kst.st, list) /\ call = Transition(kst, "Initial", res)
    OBVIOUS
  <2> HIDE DEF res, call
  <2>4. ASSUME kst.phase = "Initial", res.ok, call.state = Driver(res.phase, res.st)
        PROVE  SignCoordinatorDriver(kst')
    <3>1. kst.st = SignCoordinatorInitialState(Key.t, Key.pubshares, Key.threshold_pubkey)
      BY <2>4 DEF SignTypeOK, SignCoordinatorDriver, NewCoordinator, Driver, Absent
    <3>2. /\ res.phase = "Step1"
          /\ res.st.threshold_pubkey = kst.st.threshold_pubkey
          /\ res.st.pubshares = kst.st.pubshares
          /\ res.st.t = kst.st.t
      BY <2>0, <2>4, CoordinatorInitialNextOk
    <3>3. kst'.phase = "Step1" /\ kst'.st = res.st
      BY <2>3, <2>4, <3>2 DEF Driver
    <3>4. /\ kst.st.t = Key.t
          /\ kst.st.pubshares = Key.pubshares
          /\ kst.st.threshold_pubkey = Key.threshold_pubkey
      BY <3>1 DEF SignCoordinatorInitialState
    <3>5. /\ kst'.st.t = Key.t
          /\ kst'.st.pubshares = Key.pubshares
          /\ kst'.st.threshold_pubkey = Key.threshold_pubkey
      BY <3>2, <3>3, <3>4
    <3> QED
      BY <3>3, <3>5 DEF SignCoordinatorDriver
  <2>5. SignCoordinatorDriver(kst')
    BY <2>0, <2>3, <2>4, CallCases DEF SignTypeOK, SignCoordinatorDriver
  <2> QED
    BY <1>2, <1>4, <2>5 DEF CoordinatorStep1, SignTypeOK
<1>5. CASE CoordinatorStep2
  <2>1. \E list : \E r \in Asked :
           kst' = Transition(kst, "Step1",
                             SignCoordinatorStep1Next(kst.st, list, r.msg, r.tweaks)).state
    BY <1>5 DEF CoordinatorStep2
  <2>2. PICK list : \E r \in Asked :
           kst' = Transition(kst, "Step1",
                             SignCoordinatorStep1Next(kst.st, list, r.msg, r.tweaks)).state
    BY <2>1
  <2>3. PICK r \in Asked :
           kst' = Transition(kst, "Step1",
                             SignCoordinatorStep1Next(kst.st, list, r.msg, r.tweaks)).state
    BY <2>2
  <2> DEFINE res == SignCoordinatorStep1Next(kst.st, list, r.msg, r.tweaks)
             call == Transition(kst, "Step1", res)
  <2>4. kst' = call.state
    BY <2>3
  <2>0. /\ res = SignCoordinatorStep1Next(kst.st, list, r.msg, r.tweaks)
        /\ call = Transition(kst, "Step1", res)
    OBVIOUS
  <2> HIDE DEF res, call
  <2>5. res.ok => res.phase = "Successful"
    BY <2>0, CoordinatorStep1NextOk
  <2>6. \/ kst' = kst \/ kst'.phase = "Failed"
        \/ res.ok /\ kst' = Driver(res.phase, res.st)
    BY <2>0, <2>4, CallCases
  <2>7. kst' = kst \/ kst'.phase \in {"Failed", "Successful"}
    BY <2>5, <2>6 DEF Driver
  <2>8. SignCoordinatorDriver(kst')
    BY <2>7 DEF SignTypeOK, SignCoordinatorDriver
  <2> QED
    BY <1>2, <1>5, <2>8 DEF CoordinatorStep2, SignTypeOK
<1>6. CASE UNCHANGED vars
  BY <1>6 DEF SignTypeOK, vars
<1> QED
  BY <1>1, <1>3, <1>4, <1>5, <1>6, SignerStep1Typed, SignerFinalizeTyped
     DEF Next, Progress, SignerCall, CoordinatorCall

(***************************************************************************)
(* Whatever is delivered and in whatever order steps are called, the       *)
(* drivers hold what their phase says, and a signer that waits for the     *)
(* list has sent the nonce it holds.                                       *)
(***************************************************************************)
THEOREM SigningTypeCorrect == Spec => []SignTypeOK
BY SignTypeOKInit, SignTypeOKStep, PTL DEF Spec

-----------------------------------------------------------------------------
(* What a step means for the nonces and partial signatures of the signers. *)

Made(p, m, random) ==
    LET k == SampledNonce(p, random, m.msg, m.tweaks)
    IN  /\ [msg |-> m.msg, tweaks |-> m.tweaks] \in NonceInputs
        /\ k.ok
        /\ m.nonce = PubNonce(k.val)

Bound(m, x) == m.msg \in {{}, {x.msg}} /\ m.tweaks \in {{}, {x.tweaks}}

Elsewhere(p) ==
    \A q \in Honest \ {p} : /\ sst'[q] = sst[q] /\ nonces'[q] = nonces[q]
                            /\ psigs'[q] = psigs[q] /\ drawn'[q] = drawn[q]

Quiet(p) ==
    /\ nonces'[p] = nonces[p] /\ psigs'[p] = psigs[p] /\ drawn[p] \subseteq drawn'[p]
    /\ sst'[p] = sst[p] \/ sst'[p].phase # "Step1"

Drawn(p) ==
    \E random \in Randoms : \E m :
        /\ FreshRandoms => random \notin drawn[p]
        /\ drawn'[p] = drawn[p] \cup {random}
        /\ Made(p, m, random)
        /\ nonces'[p] = nonces[p] \cup {m} /\ psigs'[p] = psigs[p]
        /\ sst'[p].phase = "Step1" /\ m.nonce = PubNonce(sst'[p].st.secnonce)
        /\ sst'[p].st.secnonce = SampledNonce(p, random, m.msg, m.tweaks).val

Signed(p) ==
    \E x : /\ psigs'[p] = psigs[p] \cup {x}
           /\ nonces'[p] = nonces[p] /\ drawn'[p] = drawn[p]
           /\ sst[p].phase = "Step1" /\ sst'[p].phase # "Step1"
           /\ x.pubnonce = PubNonce(sst[p].st.secnonce)
           /\ Bound(sst[p].st, x)
           /\ x.list \in DeliverableLists
           /\ \E r \in Asked : x.msg = r.msg /\ x.tweaks = r.tweaks
           /\ PartialSign(sst[p].st, x.list, x.msg, x.tweaks).ok
           /\ PartialSign(sst[p].st, x.list, x.msg, x.tweaks).val = x.psig

LEMMA SignerStep1Draws ==
    ASSUME SignTypeOK, NEW p \in Honest, SignerStep1(p)
    PROVE  Elsewhere(p) /\ (Quiet(p) \/ Drawn(p))
<1>1. PICK r \in Asked, binding \in Bindings,
           random \in IF FreshRandoms THEN Randoms \ drawn[p] ELSE Randoms :
         LET msg    == Optional(binding.msg, r.msg)
             tweaks == Optional(binding.tweaks, r.tweaks)
             call   == Transition(sst[p], "Initial",
                                  SignerInitialNext(sst[p].st, msg, tweaks, random))
         IN  /\ sst' = [sst EXCEPT ![p] = call.state]
             /\ serr' = [serr EXCEPT ![p] = ErrorOf(call.reply)]
             /\ nonces' = [nonces EXCEPT ![p] =
                              IF call.reply.ok
                              THEN @ \cup {[nonce |-> call.reply.val.nonce,
                                            msg |-> msg, tweaks |-> tweaks]}
                              ELSE @]
             /\ drawn' = [drawn EXCEPT ![p] = @ \cup {random}]
  BY DEF SignerStep1
<1> DEFINE msg    == Optional(binding.msg, r.msg)
           tweaks == Optional(binding.tweaks, r.tweaks)
           res    == SignerInitialNext(sst[p].st, msg, tweaks, random)
           call   == Transition(sst[p], "Initial", res)
           new    == [nonce |-> call.reply.val.nonce, msg |-> msg, tweaks |-> tweaks]
<1>2. [msg |-> msg, tweaks |-> tweaks] \in NonceInputs
  BY DEF NonceInputs, Asked, SignTypeOK
<1> HIDE DEF msg, tweaks
<1>3. /\ sst' = [sst EXCEPT ![p] = call.state]
      /\ nonces' = [nonces EXCEPT ![p] = IF call.reply.ok THEN nonces[p] \cup {new}
                                                        ELSE nonces[p]]
      /\ drawn' = [drawn EXCEPT ![p] = drawn[p] \cup {random}]
  BY <1>1 DEF msg, tweaks
<1>4. psigs' = psigs
  BY DEF SignerStep1
<1>5. /\ res = SignerInitialNext(sst[p].st, msg, tweaks, random)
      /\ call = Transition(sst[p], "Initial", res)
  OBVIOUS
<1> HIDE DEF res, call
<1>6. /\ nonces'[p] = IF call.reply.ok THEN nonces[p] \cup {new} ELSE nonces[p]
      /\ sst'[p] = call.state
      /\ drawn'[p] = drawn[p] \cup {random}
      /\ Elsewhere(p)
  BY <1>3, <1>4 DEF SignTypeOK, Elsewhere
<1>7. ASSUME ~call.reply.ok, call.state = sst[p] \/ call.state.phase = "Failed"
      PROVE  Quiet(p)
  BY <1>4, <1>6, <1>7 DEF Quiet
<1>8. ASSUME sst[p].phase = "Initial", res.ok, call.reply = Ok(res.out),
             call.state = Driver(res.phase, res.st)
      PROVE  Drawn(p)
  <2>1. sst[p].st = SignerInitialState(p, Key.t, SecShare[p], Key.pubshares,
                                       Key.threshold_pubkey)
    BY <1>8 DEF SignTypeOK, SignerDriver, NewSigner, Driver
  <2>0. res = SignerInitialNext(sst[p].st, msg, tweaks, random) /\ res.ok
    BY <1>5, <1>8
  <2>2. /\ res.phase = "Step1"
        /\ SampledNonce(p, random, msg, tweaks).ok
        /\ res.st.secnonce = SampledNonce(p, random, msg, tweaks).val
        /\ res.out.nonce = PubNonce(res.st.secnonce)
    BY <2>0, <2>1, SignerInitialNextOk
  <2>3. call.reply.ok /\ call.reply.val = res.out
    BY <1>8, OkIsNoError
  <2>4. /\ new.nonce = PubNonce(res.st.secnonce) /\ new.msg = msg /\ new.tweaks = tweaks
        /\ sst'[p].phase = "Step1" /\ sst'[p].st = res.st
        /\ sst'[p].st.secnonce = SampledNonce(p, random, new.msg, new.tweaks).val
    BY <1>6, <1>8, <2>2, <2>3 DEF Driver
  <2>5. nonces'[p] = nonces[p] \cup {new}
    BY <1>6, <2>3
  <2> HIDE DEF new
  <2>6. Made(p, new, random)
    BY <1>2, <2>2, <2>4 DEF Made
  <2>7. random \in Randoms /\ (FreshRandoms => random \notin drawn[p])
    OBVIOUS
  <2> QED
    BY <1>4, <1>6, <2>4, <2>5, <2>6, <2>7 DEF Drawn
<1> QED
  BY <1>5, <1>6, <1>7, <1>8, CallCases

LEMMA SignerFinalizeSigns ==
    ASSUME SignTypeOK, NEW p \in Honest, SignerFinalize(p)
    PROVE  Elsewhere(p) /\ (Quiet(p) \/ Signed(p))
<1>1. PICK r \in Asked, list \in DeliverableLists :
         LET call == Transition(sst[p], "Step1",
                                SignerStep1Next(sst[p].st, list, r.msg, r.tweaks))
         IN  /\ sst' = [sst EXCEPT ![p] = call.state]
             /\ psigs' = [psigs EXCEPT ![p] =
                             IF call.reply.ok
                             THEN @ \cup {[pubnonce |-> PubNonce(sst[p].st.secnonce),
                                           list |-> list, msg |-> r.msg,
                                           tweaks |-> r.tweaks,
                                           psig |-> call.reply.val.psig]}
                             ELSE @]
  BY DEF SignerFinalize
<1> DEFINE res  == SignerStep1Next(sst[p].st, list, r.msg, r.tweaks)
           call == Transition(sst[p], "Step1", res)
           x    == [pubnonce |-> PubNonce(sst[p].st.secnonce), list |-> list,
                    msg |-> r.msg, tweaks |-> r.tweaks, psig |-> call.reply.val.psig]
<1>2. /\ sst' = [sst EXCEPT ![p] = call.state]
      /\ psigs' = [psigs EXCEPT ![p] = IF call.reply.ok THEN psigs[p] \cup {x}
                                                      ELSE psigs[p]]
  BY <1>1
<1>3. nonces' = nonces /\ drawn' = drawn
  BY DEF SignerFinalize
<1>4. /\ res = SignerStep1Next(sst[p].st, list, r.msg, r.tweaks)
      /\ call = Transition(sst[p], "Step1", res)
  OBVIOUS
<1> HIDE DEF res, call
<1>5. /\ psigs'[p] = IF call.reply.ok THEN psigs[p] \cup {x} ELSE psigs[p]
      /\ sst'[p] = call.state
      /\ Elsewhere(p)
  BY <1>2, <1>3 DEF SignTypeOK, Elsewhere
<1>6. ASSUME ~call.reply.ok, call.state = sst[p] \/ call.state.phase = "Failed"
      PROVE  Quiet(p)
  BY <1>3, <1>5, <1>6 DEF Quiet
<1>7. ASSUME sst[p].phase = "Step1", res.ok, call.reply = Ok(res.out),
             call.state = Driver(res.phase, res.st)
      PROVE  Signed(p)
  <2>1. /\ res.phase = "Successful"
        /\ sst[p].st.msg \in {{}, {r.msg}}
        /\ sst[p].st.tweaks \in {{}, {r.tweaks}}
        /\ PartialSign(sst[p].st, list, r.msg, r.tweaks).ok
        /\ PartialSign(sst[p].st, list, r.msg, r.tweaks).val = res.out.psig
    BY <1>4, <1>7, SignerStep1NextOk
  <2>2. psigs'[p] = psigs[p] \cup {x}
    BY <1>5, <1>7, OkIsNoError
  <2>3. sst'[p].phase # "Step1"
    BY <1>5, <1>7, <2>1 DEF Driver
  <2>4. /\ x.pubnonce = PubNonce(sst[p].st.secnonce) /\ x.list = list
        /\ x.msg = r.msg /\ x.tweaks = r.tweaks /\ x.psig = res.out.psig
    BY <1>7, OkIsNoError
  <2> HIDE DEF x
  <2>5. Bound(sst[p].st, x)
    BY <2>1, <2>4 DEF Bound
  <2>6. /\ x.list \in DeliverableLists
        /\ \E q \in Asked : x.msg = q.msg /\ x.tweaks = q.tweaks
        /\ PartialSign(sst[p].st, x.list, x.msg, x.tweaks).ok
        /\ PartialSign(sst[p].st, x.list, x.msg, x.tweaks).val = x.psig
    BY <2>1, <2>4
  <2> QED
    BY <1>3, <1>7, <2>2, <2>3, <2>4, <2>5, <2>6 DEF Signed
<1> QED
  BY <1>4, <1>5, <1>6, <1>7, CallCases

LEMMA SignerRestartQuiet ==
    ASSUME SignTypeOK, NEW p \in Honest, SignerRestart(p)
    PROVE  Elsewhere(p) /\ Quiet(p)
BY DEF SignerRestart, Elsewhere, Quiet, NewSigner, Driver, SignTypeOK

LEMMA SignerSteps ==
    ASSUME SignTypeOK, [Next]_vars
    PROVE  \/ UNCHANGED svars
           \/ \E p \in Honest : Elsewhere(p) /\ (Quiet(p) \/ Drawn(p) \/ Signed(p))
BY SignerRestartQuiet, SignerStep1Draws, SignerFinalizeSigns
   DEF Next, Progress, SignerCall, CoordinatorCall, CoordinatorCreate,
       CoordinatorStep1, CoordinatorStep2, vars, svars

-----------------------------------------------------------------------------
(* Nonces. *)

(***************************************************************************)
(* Every nonce sent was made from a random value that was drawn, and every *)
(* partial signature uses a nonce that was sent, on what it is bound to.   *)
(***************************************************************************)
NoncesInv ==
    /\ \A p \in Honest : \A m \in nonces[p] : \E random \in drawn[p] : Made(p, m, random)
    /\ \A p \in Honest : \A x \in psigs[p] :
          \E m \in nonces[p] : m.nonce = x.pubnonce /\ Bound(m, x)

(***************************************************************************)
(* The nonce that a driver holds has not signed yet.                       *)
(***************************************************************************)
UnusedInv ==
    \A p \in Honest : sst[p].phase = "Step1" =>
        \A x \in psigs[p] : x.pubnonce # PubNonce(sst[p].st.secnonce)

(***************************************************************************)
(* Nonces of one signer that are equal were made from the same inputs.     *)
(***************************************************************************)
LEMMA EqualNonces ==
    ASSUME NEW p \in Honest, NEW m1, NEW m2, NEW r1 \in Randoms, NEW r2 \in Randoms,
           Made(p, m1, r1), Made(p, m2, r2), m1.nonce = m2.nonce
    PROVE  /\ r1 = r2
           /\ m1.msg = m2.msg
           /\ XOnly(NonceKey(Key.threshold_pubkey, m1.tweaks).val)
                 = XOnly(NonceKey(Key.threshold_pubkey, m2.tweaks).val)
<1> DEFINE a1 == [msg |-> m1.msg, tweaks |-> m1.tweaks]
           a2 == [msg |-> m2.msg, tweaks |-> m2.tweaks]
<1>1. /\ a1 \in NonceInputs /\ a2 \in NonceInputs
      /\ a1.msg = m1.msg /\ a1.tweaks = m1.tweaks
      /\ a2.msg = m2.msg /\ a2.tweaks = m2.tweaks
      /\ SampledNonce(p, r1, m1.msg, m1.tweaks).ok
      /\ SampledNonce(p, r2, m2.msg, m2.tweaks).ok
      /\ PubNonce(SampledNonce(p, r1, m1.msg, m1.tweaks).val)
           = PubNonce(SampledNonce(p, r2, m2.msg, m2.tweaks).val)
  BY DEF Made
<1> HIDE DEF a1, a2
<1> QED
  BY <1>1, NoncesAssumption

LEMMA NoncesInvStep == SignTypeOK /\ NoncesInv /\ [Next]_vars => NoncesInv'
<1> SUFFICES ASSUME SignTypeOK, NoncesInv, [Next]_vars PROVE NoncesInv'
  OBVIOUS
<1>1. CASE UNCHANGED svars
  BY <1>1 DEF NoncesInv, svars
<1>2. ASSUME NEW p \in Honest, Elsewhere(p), Quiet(p) \/ Drawn(p) \/ Signed(p)
      PROVE  NoncesInv'
  <2>1. /\ nonces[p] \subseteq nonces'[p] /\ drawn[p] \subseteq drawn'[p]
        /\ \A m \in nonces'[p] : m \in nonces[p] \/ \E random \in drawn'[p] : Made(p, m, random)
    BY <1>2 DEF Quiet, Drawn, Signed
  <2>2. ASSUME NEW x \in psigs'[p]
        PROVE  \E m \in nonces'[p] : m.nonce = x.pubnonce /\ Bound(m, x)
    <3>1. CASE x \in psigs[p]
      BY <2>1, <3>1 DEF NoncesInv
    <3>2. CASE x \notin psigs[p]
      <4>1. /\ sst[p].phase = "Step1"
            /\ x.pubnonce = PubNonce(sst[p].st.secnonce)
            /\ Bound(sst[p].st, x)
        BY <1>2, <2>2, <3>2 DEF Quiet, Drawn, Signed
      <4>2. PICK m \in nonces[p] : /\ m.nonce = PubNonce(sst[p].st.secnonce)
                                   /\ m.msg = sst[p].st.msg
                                   /\ m.tweaks = sst[p].st.tweaks
        BY <4>1 DEF SignTypeOK, SignerDriver, NewSigner, Driver
      <4> QED
        BY <2>1, <4>1, <4>2 DEF Bound
    <3> QED
      BY <3>1, <3>2
  <2>3. ASSUME NEW q \in Honest
        PROVE  /\ \A m \in nonces'[q] : \E random \in drawn'[q] : Made(q, m, random)
               /\ \A x \in psigs'[q] : \E m \in nonces'[q] : m.nonce = x.pubnonce /\ Bound(m, x)
    <3>1. CASE q = p
      BY <2>1, <2>2, <3>1 DEF NoncesInv
    <3>2. CASE q # p
      BY <1>2, <3>2 DEF NoncesInv, Elsewhere
    <3> QED
      BY <3>1, <3>2
  <2> QED
    BY <2>3 DEF NoncesInv
<1> QED
  BY <1>1, <1>2, SignerSteps

LEMMA NoncesInvariant == Spec => [](SignTypeOK /\ NoncesInv)
<1>1. Init => NoncesInv
  BY DEF Init, NoncesInv
<1> QED
  BY <1>1, SignTypeOKInit, SignTypeOKStep, NoncesInvStep, PTL DEF Spec

LEMMA UsedOnceStep ==
    ASSUME FreshRandoms, SignTypeOK, NoncesInv, UnusedInv, NonceUsedOnce, [Next]_vars
    PROVE  (UnusedInv /\ NonceUsedOnce)'
<1>1. CASE UNCHANGED svars
  BY <1>1 DEF UnusedInv, NonceUsedOnce, svars
<1>2. ASSUME NEW p \in Honest, Elsewhere(p), Quiet(p) \/ Drawn(p) \/ Signed(p)
      PROVE  (UnusedInv /\ NonceUsedOnce)'
  <2>1. /\ \A x, y \in psigs'[p] : x.pubnonce = y.pubnonce => x = y
        /\ sst'[p].phase = "Step1" =>
              \A x \in psigs'[p] : x.pubnonce # PubNonce(sst'[p].st.secnonce)
    <3>1. CASE Quiet(p)
      BY <3>1 DEF Quiet, UnusedInv, NonceUsedOnce
    <3>2. CASE Drawn(p)
      <4>0. PICK random \in Randoms : \E m :
               /\ random \notin drawn[p]
               /\ Made(p, m, random)
               /\ psigs'[p] = psigs[p]
               /\ m.nonce = PubNonce(sst'[p].st.secnonce)
        BY <3>2 DEF Drawn
      <4>1. PICK m :
               /\ random \notin drawn[p]
               /\ Made(p, m, random)
               /\ psigs'[p] = psigs[p]
               /\ m.nonce = PubNonce(sst'[p].st.secnonce)
        BY <4>0
      <4>2. ASSUME NEW x \in psigs[p] PROVE x.pubnonce # m.nonce
        <5>1. PICK sent \in nonces[p] : sent.nonce = x.pubnonce
          BY DEF NoncesInv
        <5>2. PICK before \in drawn[p] : Made(p, sent, before)
          BY DEF NoncesInv
        <5>3. before \in Randoms
          BY DEF SignTypeOK
        <5> QED
          BY <4>1, <5>1, <5>2, <5>3, EqualNonces
      <4> QED
        BY <4>1, <4>2 DEF NonceUsedOnce
    <3>3. CASE Signed(p)
      BY <3>3 DEF Signed, UnusedInv, NonceUsedOnce
    <3> QED
      BY <1>2, <3>1, <3>2, <3>3
  <2>2. ASSUME NEW q \in Honest, q # p
        PROVE  sst'[q] = sst[q] /\ psigs'[q] = psigs[q]
    BY <1>2, <2>2 DEF Elsewhere
  <2>3. UnusedInv'
    BY <2>1, <2>2 DEF UnusedInv
  <2>4. NonceUsedOnce'
    BY <2>1, <2>2 DEF NonceUsedOnce
  <2> QED
    BY <2>3, <2>4
<1> QED
  BY <1>1, <1>2, SignerSteps

(***************************************************************************)
(* A signer whose randomness is fresh answers for a nonce at most once,    *)
(* over all its drivers, whatever lists it is given and however often.     *)
(***************************************************************************)
THEOREM NoncesAreUsedOnce == ASSUME FreshRandoms PROVE Spec => []NonceUsedOnce
<1>1. Init => UnusedInv /\ NonceUsedOnce
  BY DEF Init, UnusedInv, NonceUsedOnce
<1>2. (SignTypeOK /\ NoncesInv) /\ UnusedInv /\ NonceUsedOnce /\ [Next]_vars
         => (UnusedInv /\ NonceUsedOnce)'
  BY UsedOnceStep
<1> QED
  BY <1>1, <1>2, NoncesInvariant, PTL DEF Spec

(***************************************************************************)
(* A signer that gives message and tweaks at round 1 never uses one nonce  *)
(* for two messages or keys, even if its randomness repeats.               *)
(***************************************************************************)
THEOREM NoncesKeepTheirRequest == Spec => []NonceKeepsItsRequest
<1>1. ASSUME NEW m, NEW x, Bound(m, x), m.msg # {}, m.tweaks # {}
      PROVE  m.msg = {x.msg} /\ m.tweaks = {x.tweaks}
  BY <1>1 DEF Bound
<1>2. SignTypeOK /\ NoncesInv => NonceKeepsItsRequest
  <2> SUFFICES ASSUME SignTypeOK, NoncesInv, NEW p \in Honest,
                      NEW x \in psigs[p], NEW y \in psigs[p], x.pubnonce = y.pubnonce,
                      AlwaysTied(p, x.pubnonce)
               PROVE  /\ x.msg = y.msg
                      /\ XOnly(TweakedKey(x.tweaks)) = XOnly(TweakedKey(y.tweaks))
    BY DEF NonceKeepsItsRequest
  <2>1. PICK m1 \in nonces[p] : m1.nonce = x.pubnonce /\ Bound(m1, x)
    BY DEF NoncesInv
  <2>2. PICK m2 \in nonces[p] : m2.nonce = y.pubnonce /\ Bound(m2, y)
    BY DEF NoncesInv
  <2>3. PICK r1 \in drawn[p] : Made(p, m1, r1)
    BY DEF NoncesInv
  <2>4. PICK r2 \in drawn[p] : Made(p, m2, r2)
    BY DEF NoncesInv
  <2>5. r1 \in Randoms /\ r2 \in Randoms
    BY DEF SignTypeOK
  <2>6. /\ m1.msg = m2.msg
        /\ XOnly(NonceKey(Key.threshold_pubkey, m1.tweaks).val)
              = XOnly(NonceKey(Key.threshold_pubkey, m2.tweaks).val)
    BY <2>1, <2>2, <2>3, <2>4, <2>5, EqualNonces
  <2>7. /\ m1.msg = {x.msg} /\ m1.tweaks = {x.tweaks}
        /\ m2.msg = {y.msg} /\ m2.tweaks = {y.tweaks}
    BY <1>1, <2>1, <2>2 DEF AlwaysTied
  <2>8. ASSUME NEW tweaks
        PROVE  NonceKey(Key.threshold_pubkey, {tweaks}).val = TweakedKey(tweaks)
    <3>1. (CHOOSE ts \in {tweaks} : TRUE) = tweaks
      OBVIOUS
    <3> QED
      BY <3>1 DEF NonceKey, TweakedKey
  <2> QED
    BY <2>6, <2>7, <2>8
<1> QED
  BY <1>2, NoncesInvariant, PTL

-----------------------------------------------------------------------------
(* The life cycle of the drivers. *)

Phases ==
    [d \in Honest \cup {Coordinator} |->
        IF d = Coordinator THEN kst.phase ELSE sst[d].phase]

StepsOf == [d \in Honest \cup {Coordinator} |-> <<"Initial", "Step1">>]

LEMMA CallPhases ==
    ASSUME NEW d, NEW expected, NEW res, NEW call, call = Transition(d, expected, res)
    PROVE  \/ call.state = d
           \/ IsActive(d) /\ call.state.phase = "Failed"
           \/ d.phase = expected /\ res.ok /\ call.state.phase = res.phase
BY DEF Transition, Failed, Driver

LEMMA LifecycleMoves ==
    ASSUME NEW d \in Honest \cup {Coordinator}, NEW from, NEW to,
           from = Phases[d], Phases' = [Phases EXCEPT ![d] = to],
           \/ from = "Initial" /\ to \in {"Step1", "Failed"}
           \/ from = "Step1" /\ to \in {"Successful", "Failed"}
           \/ to = "Initial" /\ (MaxSessions > 1 \/ from = "Absent")
    PROVE  LC!Next
<1>1. /\ StepsOf[d] = <<"Initial", "Step1">> /\ Len(StepsOf[d]) = 2
      /\ DOMAIN StepsOf[d] = {1, 2}
      /\ StepsOf[d][1] = "Initial" /\ StepsOf[d][2] = "Step1"
  <2>1. StepsOf[d] = <<"Initial", "Step1">>
    BY DEF StepsOf
  <2> QED
    BY <2>1
<1>2. CASE from = "Initial" /\ to = "Step1"
  <2>1. 1 \in 1 .. (Len(StepsOf[d]) - 1) /\ StepsOf[d][1 + 1] = "Step1"
    BY <1>1
  <2>2. LC!Proceed(d)
    BY <1>1, <1>2, <2>1 DEF LC!Proceed, LC!Move, Phases, StepsOf
  <2> QED
    BY <2>2 DEF LC!Next
<1>3. CASE from = "Step1" /\ to = "Successful"
  <2>1. LC!Succeed(d)
    BY <1>1, <1>3 DEF LC!Succeed, LC!Move, Phases, StepsOf
  <2> QED
    BY <2>1 DEF LC!Next
<1>4. CASE from \in {"Initial", "Step1"} /\ to = "Failed"
  <2>1. PICK k \in DOMAIN StepsOf[d] : from = StepsOf[d][k]
    BY <1>1, <1>4
  <2>2. LC!Fail(d)
    BY <1>4, <2>1 DEF LC!Fail, LC!Move, Phases, StepsOf
  <2> QED
    BY <2>2 DEF LC!Next
<1>5. CASE to = "Initial" /\ (MaxSessions > 1 \/ from = "Absent")
  <2>1. 1 \in DOMAIN StepsOf[d] /\ Phases' = [Phases EXCEPT ![d] = StepsOf[d][1]]
    BY <1>1, <1>5
  <2>2. LC!New(d)
    BY <1>5, <2>1 DEF LC!New, Phases, StepsOf
  <2> QED
    BY <2>2 DEF LC!Next
<1> QED
  BY <1>2, <1>3, <1>4, <1>5

(***************************************************************************)
(* An absent coordinator is one that was not created yet.                  *)
(***************************************************************************)
CreatedInv == ksessions = 0 => kst.phase = "Absent"

LEMMA CreatedInvStep == SignTypeOK /\ CreatedInv /\ [Next]_vars => CreatedInv'
<1> SUFFICES ASSUME SignTypeOK, CreatedInv, [Next]_vars PROVE CreatedInv'
  OBVIOUS
<1>1. CASE CoordinatorCreate
  BY <1>1 DEF CoordinatorCreate, CreatedInv, SignTypeOK
<1>2. CASE CoordinatorStep1 \/ CoordinatorStep2
  BY <1>2 DEF CoordinatorStep1, CoordinatorStep2, CreatedInv
<1>3. CASE UNCHANGED <<kst, ksessions>>
  BY <1>3 DEF CreatedInv
<1> QED
  BY <1>1, <1>2, <1>3 DEF Next, Progress, SignerCall, CoordinatorCall, SignerStep1,
                         SignerFinalize, SignerRestart, kvars, vars

LEMMA CoordinatorIsNoSigner == Coordinator \notin Honest
BY HonestAssumption DEF Coordinator

LEMMA SignerPhase ==
    ASSUME SignTypeOK, NEW p \in Honest, NEW driver,
           sst' = [sst EXCEPT ![p] = driver], kst' = kst
    PROVE  /\ p \in Honest \cup {Coordinator}
           /\ sst[p].phase = Phases[p]
           /\ Phases' = [Phases EXCEPT ![p] = driver.phase]
           /\ Phases[p] # "Step2"
           /\ driver.phase = sst[p].phase => Phases' = Phases
<1>1. Phases' = [Phases EXCEPT ![p] = driver.phase]
  BY CoordinatorIsNoSigner DEF Phases, SignTypeOK
<1> QED
  BY <1>1, CoordinatorIsNoSigner
     DEF Phases, SignTypeOK, SignerDriver, NewSigner, Driver

LEMMA CoordinatorPhase ==
    ASSUME SignTypeOK, sst' = sst
    PROVE  /\ Coordinator \in Honest \cup {Coordinator}
           /\ kst.phase = Phases[Coordinator]
           /\ Phases' = [Phases EXCEPT ![Coordinator] = kst'.phase]
           /\ Phases[Coordinator] # "Step2"
           /\ kst'.phase = kst.phase => Phases' = Phases
<1>1. Phases' = [Phases EXCEPT ![Coordinator] = kst'.phase]
  BY CoordinatorIsNoSigner DEF Phases
<1>2. Phases[Coordinator] = kst.phase
  BY DEF Phases
<1>3. kst'.phase = kst.phase => Phases' = Phases
  BY DEF Phases
<1>4. kst.phase # "Step2"
  BY DEF SignTypeOK, SignCoordinatorDriver, NewCoordinator, Absent, Driver
<1> QED
  BY <1>1, <1>2, <1>3, <1>4

LEMMA SignLifecycleStep ==
    SignTypeOK /\ CreatedInv /\ [Next]_vars => [LC!Next]_Phases
<1> SUFFICES ASSUME SignTypeOK, CreatedInv, [Next]_vars
             PROVE  LC!Next \/ UNCHANGED Phases
  OBVIOUS
<1>1. ASSUME NEW p \in Honest, SignerStep1(p) PROVE LC!Next \/ UNCHANGED Phases
  <2>1. PICK r \in Asked, binding \in Bindings,
             random \in IF FreshRandoms THEN Randoms \ drawn[p] ELSE Randoms :
           LET msg    == Optional(binding.msg, r.msg)
               tweaks == Optional(binding.tweaks, r.tweaks)
               call   == Transition(sst[p], "Initial",
                                    SignerInitialNext(sst[p].st, msg, tweaks, random))
           IN  /\ sst' = [sst EXCEPT ![p] = call.state]
               /\ serr' = [serr EXCEPT ![p] = ErrorOf(call.reply)]
               /\ nonces' = [nonces EXCEPT ![p] =
                                IF call.reply.ok
                                THEN @ \cup {[nonce |-> call.reply.val.nonce,
                                              msg |-> msg, tweaks |-> tweaks]}
                                ELSE @]
               /\ drawn' = [drawn EXCEPT ![p] = @ \cup {random}]
    BY <1>1 DEF SignerStep1
  <2> DEFINE msg == Optional(binding.msg, r.msg)
             tweaks == Optional(binding.tweaks, r.tweaks)
             res == SignerInitialNext(sst[p].st, msg, tweaks, random)
             call == Transition(sst[p], "Initial", res)
             driver == call.state
  <2>3. res.ok => res.phase = "Step1"
    BY ErrorIsNotOk, Zenon DEF SignerInitialNext, Advance
  <2>4. sst' = [sst EXCEPT ![p] = driver] /\ kst' = kst
    BY <1>1, <2>1 DEF SignerStep1, kvars
  <2> HIDE DEF res
  <2>5. \/ driver = sst[p] \/ (IsActive(sst[p]) /\ driver.phase = "Failed")
        \/ (sst[p].phase = "Initial" /\ driver.phase = "Step1")
    <3>1. call = Transition(sst[p], "Initial", res)
      OBVIOUS
    <3> HIDE DEF call
    <3> QED
      BY <2>3, <3>1, CallPhases
  <2> HIDE DEF driver
  <2>6. /\ p \in Honest \cup {Coordinator}
        /\ sst[p].phase = Phases[p] /\ Phases[p] # "Step2"
        /\ Phases' = [Phases EXCEPT ![p] = driver.phase]
        /\ driver.phase = sst[p].phase => Phases' = Phases
    BY <2>4, SignerPhase
  <2> QED
    BY <2>5, <2>6, LifecycleMoves DEF IsActive
<1>2. ASSUME NEW p \in Honest, SignerFinalize(p) PROVE LC!Next \/ UNCHANGED Phases
  <2>1. PICK r \in Asked, list \in DeliverableLists :
           sst' = [sst EXCEPT ![p] =
                     Transition(sst[p], "Step1",
                                SignerStep1Next(sst[p].st, list, r.msg, r.tweaks)).state]
    BY <1>2 DEF SignerFinalize
  <2> DEFINE res == SignerStep1Next(sst[p].st, list, r.msg, r.tweaks)
             call == Transition(sst[p], "Step1", res)
             driver == call.state
  <2>3. res.ok => res.phase = "Successful"
    BY SignerStep1NextOk
  <2>4. sst' = [sst EXCEPT ![p] = driver] /\ kst' = kst
    BY <1>2, <2>1 DEF SignerFinalize, kvars
  <2> HIDE DEF res
  <2>5. \/ driver = sst[p] \/ (IsActive(sst[p]) /\ driver.phase = "Failed")
        \/ (sst[p].phase = "Step1" /\ driver.phase = "Successful")
    <3>1. call = Transition(sst[p], "Step1", res)
      OBVIOUS
    <3> HIDE DEF call
    <3> QED
      BY <2>3, <3>1, CallPhases
  <2> HIDE DEF driver
  <2>6. /\ p \in Honest \cup {Coordinator}
        /\ sst[p].phase = Phases[p] /\ Phases[p] # "Step2"
        /\ Phases' = [Phases EXCEPT ![p] = driver.phase]
        /\ driver.phase = sst[p].phase => Phases' = Phases
    BY <2>4, SignerPhase
  <2> QED
    BY <2>5, <2>6, LifecycleMoves DEF IsActive
<1>3. ASSUME NEW p \in Honest, SignerRestart(p) PROVE LC!Next \/ UNCHANGED Phases
  <2>1. /\ sst' = [sst EXCEPT ![p] = NewSigner(p)] /\ kst' = kst
        /\ NewSigner(p).phase = "Initial"
    BY <1>3 DEF SignerRestart, kvars, NewSigner, Driver
  <2>2. MaxSessions > 1
    BY <1>3, SwitchesAssumption DEF SignerRestart, SignTypeOK
  <2>3. /\ p \in Honest \cup {Coordinator}
        /\ Phases' = [Phases EXCEPT ![p] = NewSigner(p).phase]
    BY <2>1, SignerPhase
  <2> QED
    BY <2>1, <2>2, <2>3, LifecycleMoves
<1>4. ASSUME CoordinatorCreate PROVE LC!Next \/ UNCHANGED Phases
  <2>1. kst'.phase = "Initial" /\ sst' = sst
    BY <1>4 DEF CoordinatorCreate, NewCoordinator, Driver, svars
  <2>2. MaxSessions > 1 \/ kst.phase = "Absent"
    BY <1>4, SwitchesAssumption DEF CoordinatorCreate, SignTypeOK, CreatedInv
  <2> QED
    BY <2>1, <2>2, CoordinatorPhase, LifecycleMoves
<1>5. ASSUME CoordinatorStep1 PROVE LC!Next \/ UNCHANGED Phases
  <2>1. \E list : kst' = Transition(kst, "Initial",
                                    SignCoordinatorInitialNext(kst.st, list)).state
    BY <1>5 DEF CoordinatorStep1
  <2>2. PICK list : kst' = Transition(kst, "Initial",
                                      SignCoordinatorInitialNext(kst.st, list)).state
    BY <2>1
  <2> DEFINE res == SignCoordinatorInitialNext(kst.st, list)
  <2>3. res.ok => res.phase = "Step1"
    BY CoordinatorInitialNextOk
  <2>4. sst' = sst
    BY <1>5 DEF CoordinatorStep1, svars
  <2>5. kst' = Transition(kst, "Initial", res).state
    BY <2>2
  <2> HIDE DEF res
  <2>6. \/ kst' = kst \/ (IsActive(kst) /\ kst'.phase = "Failed")
        \/ (kst.phase = "Initial" /\ kst'.phase = "Step1")
    <3> DEFINE call == Transition(kst, "Initial", res)
    <3>1. call = Transition(kst, "Initial", res) /\ kst' = call.state
      BY <2>5
    <3> HIDE DEF call
    <3> QED
      BY <2>3, <3>1, CallPhases
  <2> QED
    BY <2>4, <2>6, CoordinatorPhase, LifecycleMoves DEF IsActive
<1>6. ASSUME CoordinatorStep2 PROVE LC!Next \/ UNCHANGED Phases
  <2>1. \E list, msg, tweaks :
           kst' = Transition(kst, "Step1",
                             SignCoordinatorStep1Next(kst.st, list, msg, tweaks)).state
    BY <1>6 DEF CoordinatorStep2
  <2>2. PICK list, msg, tweaks :
           kst' = Transition(kst, "Step1",
                             SignCoordinatorStep1Next(kst.st, list, msg, tweaks)).state
    BY <2>1
  <2> DEFINE res == SignCoordinatorStep1Next(kst.st, list, msg, tweaks)
  <2>3. res.ok => res.phase = "Successful"
    BY CoordinatorStep1NextOk
  <2>4. sst' = sst
    BY <1>6 DEF CoordinatorStep2, svars
  <2>5. kst' = Transition(kst, "Step1", res).state
    BY <2>2
  <2> HIDE DEF res
  <2>6. \/ kst' = kst \/ (IsActive(kst) /\ kst'.phase = "Failed")
        \/ (kst.phase = "Step1" /\ kst'.phase = "Successful")
    <3> DEFINE call == Transition(kst, "Step1", res)
    <3>1. call = Transition(kst, "Step1", res) /\ kst' = call.state
      BY <2>5
    <3> HIDE DEF call
    <3> QED
      BY <2>3, <3>1, CallPhases
  <2> QED
    BY <2>4, <2>6, CoordinatorPhase, LifecycleMoves DEF IsActive
<1>7. CASE UNCHANGED vars
  BY <1>7 DEF vars, Phases
<1> QED
  BY <1>1, <1>2, <1>3, <1>4, <1>5, <1>6, <1>7
     DEF Next, Progress, SignerCall, CoordinatorCall

(***************************************************************************)
(* Whatever is delivered and however the steps are called, a driver of a   *)
(* signing session passes its two phases in order and never leaves Failed  *)
(* or Successful; only a restart begins again.                             *)
(***************************************************************************)
THEOREM SignDriversKeepTheirLifecycle == Spec => ImplementsSignLifecycle
<1>1. Init => SignTypeOK /\ CreatedInv
  BY SignTypeOKInit DEF Init, CreatedInv, Absent, Driver
<1>2. SignTypeOK /\ CreatedInv /\ [Next]_vars => (SignTypeOK /\ CreatedInv)'
  BY SignTypeOKStep, CreatedInvStep
<1>3. Init => LC!Init
  BY CoordinatorIsNoSigner DEF Init, LC!Init, NewSigner, Absent, Driver
<1>4. SignTypeOK /\ CreatedInv /\ [Next]_vars => [LC!Next]_Phases
  BY SignLifecycleStep
<1> QED
  BY <1>1, <1>2, <1>3, <1>4, PTL DEF Spec, ImplementsSignLifecycle, LC!Spec, Phases
=============================================================================
