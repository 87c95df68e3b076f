-------------------------- MODULE SigningViewProofs ------------------------
(***************************************************************************)
(* Theorems about what the signers of a session and its coordinator agree  *)
(* on.                                                                     *)
(***************************************************************************)
EXTENDS SigningProofs, SequenceTheorems

-----------------------------------------------------------------------------
(***************************************************************************)
(* ListsOf makes the lists whose message at each position is for the id at *)
(* that position of the group.                                             *)
(***************************************************************************)
Lists(group, from, n) ==
    {list \in Seq(UNION {from[group[k]] : k \in DOMAIN group}) :
        Len(list) = n /\ \A k \in 1 .. n : list[k] \in from[group[k]]}

LEMMA ListsOfMembers ==
    ASSUME NEW n \in Nat, NEW group \in [1 .. n -> Nat], NEW from
    PROVE  ListsOf(group, from) = Lists(group, from, n)
<1> DEFINE S == 1 .. n
           U == UNION {from[group[k]] : k \in DOMAIN group}
           V == SUBSET Seq(U)
           Step(lists, q) == Extended(lists, from[q])
           h == [i \in S |-> [lists \in V |-> Step(lists, group[i])]]
           Folds(iter) ==
               iter = [s \in SUBSET S |->
                          IF s = {} THEN {<<>>}
                          ELSE Step(iter[s \ {Max(s)}], group[Max(s)])]
           iter == CHOOSE iter : Folds(iter)
<1>0. DOMAIN group = S /\ \A k \in S : \A m \in from[group[k]] : m \in U
  OBVIOUS
<1> HIDE DEF U
<1>1. ASSUME NEW i \in S, NEW lists \in V PROVE Step(lists, group[i]) \in V
  <2>1. ASSUME NEW list \in lists, NEW m \in from[group[i]] PROVE Append(list, m) \in Seq(U)
    <3>1. list \in Seq(U) /\ m \in U
      BY <1>0
    <3> QED
      BY <3>1, AppendProperties
  <2> QED
    BY <2>1 DEF Extended
<1>2. {<<>>} \in V
  OBVIOUS
<1>3. h \in [S -> [V -> V]]
  <2> HIDE DEF V, Step
  <2> QED
    BY <1>1
<1> HIDE DEF V, Step
<1>4. PICK G \in [SUBSET S -> V] : \A s \in SUBSET S : FoldStep(G, {<<>>}, h, s)
  <2> HIDE DEF h
  <2> QED
    BY <1>2, <1>3, FoldExists
<1>5. Folds(G)
  <2>1. ASSUME NEW s \in SUBSET S
        PROVE  G[s] = IF s = {} THEN {<<>>} ELSE Step(G[s \ {Max(s)}], group[Max(s)])
    <3>1. s \ {Max(s)} \in SUBSET S /\ G[s \ {Max(s)}] \in V
      BY <1>4
    <3>2. s # {} => Max(s) \in 1 .. n
      BY GreatestElement
    <3>3. s # {} => h[Max(s)][G[s \ {Max(s)}]] = Step(G[s \ {Max(s)}], group[Max(s)])
      BY <3>1, <3>2
    <3> HIDE DEF h
    <3> QED
      BY <1>4, <3>3 DEF FoldStep
  <2> QED
    BY <1>4, <2>1
<1>6. Folds(iter)
  <2> HIDE DEF Folds
  <2> QED
    BY <1>5
<1>7. ListsOf(group, from) = iter[S]
  <2>1. DOMAIN group = S
    BY <1>0
  <2> QED
    BY <2>1, Zenon DEF ListsOf, FoldLeft, MapThenFoldSet, Step
<1> HIDE DEF iter
<1> DEFINE T == {m \in 0 .. n : iter[1 .. m] = Lists(group, from, m)}
<1>8. 0 \in T
  <2>1. 1 .. 0 = {} /\ {} \in SUBSET S
    OBVIOUS
  <2>2. iter[1 .. 0] = {<<>>}
    BY <1>6, <2>1
  <2>3. Lists(group, from, 0) = {<<>>}
    <3>1. \A list \in Seq(U) : Len(list) = 0 <=> list = <<>>
      BY EmptySeq
    <3>2. <<>> \in Seq(U) /\ \A k : k \notin 1 .. 0
      OBVIOUS
    <3>3. Lists(group, from, 0)
             = {list \in Seq(U) : Len(list) = 0 /\ \A k \in 1 .. 0 : list[k] \in from[group[k]]}
      BY Zenon DEF Lists, U
    <3>4. ASSUME NEW list PROVE list \in Lists(group, from, 0) <=> list = <<>>
      BY <3>1, <3>2, <3>3
    <3> DEFINE A == Lists(group, from, 0)
    <3>5. \A list : list \in A <=> list = <<>>
      BY <3>4
    <3> HIDE DEF A
    <3>6. A = {<<>>}
      BY <3>5
    <3> QED
      BY <3>6 DEF A
  <2>4. 0 \in 0 .. n
    OBVIOUS
  <2> QED
    BY <2>2, <2>3, <2>4, Zenon DEF T
<1>9. ASSUME NEW m \in 1 .. n, m - 1 \in T PROVE m \in T
  <2>1. /\ 1 .. m \in SUBSET S /\ 1 .. m # {} /\ m \in 1 .. m
        /\ (1 .. m) \ {m} = 1 .. m - 1
    BY IntervalParts
  <2>2. Max(1 .. m) = m
    BY <2>1, MaxOfInterval
  <2>3. iter[1 .. m] = Step(iter[(1 .. m) \ {Max(1 .. m)}], group[Max(1 .. m)])
    BY <1>6, <2>1
  <2>4. iter[1 .. m] = Step(Lists(group, from, m - 1), group[m])
    BY <1>9, <2>1, <2>2, <2>3
  <2>5. ASSUME NEW l \in Lists(group, from, m - 1), NEW x \in from[group[m]]
        PROVE  Append(l, x) \in Lists(group, from, m)
    <3>1. l \in Seq(U) /\ x \in U /\ Len(l) = m - 1 /\ m \in Nat
      BY <1>0 DEF Lists, U
    <3>2. /\ Append(l, x) \in Seq(U) /\ Len(Append(l, x)) = m
          /\ \A k \in 1 .. (m - 1) : Append(l, x)[k] = l[k]
          /\ Append(l, x)[m] = x
      BY <3>1, AppendProperties
    <3>3. \A k \in 1 .. (m - 1) : l[k] \in from[group[k]]
      BY DEF Lists
    <3>4. \A k \in 1 .. m : k \in 1 .. (m - 1) \/ k = m
      OBVIOUS
    <3>5. \A k \in 1 .. m : Append(l, x)[k] \in from[group[k]]
      BY <3>2, <3>3, <3>4
    <3> QED
      BY <3>2, <3>5 DEF Lists, U
  <2>6. ASSUME NEW list \in Lists(group, from, m)
        PROVE  \E l \in Lists(group, from, m - 1), x \in from[group[m]] : list = Append(l, x)
    <3>1. list \in Seq(U) /\ Len(list) = m /\ m \in Nat /\ m >= 1
      BY DEF Lists, U
    <3> DEFINE l == SubSeq(list, 1, m - 1)
               x == list[m]
    <3>2. \A k \in 1 .. m : list[k] \in from[group[k]]
      BY DEF Lists
    <3>3. x \in from[group[m]] /\ x \in U
      BY <1>0, <2>1, <3>2
    <3>4. /\ l \in Seq(U) /\ Len(l) = m - 1
          /\ \A k \in 1 .. (m - 1) : l[k] = list[k]
      BY <3>1, SubSeqProperties
    <3>5. \A k \in 1 .. (m - 1) : l[k] \in from[group[k]]
      BY <3>2, <3>4
    <3>6. list = Append(l, x)
      <4>1. Append(l, x) \in Seq(U) /\ Len(Append(l, x)) = m
        BY <3>1, <3>3, <3>4, AppendProperties
      <4>2. \A k \in 1 .. m : Append(l, x)[k] = list[k]
        <5>1. \A k \in 1 .. m : k \in 1 .. (m - 1) \/ k = m
          OBVIOUS
        <5>2. /\ \A k \in 1 .. (m - 1) : Append(l, x)[k] = l[k]
              /\ Append(l, x)[m] = x
          BY <3>1, <3>3, <3>4, AppendProperties
        <5> HIDE DEF l
        <5> QED
          BY <3>4, <5>1, <5>2
      <4> HIDE DEF l, x
      <4> QED
        BY <3>1, <4>1, <4>2, SeqEqual
    <3>7. l \in Lists(group, from, m - 1)
      <4> HIDE DEF l
      <4> QED
        BY <3>4, <3>5 DEF Lists, U
    <3> HIDE DEF l, x
    <3> QED
      BY <3>3, <3>6, <3>7
  <2>7. Step(Lists(group, from, m - 1), group[m]) = Lists(group, from, m)
    <3>1. ASSUME NEW list
          PROVE  list \in Extended(Lists(group, from, m - 1), from[group[m]])
                    <=> \E l \in Lists(group, from, m - 1), x \in from[group[m]] :
                            list = Append(l, x)
      BY DEF Extended
    <3>2. ASSUME NEW list
          PROVE  list \in Extended(Lists(group, from, m - 1), from[group[m]])
                    <=> list \in Lists(group, from, m)
      <4> HIDE DEF Lists, Step, T
      <4>1. ASSUME list \in Lists(group, from, m)
            PROVE  list \in Extended(Lists(group, from, m - 1), from[group[m]])
        BY <2>6, <3>1, <4>1
      <4>2. ASSUME list \in Extended(Lists(group, from, m - 1), from[group[m]])
            PROVE  list \in Lists(group, from, m)
        <5>1. PICK l \in Lists(group, from, m - 1), x \in from[group[m]] : list = Append(l, x)
          BY <3>1, <4>2
        <5> QED
          BY <2>5, <5>1
      <4> QED
        BY <4>1, <4>2
    <3>3. Extended(Lists(group, from, m - 1), from[group[m]]) = Lists(group, from, m)
      <4> DEFINE A == Extended(Lists(group, from, m - 1), from[group[m]])
                 B == Lists(group, from, m)
      <4>1. \A list : list \in A <=> list \in B
        BY <3>2
      <4> HIDE DEF A, B
      <4>2. A = B
        BY <4>1
      <4> QED
        BY <4>2 DEF A, B
    <3> QED
      BY <3>3, Zenon DEF Step
  <2> QED
    BY <2>4, <2>7
<1> HIDE DEF T
<1>10. n \in T
  <2>1. n \in 0 .. n
    OBVIOUS
  <2> QED
    BY <1>8, <1>9, <2>1, InductionUpTo
<1> QED
  BY <1>7, <1>10 DEF T

(***************************************************************************)
(* A list for a group has one message per id of the group, in its order.   *)
(***************************************************************************)
LEMMA ListForGroup ==
    ASSUME NEW group \in Groups, NEW from, NEW list \in ListsOf(group, from)
    PROVE  /\ Len(group) \in Nat /\ Len(list) = Len(group)
           /\ DOMAIN list = 1 .. Len(group)
           /\ \A k \in 1 .. Len(group) : /\ group[k] \in Ids /\ group[k] \in Nat
                                         /\ list[k] \in from[group[k]]
<1> DEFINE n == Len(group)
<1>1. n \in Nat /\ group \in [1 .. n -> Nat]
  BY InputsAssumption
<1> HIDE DEF n
<1>2. list \in Lists(group, from, n)
  BY <1>1, ListsOfMembers
<1>3. /\ Len(list) = n /\ DOMAIN list = 1 .. n
      /\ \A k \in 1 .. n : list[k] \in from[group[k]]
  BY <1>2 DEF Lists
<1>4. ASSUME NEW k \in 1 .. n PROVE group[k] \in Ids /\ group[k] \in Nat
  <2>1. group[k] \in Range(group)
    BY <1>1 DEF Range
  <2> QED
    BY <1>1, <2>1 DEF Ids
<1> QED
  BY <1>1, <1>3, <1>4 DEF n

LEMMA MadeFromMembers ==
    ASSUME NEW group \in Groups, NEW from, NEW n \in Nat, n = Len(group), NEW list \in Seq(UNION {from[q] : q \in Ids}),
           Len(list) = n, \A k \in 1 .. n : list[k] \in from[group[k]]
    PROVE  list \in ListsOf(group, from)
<1>1. n = Len(group) /\ group \in [1 .. n -> Nat]
  BY InputsAssumption
<1> DEFINE U == UNION {from[group[k]] : k \in DOMAIN group}
<1>2. list \in Seq(U)
  <2>1. DOMAIN list = 1 .. n /\ DOMAIN group = 1 .. n
    BY <1>1
  <2>2. \A k \in 1 .. n : list[k] \in U
    BY <2>1
  <2> HIDE DEF U
  <2> QED
    BY <2>1, <2>2
<1>3. list \in Lists(group, from, n)
  <2> HIDE DEF U
  <2> QED
    BY <1>2 DEF Lists, U
<1> QED
  BY <1>1, <1>3, ListsOfMembers

-----------------------------------------------------------------------------
(* The nonces that come in lists. *)

LEMMA SecretNonceType ==
    ASSUME NEW p \in Honest, NEW k \in SecretNonces(p)
    PROVE  k.k1 \in Scalar /\ k.k2 \in Scalar
BY ScalarsAssumption

LEMMA PubNonceType ==
    ASSUME NEW k, k.k1 \in Scalar, k.k2 \in Scalar
    PROVE  PubNonce(k).R1 = k.k1 /\ PubNonce(k).R2 = k.k2
BY ModOfScalar DEF PubNonce, MulG

LEMMA SentIsPossible ==
    ASSUME SignTypeOK, NoncesInv, NEW p \in Honest, NEW m \in nonces[p]
    PROVE  \E k \in SecretNonces(p) : m.nonce = PubNonce(k)
<1>1. PICK random \in Randoms : Made(p, m, random)
  BY DEF NoncesInv, SignTypeOK
<1> DEFINE a == [msg |-> m.msg, tweaks |-> m.tweaks]
           s == SampledNonce(p, random, a.msg, a.tweaks)
<1>2. a \in NonceInputs /\ s.ok /\ m.nonce = PubNonce(s.val)
  BY <1>1 DEF Made
<1> HIDE DEF a
<1>3. s.val \in SecretNonces(p)
  BY <1>2 DEF SecretNonces
<1> QED
  BY <1>2, <1>3

(***************************************************************************)
(* What is delivered to the coordinator is possible, or refused.           *)
(***************************************************************************)
LEMMA ContributionIsPossible ==
    ASSUME SignTypeOK, NoncesInv, NEW q \in Ids, NEW m \in ContributionsFrom[q],
           ~IsIdentity(m.nonce)
    PROVE  m \in PossibleFrom[q]
<1>1. CASE q \in Honest
  <2>1. PICK s \in nonces[q] : m = [id |-> q, nonce |-> s.nonce]
    BY <1>1 DEF ContributionsFrom, Contributions
  <2>2. PICK k \in SecretNonces(q) : s.nonce = PubNonce(k)
    BY <1>1, SentIsPossible
  <2> QED
    BY <1>1, <2>1, <2>2 DEF PossibleFrom
<1>2. CASE q \notin Honest
  <2>1. PICK x \in KnownNonces \cup NegatedNonces \cup {IdentityNonce} :
            m = [id |-> q, nonce |-> x]
    BY <1>2 DEF ContributionsFrom, FaultyContributions
  <2>2. x # IdentityNonce
    BY <2>1 DEF IsIdentity, IdentityNonce
  <2>3. ASSUME x \in NegatedNonces
        PROVE  x \in {[R1 |-> Neg(s.R1), R2 |-> Neg(s.R2)] : s \in PossibleNonces}
    <3>1. PICK p \in Honest : \E s \in nonces[p] :
              x = [R1 |-> Neg(s.nonce.R1), R2 |-> Neg(s.nonce.R2)]
      BY <2>3 DEF NegatedNonces
    <3>2. PICK s \in nonces[p] : x = [R1 |-> Neg(s.nonce.R1), R2 |-> Neg(s.nonce.R2)]
      BY <3>1
    <3>3. PICK k \in SecretNonces(p) : s.nonce = PubNonce(k)
      BY SentIsPossible
    <3>4. s.nonce \in PossibleNonces
      BY <3>3 DEF PossibleNonces
    <3> QED
      BY <3>2, <3>4
  <2> QED
    BY <1>2, <2>1, <2>2, <2>3 DEF PossibleFrom
<1> QED
  BY <1>1, <1>2

LEMMA PossibleType ==
    ASSUME NEW q \in Ids, NEW m \in PossibleFrom[q]
    PROVE  /\ m.id = q /\ m.nonce.R1 \in Scalar /\ m.nonce.R2 \in Scalar
           /\ q \in Honest => \E k \in SecretNonces(q) : m.nonce = PubNonce(k)
<1>1. CASE q \in Honest
  <2>1. PICK k \in SecretNonces(q) : m = [id |-> q, nonce |-> PubNonce(k)]
    BY <1>1 DEF PossibleFrom
  <2>2. PubNonce(k).R1 \in Scalar /\ PubNonce(k).R2 \in Scalar
    BY <1>1, SecretNonceType, PubNonceType
  <2> QED
    BY <2>1, <2>2
<1>2. CASE q \notin Honest
  <2>1. PICK x \in KnownNonces \cup {[R1 |-> Neg(s.R1), R2 |-> Neg(s.R2)] :
                                         s \in PossibleNonces} :
            m = [id |-> q, nonce |-> x]
    BY <1>2 DEF PossibleFrom
  <2>2. ASSUME x \in KnownNonces PROVE x.R1 \in Scalar /\ x.R2 \in Scalar
    <3>1. PICK k \in FaultyNonces : x = PubNonce(k)
      BY <2>2 DEF KnownNonces
    <3>2. k.k1 \in Scalar /\ k.k2 \in Scalar
      BY InputsAssumption
    <3> QED
      BY <3>1, <3>2, PubNonceType
  <2>3. ASSUME NEW s \in PossibleNonces, x = [R1 |-> Neg(s.R1), R2 |-> Neg(s.R2)]
        PROVE  x.R1 \in Scalar /\ x.R2 \in Scalar
    <3>1. PICK p \in Honest : \E k \in SecretNonces(p) : s = PubNonce(k)
      BY DEF PossibleNonces
    <3>2. PICK k \in SecretNonces(p) : s = PubNonce(k)
      BY <3>1
    <3>3. k.k1 \in Scalar /\ k.k2 \in Scalar
      BY SecretNonceType
    <3>4. s.R1 \in Scalar /\ s.R2 \in Scalar
      BY <3>2, <3>3, PubNonceType
    <3>5. s.R1 \in Int /\ s.R2 \in Int
      BY <3>4, ScalarIsInt
    <3>6. Neg(s.R1) \in Scalar /\ Neg(s.R2) \in Scalar
      BY <3>5, NegEquiv
    <3> QED
      BY <2>3, <3>6
  <2> QED
    BY <1>2, <2>1, <2>2, <2>3
<1> QED
  BY <1>1, <1>2

(***************************************************************************)
(* A possible list names its senders, with scalars as nonces, and honest   *)
(* ones with a nonce of theirs.                                            *)
(***************************************************************************)
LEMMA PossibleListFacts ==
    ASSUME NEW list \in PossibleLists
    PROVE  /\ Len(list) \in Nat /\ IsNonceList(list, Len(list))
           /\ \A k \in 1 .. Len(list) : list[k].id \in Honest =>
                  \E s \in SecretNonces(list[k].id) : list[k].nonce = PubNonce(s)
<1>1. PICK group \in Groups : list \in ListsOf(group, PossibleFrom)
  BY DEF PossibleLists
<1> DEFINE n == Len(group)
<1>2. /\ n \in Nat /\ Len(list) = n /\ DOMAIN list = 1 .. n
      /\ \A k \in 1 .. n : /\ group[k] \in Ids /\ group[k] \in Nat
                           /\ list[k] \in PossibleFrom[group[k]]
  BY <1>1, ListForGroup
<1> HIDE DEF n
<1>3. ASSUME NEW k \in 1 .. n
      PROVE  /\ list[k].id \in Nat
             /\ list[k].nonce.R1 \in Scalar /\ list[k].nonce.R2 \in Scalar
             /\ list[k].id \in Honest =>
                    \E s \in SecretNonces(list[k].id) : list[k].nonce = PubNonce(s)
  <2>1. group[k] \in Ids /\ group[k] \in Nat /\ list[k] \in PossibleFrom[group[k]]
    BY <1>2
  <2>2. /\ list[k].id = group[k]
        /\ list[k].nonce.R1 \in Scalar /\ list[k].nonce.R2 \in Scalar
        /\ group[k] \in Honest => \E s \in SecretNonces(group[k]) : list[k].nonce = PubNonce(s)
    BY <2>1, PossibleType
  <2> QED
    BY <2>1, <2>2
<1> QED
  BY <1>2, <1>3 DEF IsNonceList, IsList

-----------------------------------------------------------------------------
(* Lists that a session accepts. *)

Validated(list) ==
    ValidateSigners(Key.t, Key.pubshares, Key.threshold_pubkey, IdsOf(list)).ok

NoIdentity(list) == \A k \in DOMAIN list : ~IsIdentity(list[k].nonce)

Relayable(list) == list \in PossibleLists /\ Validated(list) /\ NoIdentity(list)

LEMMA ValidatedIds ==
    ASSUME NEW ids,
           ValidateSigners(Key.t, Key.pubshares, Key.threshold_pubkey, ids).ok
    PROVE  /\ IsInjective(ids)
           /\ \A k \in DOMAIN ids : ids[k] \in Parties /\ Key.pubshares[ids[k]] # Identity
           /\ Len(Key.pubshares) \in Nat /\ Len(Key.pubshares) < Order
           /\ Key.t <= Len(ids)
           /\ InterpolatePubkey(ids, [k \in DOMAIN ids |-> Key.pubshares[ids[k]]])
                 = Ok(Key.threshold_pubkey)
<1>1. /\ ~(Len(Key.pubshares) > MaxParticipants)
      /\ Key.t <= Len(ids)
      /\ \A k \in DOMAIN ids : ids[k] \in 1 .. Len(Key.pubshares)
      /\ \A k \in DOMAIN ids : Key.pubshares[ids[k]] # Identity
      /\ IsInjective(ids)
      /\ InterpolatePubkey(ids, [k \in DOMAIN ids |-> Key.pubshares[ids[k]]])
            = Ok(Key.threshold_pubkey)
  BY ErrorIsNotOk, Zenon DEF ValidateSigners
<1>2. Len(Key.pubshares) \in Nat /\ Parties = 1 .. Len(Key.pubshares)
  BY KeyAssumption
<1>3. Len(Key.pubshares) < Order
  BY <1>1, <1>2, MaxParticipantsAssumption, OrderAssumption
<1> QED
  BY <1>1, <1>2, <1>3

LEMMA AcceptedList ==
    ASSUME SignTypeOK, NoncesInv, NEW group \in Groups,
           NEW list \in ListsOf(group, ContributionsFrom),
           NEW st, st.t = Key.t, st.pubshares = Key.pubshares,
           st.threshold_pubkey = Key.threshold_pubkey,
           SignCoordinatorInitialNext(st, list).ok
    PROVE  /\ Relayable(list)
           /\ SignCoordinatorInitialNext(st, list).out = list
           /\ SignCoordinatorInitialNext(st, list).st.pubnonces = ById(list)
<1>1. /\ Validated(list)
      /\ {k \in DOMAIN list : IsIdentity(list[k].nonce)} = {}
      /\ SignCoordinatorInitialNext(st, list)
            = Advance("Step1", [t |-> st.t, pubshares |-> st.pubshares,
                                threshold_pubkey |-> st.threshold_pubkey,
                                pubnonces |-> ById(list)], list)
  BY ErrorIsNotOk, Zenon DEF SignCoordinatorInitialNext, Validated
<1>2. NoIdentity(list)
  BY <1>1 DEF NoIdentity
<1> DEFINE n == Len(group)
<1>3. /\ n \in Nat /\ Len(list) = n /\ DOMAIN list = 1 .. n
      /\ \A k \in 1 .. n : /\ group[k] \in Ids /\ group[k] \in Nat
                           /\ list[k] \in ContributionsFrom[group[k]]
  BY ListForGroup
<1>4. list \in Lists(group, ContributionsFrom, n)
  BY <1>3, ListsOfMembers, InputsAssumption
<1>5. list \in Seq(UNION {ContributionsFrom[group[k]] : k \in DOMAIN group})
  BY <1>4 DEF Lists
<1> HIDE DEF n
<1>6. \A k \in 1 .. n : list[k] \in PossibleFrom[group[k]]
  BY <1>2, <1>3, ContributionIsPossible DEF NoIdentity
<1>7. list \in Seq(UNION {PossibleFrom[q] : q \in Ids})
  <2> DEFINE U == UNION {PossibleFrom[q] : q \in Ids}
  <2>1. \A k \in 1 .. n : list[k] \in U
    BY <1>3, <1>6
  <2> HIDE DEF U
  <2>2. list \in Seq(U)
    BY <1>3, <1>5, <2>1
  <2> QED
    BY <2>2 DEF U
<1>8. list \in ListsOf(group, PossibleFrom)
  BY <1>3, <1>6, <1>7, MadeFromMembers DEF n
<1> QED
  BY <1>1, <1>2, <1>8 DEF Relayable, PossibleLists, Advance

LEMMA RelayableFacts ==
    ASSUME NEW l, Relayable(l)
    PROVE  LET n == Len(l)
               L == ById(l)
           IN  /\ n \in Nat /\ IsNonceList(l, n) /\ IsNonceList(L, n)
               /\ IsInjective(IdsOf(l)) /\ IsInjective(IdsOf(L))
               /\ Range(IdsOf(L)) = Range(IdsOf(l))
               /\ AggrPubnonces(NoncesOf(L)) = AggrPubnonces(NoncesOf(l))
               /\ \A k \in 1 .. n : \E i \in 1 .. n : L[k] = l[i]
               /\ \A q \in Range(IdsOf(l)) : q \in Parties /\ Key.pubshares[q] # Identity
               /\ Len(Key.pubshares) \in Nat /\ Len(Key.pubshares) < Order
<1> DEFINE n == Len(l)
           L == ById(l)
<1>1. n \in Nat /\ IsNonceList(l, n)
  BY PossibleListFacts DEF Relayable
<1>2. /\ IsInjective(IdsOf(l))
      /\ \A k \in DOMAIN IdsOf(l) : /\ IdsOf(l)[k] \in Parties
                                    /\ Key.pubshares[IdsOf(l)[k]] # Identity
      /\ Len(Key.pubshares) \in Nat /\ Len(Key.pubshares) < Order
  BY ValidatedIds DEF Relayable, Validated
<1>3. \A q \in Range(IdsOf(l)) : q \in Parties /\ Key.pubshares[q] # Identity
  BY <1>2, Zenon DEF Range
<1> HIDE DEF n, L
<1>4. IsList(l, n)
  BY <1>1 DEF IsNonceList
<1>5. AggrPubnonces(NoncesOf(L)) = AggrPubnonces(NoncesOf(l)) /\ IsNonceList(L, n)
  BY <1>1, <1>2, AggregateById DEF L
<1>6. IsInjective(IdsOf(L)) /\ Range(IdsOf(L)) = Range(IdsOf(l))
  BY <1>1, <1>4, ByIdFacts DEF L
<1>7. \A k \in 1 .. n : \E i \in 1 .. n : L[k] = l[i]
  BY <1>1, <1>2, <1>4, ByIdPermutes, SMTT(30) DEF L
<1> QED
  BY <1>1, <1>2, <1>3, <1>5, <1>6, <1>7 DEF n, L

LEMMA ValuesOfPossible ==
    ASSUME NEW l \in PossibleLists, NEW r \in Requests,
           NEW v, v = SessionValues(Key.threshold_pubkey, l, r.msg, r.tweaks), v.ok
    PROVE  /\ v.val.ids = IdsOf(l)
           /\ v.val.b \in Scalar /\ v.val.e \in Scalar
           /\ Tracks(Key.threshold_pubkey, v.val.ctx)
           /\ v.val.ctx.gacc \in Sign
<1>1. v.val.b \in Scalar /\ v.val.e \in Scalar
  BY HashesAssumption
<1> DEFINE ctx == TweakApplyAll(TweakContext(Key.threshold_pubkey), r.tweaks)
<1>2. v.val.ids = IdsOf(l) /\ ctx.ok /\ v.val.ctx = ctx.val
  BY SessionValuesOk
<1>3. /\ Len(r.tweaks) \in Nat
      /\ r.tweaks \in [1 .. Len(r.tweaks) -> AnyTweak]
      /\ Key.threshold_pubkey \in Scalar \ {Identity}
  <2>1. r.tweaks \in Seq(AnyTweak)
    BY InputsAssumption, Zenon DEF AnyTweak
  <2>2. Len(r.tweaks) \in Nat /\ r.tweaks \in [1 .. Len(r.tweaks) -> AnyTweak]
    BY <2>1
  <2> QED
    BY <2>2, KeyAssumption
<1>4. Tracks(Key.threshold_pubkey, ctx.val)
  BY <1>2, <1>3, TweakApplyAllTracks
<1> HIDE DEF ctx
<1>5. Tracks(Key.threshold_pubkey, v.val.ctx)
  BY <1>2, <1>4
<1> QED
  BY <1>1, <1>2, <1>5 DEF Tracks, Context

LEMMA CoefficientOfListed ==
    ASSUME NEW l, Relayable(l), NEW q \in Range(IdsOf(l))
    PROVE  /\ LagrangeInternal(IdsOf(l), q) \in Scalar
           /\ LagrangeCoefficient(IdsOf(l), q) = Ok(LagrangeInternal(IdsOf(l), q))
           /\ LagrangeCoefficient(IdsOf(ById(l)), q) = Ok(LagrangeInternal(IdsOf(l), q))
<1> DEFINE n == Len(Key.pubshares)
<1>1. /\ IsInjective(IdsOf(l)) /\ IsInjective(IdsOf(ById(l)))
      /\ Range(IdsOf(ById(l))) = Range(IdsOf(l))
      /\ \A i \in Range(IdsOf(l)) : i \in Parties
      /\ n \in Nat /\ n < Order
  BY RelayableFacts, Zenon
<1>2. Range(IdsOf(l)) \subseteq 1 .. n /\ q \in 1 .. n
  BY <1>1, KeyAssumption
<1> HIDE DEF n
<1>3. LagrangeInternal(IdsOf(l), q) \in Nonzero
  BY <1>1, <1>2, LagrangeNonzero
<1>4. LagrangeCoefficient(IdsOf(l), q) = Ok(LagrangeInternal(IdsOf(l), q))
  BY <1>1, Zenon DEF LagrangeCoefficient
<1>5. LagrangeCoefficient(IdsOf(ById(l)), q) = LagrangeCoefficient(IdsOf(l), q)
  BY <1>1, CoefficientIgnoresOrder
<1> QED
  BY <1>3, <1>4, <1>5, NonzeroIsInt

(***************************************************************************)
(* An honest signer answers for a list that it is in, and with no check in *)
(* the way.                                                                *)
(***************************************************************************)
LEMMA HolderAnswers ==
    ASSUME NEW q \in Honest, NEW k \in SecretNonces(q), ~IsIdentity(PubNonce(k)),
           NEW l, Relayable(l), q \in Range(IdsOf(l)), NEW r \in Requests,
           NEW v, v = SessionValues(Key.threshold_pubkey, l, r.msg, r.tweaks), v.ok
    PROVE  LET st == KeyMaterial(q, k)
           IN  PartialSign(st, l, r.msg, r.tweaks)
                  = Ok(PartialSignature(st, LagrangeInternal(IdsOf(l), q), v.val))
<1> DEFINE st == KeyMaterial(q, k)
           a  == LagrangeInternal(IdsOf(l), q)
           s  == PartialSignature(st, a, v.val)
<1>1. /\ k.k1 \in Scalar /\ k.k2 \in Scalar /\ q \in Parties
      /\ SecShare[q] \in Scalar /\ MulG(SecShare[q]) = Key.pubshares[q]
  BY SecretNonceType, KeyAssumption, HonestAssumption
<1>2. k.k1 # 0 /\ k.k2 # 0
  BY <1>1, PubNonceType DEF IsIdentity, Identity
<1>3. SecShare[q] # 0
  <2>1. Key.pubshares[q] # Identity
    BY RelayableFacts, Zenon
  <2>2. MulG(SecShare[q]) = SecShare[q]
    BY <1>1, ModOfScalar DEF MulG
  <2> QED
    BY <1>1, <2>1, <2>2 DEF Identity
<1>4. /\ v.val.ids = IdsOf(l) /\ v.val.b \in Scalar /\ v.val.e \in Scalar
      /\ v.val.ctx.gacc \in Sign
  BY ValuesOfPossible DEF Relayable
<1>5. a \in Scalar /\ LagrangeCoefficient(IdsOf(l), q) = Ok(a)
  BY CoefficientOfListed
<1>6. /\ st.id = q /\ st.t = Key.t /\ st.secshare = SecShare[q]
      /\ st.pubshares = Key.pubshares /\ st.threshold_pubkey = Key.threshold_pubkey
      /\ st.secnonce = k
  BY DEF KeyMaterial
<1> HIDE DEF st, a
<1>7. s \in Scalar
  BY <1>1, <1>4, <1>5, <1>6, AnswerIsExpected
<1>8. PartialVerify(s, q, PubNonce(st.secnonce), MulG(st.secshare), v.val).ok
  BY <1>1, <1>4, <1>5, <1>6, <1>7, VerifiedIsAnswer
<1> HIDE DEF s
<1>9. SelfChecked(st, s, v.val) = Ok(s)
  BY <1>6, <1>8 DEF SelfChecked
<1>10. Ok(a).ok /\ Ok(a).val = a
  BY OkIsNoError
<1>11. PartialSign(st, l, r.msg, r.tweaks) = SelfChecked(st, s, v.val)
  BY <1>1, <1>2, <1>3, <1>5, <1>6, <1>10, Zenon
     DEF PartialSign, Relayable, Validated, s
<1> QED
  BY <1>9, <1>11 DEF st, a, s

-----------------------------------------------------------------------------
(* What the parties of a session with an honest coordinator hold. *)

(***************************************************************************)
(* A signer that waits for the list holds a nonce that it may have made.   *)
(***************************************************************************)
HeldInv ==
    \A p \in Honest :
        sst[p].phase = "Step1" => sst[p].st.secnonce \in SecretNonces(p)

(***************************************************************************)
(* The coordinator relays lists of valid signers with possible nonces, and *)
(* waits for answers to one that it relayed.                               *)
(***************************************************************************)
RelayedInv ==
    /\ \A list \in relayed : Relayable(list)
    /\ kst.phase = "Step1" => \E list \in relayed : kst.st.pubnonces = ById(list)

(***************************************************************************)
(* A partial signature is the answer of its nonce to a list that was       *)
(* relayed and to a request.                                               *)
(***************************************************************************)
AnswersTo(p, x, k) ==
    LET res == PartialSign(KeyMaterial(p, k), x.list, x.msg, x.tweaks)
    IN  /\ x.pubnonce = PubNonce(k)
        /\ res.ok /\ res.val = x.psig

AnsweredInv ==
    \A p \in Honest : \A x \in psigs[p] :
        /\ \E k \in SecretNonces(p) : AnswersTo(p, x, k)
        /\ x.list \in relayed
        /\ \E r \in Requests : x.msg = r.msg /\ x.tweaks = r.tweaks

SessionInv == SignTypeOK /\ NoncesInv /\ HeldInv /\ RelayedInv /\ AnsweredInv

LEMMA SessionInvInit == Init => SessionInv
<1> SUFFICES ASSUME Init PROVE SessionInv
  OBVIOUS
<1>1. SignTypeOK
  BY SignTypeOKInit
<1>2. NoncesInv /\ HeldInv /\ RelayedInv /\ AnsweredInv
  BY DEF Init, NoncesInv, HeldInv, RelayedInv, AnsweredInv, NewSigner, Driver, Absent
<1> QED
  BY <1>1, <1>2 DEF SessionInv

LEMMA MadeIsSecret ==
    ASSUME NEW p \in Honest, NEW m, NEW random \in Randoms, Made(p, m, random)
    PROVE  SampledNonce(p, random, m.msg, m.tweaks).val \in SecretNonces(p)
<1> DEFINE a == [msg |-> m.msg, tweaks |-> m.tweaks]
<1>1. /\ a \in NonceInputs /\ a.msg = m.msg /\ a.tweaks = m.tweaks
      /\ SampledNonce(p, random, m.msg, m.tweaks).ok
  BY DEF Made
<1> HIDE DEF a
<1> QED
  BY <1>1 DEF SecretNonces

(***************************************************************************)
(* A signer answers with its key material, whatever else its driver holds. *)
(***************************************************************************)
LEMMA AnswersWithKeyMaterial ==
    ASSUME SignTypeOK, NEW p \in Honest, sst[p].phase = "Step1", NEW list, NEW msg, NEW tweaks
    PROVE  PartialSign(sst[p].st, list, msg, tweaks)
              = PartialSign(KeyMaterial(p, sst[p].st.secnonce), list, msg, tweaks)
<1> DEFINE st == sst[p].st
           km == KeyMaterial(p, st.secnonce)
<1>1. /\ st.id = p /\ st.secshare = SecShare[p] /\ st.t = Key.t
      /\ st.threshold_pubkey = Key.threshold_pubkey /\ st.pubshares = Key.pubshares
  BY DEF SignTypeOK, SignerDriver, NewSigner, Driver
<1>2. /\ km.id = p /\ km.secshare = SecShare[p] /\ km.t = Key.t
      /\ km.threshold_pubkey = Key.threshold_pubkey /\ km.pubshares = Key.pubshares
      /\ km.secnonce = st.secnonce
  BY DEF KeyMaterial
<1> HIDE DEF st, km
<1>3. PartialSign(st, list, msg, tweaks) = PartialSign(km, list, msg, tweaks)
  <2>1. ASSUME NEW a, NEW v PROVE PartialSignature(st, a, v) = PartialSignature(km, a, v)
    BY <1>1, <1>2 DEF PartialSignature
  <2>2. ASSUME NEW s, NEW v PROVE SelfChecked(st, s, v) = SelfChecked(km, s, v)
    BY <1>1, <1>2 DEF SelfChecked
  <2> DEFINE valid == ValidateSigners(Key.t, Key.pubshares, Key.threshold_pubkey, IdsOf(list))
             v     == SessionValues(Key.threshold_pubkey, list, msg, tweaks)
             a     == LagrangeCoefficient(IdsOf(list), p)
             Result(s) ==
                 IF ~valid.ok THEN valid
                 ELSE IF ~v.ok THEN v
                 ELSE IF \/ s.secnonce.k1 = 0 \/ s.secnonce.k2 = 0 \/ SecShare[p] = 0
                 THEN Err(Error("Value"))
                 ELSE IF ~a.ok THEN a
                 ELSE IF MulG(SecShare[p]) # Key.pubshares[p] THEN Err(Error("Value"))
                 ELSE SelfChecked(s, PartialSignature(s, a.val, v.val), v.val)
  <2>3. PartialSign(st, list, msg, tweaks) = Result(st)
    BY <1>1, Zenon DEF PartialSign
  <2>4. PartialSign(km, list, msg, tweaks) = Result(km)
    BY <1>2, Zenon DEF PartialSign
  <2>5. Result(st) = Result(km)
    <3> HIDE DEF valid, v, a
    <3>1. SelfChecked(st, PartialSignature(st, a.val, v.val), v.val)
             = SelfChecked(km, PartialSignature(km, a.val, v.val), v.val)
      BY <2>1, <2>2
    <3> QED
      BY <1>2, <3>1
  <2> HIDE DEF Result
  <2> QED
    BY <2>3, <2>4, <2>5
<1> QED
  BY <1>3 DEF st, km

LEMMA SignersKeepSessionInv ==
    ASSUME CoordHonest, SessionInv, NEW p \in Honest, Elsewhere(p),
           Quiet(p) \/ Drawn(p) \/ Signed(p),
           UNCHANGED <<kst, relayed>>
    PROVE  (HeldInv /\ RelayedInv /\ AnsweredInv)'
<1>1. \A q \in Honest \ {p} : sst'[q] = sst[q] /\ psigs'[q] = psigs[q]
  BY DEF Elsewhere
<1>2. RelayedInv'
  BY DEF SessionInv, RelayedInv
<1>3. sst'[p].phase = "Step1" => sst'[p].st.secnonce \in SecretNonces(p)
  <2>1. ASSUME Drawn(p) PROVE sst'[p].st.secnonce \in SecretNonces(p)
    <3>1. PICK random \in Randoms : \E m :
              /\ Made(p, m, random)
              /\ sst'[p].st.secnonce = SampledNonce(p, random, m.msg, m.tweaks).val
      BY <2>1 DEF Drawn
    <3> QED
      BY <3>1, MadeIsSecret
  <2> QED
    BY <2>1 DEF Quiet, Signed, SessionInv, HeldInv
<1>4. HeldInv'
  BY <1>1, <1>3 DEF SessionInv, HeldInv
<1>5. ASSUME Signed(p), NEW x \in psigs'[p], x \notin psigs[p]
      PROVE  /\ \E k \in SecretNonces(p) : AnswersTo(p, x, k)
             /\ x.list \in relayed
             /\ \E r \in Requests : x.msg = r.msg /\ x.tweaks = r.tweaks
  <2> DEFINE k == sst[p].st.secnonce
  <2>1. /\ sst[p].phase = "Step1"
        /\ x.pubnonce = PubNonce(k)
        /\ x.list \in DeliverableLists
        /\ \E r \in Asked : x.msg = r.msg /\ x.tweaks = r.tweaks
        /\ PartialSign(sst[p].st, x.list, x.msg, x.tweaks).ok
        /\ PartialSign(sst[p].st, x.list, x.msg, x.tweaks).val = x.psig
    BY <1>5 DEF Signed
  <2>2. k \in SecretNonces(p)
    BY <2>1 DEF SessionInv, HeldInv
  <2>3. PartialSign(sst[p].st, x.list, x.msg, x.tweaks)
           = PartialSign(KeyMaterial(p, k), x.list, x.msg, x.tweaks)
    BY <2>1, AnswersWithKeyMaterial DEF SessionInv
  <2>4. AnswersTo(p, x, k)
    BY <2>1, <2>3 DEF AnswersTo
  <2>5. x.list \in relayed /\ \E r \in Requests : x.msg = r.msg /\ x.tweaks = r.tweaks
    BY <2>1 DEF DeliverableLists, Asked, SessionInv, SignTypeOK
  <2> QED
    BY <2>2, <2>4, <2>5
<1>6. ASSUME NEW x \in psigs'[p], x \in psigs[p]
      PROVE  /\ \E k \in SecretNonces(p) : AnswersTo(p, x, k)
             /\ x.list \in relayed
             /\ \E r \in Requests : x.msg = r.msg /\ x.tweaks = r.tweaks
  BY <1>6 DEF SessionInv, AnsweredInv
<1>7. psigs'[p] = psigs[p] \/ Signed(p)
  BY DEF Quiet, Drawn
<1>8. AnsweredInv'
  <2>1. ASSUME NEW q \in Honest, NEW x \in psigs'[q]
        PROVE  /\ \E k \in SecretNonces(q) : AnswersTo(q, x, k)
               /\ x.list \in relayed
               /\ \E r \in Requests : x.msg = r.msg /\ x.tweaks = r.tweaks
    <3>1. CASE q = p
      BY <1>5, <1>6, <1>7, <3>1
    <3>2. CASE q # p
      BY <1>1, <3>2 DEF SessionInv, AnsweredInv
    <3> QED
      BY <3>1, <3>2
  <2> QED
    BY <2>1 DEF AnsweredInv
<1> QED
  BY <1>2, <1>4, <1>8

LEMMA CoordinatorStep1Relays ==
    ASSUME SessionInv, CoordinatorStep1
    PROVE  RelayedInv' /\ relayed \subseteq relayed'
<1>0. PICK group \in Groups : \E list \in ListsOf(group, ContributionsFrom) :
         LET call == Transition(kst, "Initial", SignCoordinatorInitialNext(kst.st, list))
         IN  /\ kst' = call.state
             /\ relayed' = IF call.reply.ok THEN relayed \cup {call.reply.val} ELSE relayed
  BY DEF CoordinatorStep1
<1>1. PICK list \in ListsOf(group, ContributionsFrom) :
         LET call == Transition(kst, "Initial", SignCoordinatorInitialNext(kst.st, list))
         IN  /\ kst' = call.state
             /\ relayed' = IF call.reply.ok THEN relayed \cup {call.reply.val} ELSE relayed
  BY <1>0
<1> DEFINE res  == SignCoordinatorInitialNext(kst.st, list)
           call == Transition(kst, "Initial", res)
<1>2. /\ kst' = call.state
      /\ relayed' = IF call.reply.ok THEN relayed \cup {call.reply.val} ELSE relayed
  BY <1>1
<1>3. /\ res = SignCoordinatorInitialNext(kst.st, list)
      /\ call = Transition(kst, "Initial", res)
  OBVIOUS
<1> HIDE DEF res, call
<1>4. /\ \A l \in relayed : Relayable(l)
      /\ kst.phase = "Step1" => \E l \in relayed : kst.st.pubnonces = ById(l)
  BY DEF SessionInv, RelayedInv
<1>5. CASE ~call.reply.ok /\ (call.state = kst \/ call.state.phase = "Failed")
  BY <1>2, <1>4, <1>5 DEF RelayedInv
<1>6. CASE /\ kst.phase = "Initial" /\ res.ok /\ call.reply = Ok(res.out)
           /\ call.state = Driver(res.phase, res.st)
  <2>1. kst = NewCoordinator
    BY <1>6 DEF SessionInv, SignTypeOK, SignCoordinatorDriver, Absent, Driver
  <2>2. /\ kst.st.t = Key.t /\ kst.st.pubshares = Key.pubshares
        /\ kst.st.threshold_pubkey = Key.threshold_pubkey
    BY <2>1 DEF NewCoordinator, Driver, SignCoordinatorInitialState
  <2>3. Relayable(list) /\ res.out = list /\ res.st.pubnonces = ById(list)
    BY <1>3, <1>6, <2>2, AcceptedList DEF SessionInv
  <2>4. relayed' = relayed \cup {list} /\ kst'.st.pubnonces = ById(list)
    BY <1>2, <1>6, <2>3, OkIsNoError DEF Driver
  <2> QED
    BY <1>4, <2>3, <2>4 DEF RelayedInv
<1> QED
  BY <1>3, <1>5, <1>6, CallCases

LEMMA CoordinatorStep2Type ==
    ASSUME CoordinatorStep2 PROVE kst' = kst \/ kst'.phase # "Step1"
<1>0. PICK group \in Groups, r \in Asked : \E list \in ListsOf(group, PsigsFrom) :
         kst' = Transition(kst, "Step1",
                           SignCoordinatorStep1Next(kst.st, list, r.msg, r.tweaks)).state
  BY DEF CoordinatorStep2
<1>1. PICK list \in ListsOf(group, PsigsFrom) :
         kst' = Transition(kst, "Step1",
                           SignCoordinatorStep1Next(kst.st, list, r.msg, r.tweaks)).state
  BY <1>0
<1> DEFINE res  == SignCoordinatorStep1Next(kst.st, list, r.msg, r.tweaks)
           call == Transition(kst, "Step1", res)
<1>2. kst' = call.state /\ call = Transition(kst, "Step1", res)
  BY <1>1
<1>3. res.ok => res.phase = "Successful"
  BY CoordinatorStep1NextOk
<1> HIDE DEF res, call
<1>4. \/ call.state = kst \/ call.state.phase = "Failed"
      \/ res.ok /\ call.state = Driver(res.phase, res.st)
  BY <1>2, CallCases
<1> QED
  BY <1>2, <1>3, <1>4 DEF Driver

(***************************************************************************)
(* With an honest coordinator every step keeps the invariant.              *)
(***************************************************************************)
LEMMA SessionInvStep == CoordHonest /\ SessionInv /\ [Next]_vars => SessionInv'
<1> SUFFICES ASSUME CoordHonest, SessionInv, [Next]_vars
             PROVE  (HeldInv /\ RelayedInv /\ AnsweredInv)'
  BY SignTypeOKStep, NoncesInvStep DEF SessionInv
<1>2. ASSUME UNCHANGED <<sst, psigs>>, RelayedInv', relayed \subseteq relayed'
      PROVE  (HeldInv /\ RelayedInv /\ AnsweredInv)'
  BY <1>2 DEF SessionInv, HeldInv, AnsweredInv
<1>3. CASE UNCHANGED vars
  BY <1>2, <1>3 DEF vars, SessionInv, RelayedInv
<1>4. CASE CoordinatorCreate
  <2>1. kst'.phase # "Step1" /\ relayed' = relayed /\ UNCHANGED <<sst, psigs>>
    BY <1>4 DEF CoordinatorCreate, NewCoordinator, Driver, svars
  <2> QED
    BY <1>2, <2>1 DEF SessionInv, RelayedInv
<1>5. CASE CoordinatorStep1
  <2>1. UNCHANGED <<sst, psigs>>
    BY <1>5 DEF CoordinatorStep1, svars
  <2> QED
    BY <1>2, <1>5, <2>1, CoordinatorStep1Relays
<1>6. CASE CoordinatorStep2
  <2>1. UNCHANGED <<sst, psigs, relayed>>
    BY <1>6 DEF CoordinatorStep2, svars
  <2> QED
    BY <1>2, <1>6, <2>1, CoordinatorStep2Type DEF SessionInv, RelayedInv
<1>7. ASSUME NEW p \in Honest, SignerCall(p) \/ SignerRestart(p)
      PROVE  (HeldInv /\ RelayedInv /\ AnsweredInv)'
  <2>1. UNCHANGED <<kst, relayed>>
    BY <1>7 DEF SignerCall, SignerStep1, SignerFinalize, SignerRestart, kvars
  <2>2. Elsewhere(p) /\ (Quiet(p) \/ Drawn(p) \/ Signed(p))
    BY <1>7, SignerStep1Draws, SignerFinalizeSigns, SignerRestartQuiet
       DEF SignerCall, SessionInv
  <2> QED
    BY <2>1, <2>2, SignersKeepSessionInv
<1> QED
  BY <1>3, <1>4, <1>5, <1>6, <1>7 DEF Next, Progress, CoordinatorCall

LEMMA SessionInvariant == ASSUME CoordHonest PROVE Spec => []SessionInv
<1>1. CoordHonest
  OBVIOUS
<1> QED
  BY <1>1, SessionInvInit, SessionInvStep, PTL DEF Spec

-----------------------------------------------------------------------------
(* What a signature stands for. *)

LEMMA PartialSignOk ==
    ASSUME NEW st, NEW list, NEW msg, NEW tweaks, PartialSign(st, list, msg, tweaks).ok
    PROVE  LET v == SessionValues(st.threshold_pubkey, list, msg, tweaks)
               a == LagrangeCoefficient(IdsOf(list), st.id)
           IN  /\ v.ok /\ a.ok /\ st.secnonce.k1 # 0 /\ st.secnonce.k2 # 0
               /\ PartialSign(st, list, msg, tweaks) = Ok(PartialSignature(st, a.val, v.val))
<1> DEFINE valid == ValidateSigners(st.t, st.pubshares, st.threshold_pubkey, IdsOf(list))
           v     == SessionValues(st.threshold_pubkey, list, msg, tweaks)
           a     == LagrangeCoefficient(IdsOf(list), st.id)
           res   == PartialSign(st, list, msg, tweaks)
           s     == PartialSignature(st, a.val, v.val)
<1>1. res = IF ~valid.ok THEN valid
            ELSE IF ~v.ok THEN v
            ELSE IF st.secnonce.k1 = 0 \/ st.secnonce.k2 = 0 \/ st.secshare = 0
            THEN Err(Error("Value"))
            ELSE IF ~a.ok THEN a
            ELSE IF MulG(st.secshare) # st.pubshares[st.id] THEN Err(Error("Value"))
            ELSE SelfChecked(st, s, v.val)
  BY Zenon DEF PartialSign
<1>2. res.ok
  OBVIOUS
<1> HIDE DEF valid, v, a, res, s
<1>3. /\ v.ok /\ a.ok /\ st.secnonce.k1 # 0 /\ st.secnonce.k2 # 0
      /\ res = SelfChecked(st, s, v.val)
  BY <1>1, <1>2, ErrorIsNotOk, Zenon
<1>4. res = Ok(s)
  BY <1>2, <1>3, ErrorIsNotOk, Zenon DEF SelfChecked
<1> QED
  BY <1>3, <1>4 DEF v, a, res, s

(***************************************************************************)
(* Verification accepts nothing from an honest signer but its own answer,  *)
(* though coordinator and signer list the nonces in different orders.      *)
(***************************************************************************)
LEMMA VerifiedAnswers ==
    ASSUME NEW q \in Honest, NEW k \in SecretNonces(q), NEW l, Relayable(l),
           NEW r \in Requests,
           NEW v, v = SessionValues(Key.threshold_pubkey, ById(l), r.msg, r.tweaks), v.ok,
           NEW psig \in Scalar,
           PartialVerify(psig, q, PubNonce(k), Key.pubshares[q], v.val).ok
    PROVE  PartialSign(KeyMaterial(q, k), l, r.msg, r.tweaks) = Ok(psig)
<1> DEFINE w  == SessionValues(Key.threshold_pubkey, l, r.msg, r.tweaks)
           a  == LagrangeInternal(IdsOf(l), q)
           st == KeyMaterial(q, k)
<1>1. /\ Range(IdsOf(ById(l))) = Range(IdsOf(l))
      /\ AggrPubnonces(NoncesOf(ById(l))) = AggrPubnonces(NoncesOf(l))
      /\ IsInjective(IdsOf(l)) /\ IsInjective(IdsOf(ById(l)))
  BY RelayableFacts, Zenon
<1>2. w.ok /\ SameValues(v.val, w.val)
  BY <1>1, SessionValuesSame, Zenon
<1>3. v.val.ids = IdsOf(ById(l))
  BY SessionValuesOk
<1>4. /\ w.val.ids = IdsOf(l) /\ w.val.b \in Scalar /\ w.val.e \in Scalar
      /\ w.val.ctx.gacc \in Sign
  BY <1>2, ValuesOfPossible DEF Relayable
<1> HIDE DEF w
<1>5. LagrangeCoefficient(v.val.ids, q).ok
  BY ErrorIsNotOk, Zenon DEF PartialVerify
<1>6. q \in Range(IdsOf(l))
  BY <1>1, <1>3, <1>5, ErrorIsNotOk DEF LagrangeCoefficient
<1>7. a \in Scalar /\ LagrangeCoefficient(IdsOf(l), q) = Ok(a)
      /\ LagrangeCoefficient(IdsOf(ById(l)), q) = Ok(a)
  BY <1>6, CoefficientOfListed
<1> HIDE DEF a
<1>8. PartialVerify(psig, q, PubNonce(k), Key.pubshares[q], w.val).ok
  <2>1. LagrangeCoefficient(v.val.ids, q) = LagrangeCoefficient(w.val.ids, q)
    BY <1>3, <1>4, <1>7
  <2>2. PartialVerify(psig, q, PubNonce(k), Key.pubshares[q], v.val)
           = PartialVerify(psig, q, PubNonce(k), Key.pubshares[q], w.val)
    BY <1>2, <2>1, VerifySame
  <2> QED
    BY <2>2
<1>9. /\ k.k1 \in Scalar /\ k.k2 \in Scalar
      /\ SecShare[q] \in Scalar /\ MulG(SecShare[q]) = Key.pubshares[q]
  BY SecretNonceType, KeyAssumption, HonestAssumption
<1>10. st.secnonce = k /\ st.secshare = SecShare[q]
  BY DEF KeyMaterial
<1> HIDE DEF st
<1>11. /\ PartialVerify(psig, q, PubNonce(st.secnonce), MulG(st.secshare), w.val).ok
       /\ LagrangeCoefficient(w.val.ids, q) = Ok(a)
  BY <1>4, <1>7, <1>8, <1>9, <1>10
<1>12. ~IsIdentity(PubNonce(st.secnonce)) /\ psig = PartialSignature(st, a, w.val)
  BY <1>4, <1>7, <1>9, <1>10, <1>11, VerifiedIsAnswer, SMTT(30)
<1>13. PartialSign(st, l, r.msg, r.tweaks) = Ok(PartialSignature(st, a, w.val))
  BY <1>2, <1>6, <1>10, <1>12, HolderAnswers DEF st, a, w
<1> QED
  BY <1>12, <1>13 DEF st

(***************************************************************************)
(* The partial signatures that honest signers send are scalars.            *)
(***************************************************************************)
LEMMA AnswerIsScalar ==
    ASSUME NEW q \in Honest, NEW k \in SecretNonces(q), NEW l, Relayable(l),
           NEW r \in Requests, PartialSign(KeyMaterial(q, k), l, r.msg, r.tweaks).ok
    PROVE  PartialSign(KeyMaterial(q, k), l, r.msg, r.tweaks).val \in Scalar
<1> DEFINE st == KeyMaterial(q, k)
           v  == SessionValues(Key.threshold_pubkey, l, r.msg, r.tweaks)
           c  == LagrangeCoefficient(IdsOf(l), q)
<1>1. st.id = q /\ st.threshold_pubkey = Key.threshold_pubkey /\ st.secnonce = k
      /\ st.secshare = SecShare[q]
  BY DEF KeyMaterial
<1> HIDE DEF st
<1>2. /\ v.ok /\ c.ok
      /\ PartialSign(st, l, r.msg, r.tweaks) = Ok(PartialSignature(st, c.val, v.val))
  BY <1>1, PartialSignOk DEF st
<1>3. /\ v.val.b \in Scalar /\ v.val.e \in Scalar /\ v.val.ctx.gacc \in Sign
  BY <1>2, ValuesOfPossible DEF Relayable
<1>4. q \in Range(IdsOf(l))
  BY <1>2, ErrorIsNotOk DEF LagrangeCoefficient
<1>5. c.val \in Scalar
  BY <1>4, CoefficientOfListed, OkIsNoError
<1>6. /\ k.k1 \in Scalar /\ k.k2 \in Scalar /\ SecShare[q] \in Scalar
  BY SecretNonceType, KeyAssumption, HonestAssumption
<1> HIDE DEF v, c
<1>7. PartialSignature(st, c.val, v.val) \in Scalar
  BY <1>1, <1>3, <1>5, <1>6, AnswerIsExpected
<1> QED
  BY <1>2, <1>7, OkIsNoError DEF st

(***************************************************************************)
(* What the coordinator has checked when it combines.                      *)
(***************************************************************************)
LEMMA CombinedIsVerified ==
    ASSUME NEW st, NEW list, NEW msg, NEW tweaks,
           NEW res, res = SignCoordinatorStep1Next(st, list, msg, tweaks), res.ok
    PROVE  LET v == SessionValues(st.threshold_pubkey, st.pubnonces, msg, tweaks)
               L == ById(list)
           IN  /\ IdsOf(L) = IdsOf(st.pubnonces) /\ v.ok
               /\ \A k \in DOMAIN L :
                     PartialVerify(L[k].psig, L[k].id, st.pubnonces[k].nonce,
                                   st.pubshares[L[k].id], v.val).ok
<1> DEFINE v == SessionValues(st.threshold_pubkey, st.pubnonces, msg, tweaks)
           L == ById(list)
<1>1. /\ IdsOf(L) = IdsOf(st.pubnonces) /\ v.ok
      /\ VerifiedAndCombined(st, L, v.val, msg, tweaks).ok
  BY ErrorIsNotOk, Zenon DEF SignCoordinatorStep1Next
<1> HIDE DEF v, L
<1> DEFINE checks == [k \in DOMAIN L |->
                         PartialVerify(L[k].psig, L[k].id, st.pubnonces[k].nonce,
                                       st.pubshares[L[k].id], v.val)]
           bad    == {k \in DOMAIN checks : ~checks[k].ok}
<1>2. bad = {}
  BY <1>1, ErrorIsNotOk, Zenon DEF VerifiedAndCombined
<1>3. ASSUME NEW k \in DOMAIN L
      PROVE  PartialVerify(L[k].psig, L[k].id, st.pubnonces[k].nonce,
                           st.pubshares[L[k].id], v.val).ok
  <2>1. DOMAIN checks = DOMAIN L
    OBVIOUS
  <2>2. checks[k].ok
    BY <1>2, <2>1
  <2> QED
    BY <2>2
<1> QED
  BY <1>1, <1>3 DEF v, L

LEMMA ResponseIsFrom ==
    ASSUME NEW q \in Ids, NEW m \in PsigsFrom[q]
    PROVE  /\ m.id = q
           /\ q \in Honest => \E x \in psigs[q] : m.psig = x.psig
<1>1. CASE q \in Honest
  <2>1. PICK x \in psigs[q] : m = [id |-> q, psig |-> x.psig]
    BY <1>1 DEF PsigsFrom
  <2> QED
    BY <2>1
<1>2. CASE q \notin Honest
  <2>1. m \in FaultyPsigs(q, kst.st.pubnonces, Asked) \/ m = [id |-> q, psig |-> 1]
    BY <1>2 DEF PsigsFrom
  <2> QED
    BY <1>2, <2>1 DEF FaultyPsigs
<1> QED
  BY <1>1, <1>2

LEMMA TicketOf ==
    ASSUME NEW n \in Nat, NEW L, IsList(L, n), IsInjective(IdsOf(L)), NEW j \in 1 .. n,
           L[j].id \in Honest
    PROVE  /\ L[j].id \in DOMAIN TicketsOf(L)
           /\ TicketsOf(L)[L[j].id] = L[j].nonce
<1>1. DOMAIN L = 1 .. n /\ L[j] \in Range(L)
  BY DEF IsList, Range
<1>2. L[j].id \in Range(IdsOf(L))
  BY <1>1 DEF IdsOf, Range
<1>3. ASSUME NEW m \in Range(L), m.id = L[j].id PROVE m = L[j]
  <2>1. PICK i \in 1 .. n : m = L[i]
    BY <1>1 DEF Range
  <2>2. IdsOf(L)[i] = IdsOf(L)[j] /\ DOMAIN IdsOf(L) = 1 .. n
    BY <1>1, <1>3, <2>1 DEF IdsOf
  <2>3. i = j
    BY <2>2 DEF IsInjective
  <2> QED
    BY <2>1, <2>3
<1>4. (CHOOSE m \in Range(L) : m.id = L[j].id) = L[j]
  BY <1>1, <1>3
<1> QED
  BY <1>2, <1>4 DEF TicketsOf

LEMMA AnswerListed ==
    ASSUME NEW p \in Honest, NEW k \in SecretNonces(p), NEW l \in PossibleLists,
           NEW r \in Requests, PartialSign(KeyMaterial(p, k), l, r.msg, r.tweaks).ok
    PROVE  [pubnonce |-> PubNonce(k), view |-> View(l, r.msg, r.tweaks),
            psig |-> PartialSign(KeyMaterial(p, k), l, r.msg, r.tweaks).val] \in Answers(p)
<1> DEFINE c == <<k, l, r>>
           Tuples == {d \in SecretNonces(p) \X PossibleLists \X Requests :
                         PartialSign(KeyMaterial(p, d[1]), d[2], d[3].msg, d[3].tweaks).ok}
<1>1. c[1] = k /\ c[2] = l /\ c[3] = r /\ c \in SecretNonces(p) \X PossibleLists \X Requests
  OBVIOUS
<1> HIDE DEF c
<1>2. c \in Tuples
  BY <1>1
<1> HIDE DEF Tuples
<1>3. [pubnonce |-> PubNonce(c[1]), view |-> View(c[2], c[3].msg, c[3].tweaks),
       psig |-> PartialSign(KeyMaterial(p, c[1]), c[2], c[3].msg, c[3].tweaks).val]
         \in Answers(p)
  BY <1>2, Zenon DEF Answers, Tuples
<1> QED
  BY <1>1, <1>3

(***************************************************************************)
(* An honest member of a list whose signature is output has answered with  *)
(* the nonce that the list holds for it, for the view of the signature.    *)
(***************************************************************************)
LEMMA GrantedView ==
    ASSUME AnswersTellViews, SessionInv, kst.phase = "Step1",
           NEW group \in Groups, NEW r \in Requests, NEW list \in ListsOf(group, PsigsFrom),
           SignCoordinatorStep1Next(kst.st, list, r.msg, r.tweaks).ok,
           NEW q \in Honest \cap Range(IdsOf(kst.st.pubnonces))
    PROVE  \E x \in psigs[q] :
              /\ x.pubnonce = TicketsOf(kst.st.pubnonces)[q]
              /\ View(x.list, x.msg, x.tweaks) = View(kst.st.pubnonces, r.msg, r.tweaks)
<1>1. PICK l \in relayed : kst.st.pubnonces = ById(l) /\ Relayable(l)
  BY DEF SessionInv, RelayedInv
<1> DEFINE L == ById(l)
           n == Len(l)
           P == ById(list)
           v == SessionValues(Key.threshold_pubkey, L, r.msg, r.tweaks)
<1>2. /\ kst.st.threshold_pubkey = Key.threshold_pubkey
      /\ kst.st.pubshares = Key.pubshares /\ kst.st.pubnonces = L
  BY <1>1 DEF SessionInv, SignTypeOK, SignCoordinatorDriver, Absent, NewCoordinator, Driver
<1>3. /\ n \in Nat /\ IsNonceList(l, n) /\ IsNonceList(L, n)
      /\ IsInjective(IdsOf(L)) /\ Range(IdsOf(L)) = Range(IdsOf(l))
      /\ AggrPubnonces(NoncesOf(L)) = AggrPubnonces(NoncesOf(l))
      /\ \A k \in 1 .. n : \E i \in 1 .. n : L[k] = l[i]
  BY <1>1, RelayableFacts, Zenon
<1>4. /\ IdsOf(P) = IdsOf(L) /\ v.ok
      /\ \A k \in DOMAIN P : PartialVerify(P[k].psig, P[k].id, L[k].nonce,
                                           Key.pubshares[P[k].id], v.val).ok
  BY <1>2, CombinedIsVerified, ZenonT(40)
<1> HIDE DEF L, n, P, v
<1>5. PICK j \in 1 .. n : L[j].id = q
  <2>1. DOMAIN L = 1 .. n
    BY <1>3 DEF IsNonceList, IsList
  <2>2. q \in Range(IdsOf(L))
    BY <1>2
  <2> QED
    BY <2>1, <2>2 DEF Range, IdsOf
<1>6. j \in DOMAIN P /\ P[j].id = q
  <2>1. DOMAIN IdsOf(P) = DOMAIN P /\ DOMAIN IdsOf(L) = DOMAIN L /\ DOMAIN L = 1 .. n
    BY <1>3 DEF IdsOf, IsNonceList, IsList
  <2>2. j \in DOMAIN P /\ IdsOf(P)[j] = IdsOf(L)[j]
    BY <1>4, <2>1
  <2> QED
    BY <1>5, <2>1, <2>2 DEF IdsOf
<1>7. PICK s \in psigs[q] : P[j].psig = s.psig
  <2> DEFINE m == Len(group)
  <2>1. /\ m \in Nat /\ DOMAIN list = 1 .. m
        /\ \A k \in 1 .. m : /\ group[k] \in Ids /\ group[k] \in Nat
                             /\ list[k] \in PsigsFrom[group[k]]
    BY ListForGroup
  <2> HIDE DEF m
  <2>2. \A k \in 1 .. m : list[k].id = group[k]
    BY <2>1, ResponseIsFrom
  <2>3. IsList(list, m)
    BY <2>1, <2>2 DEF IsList
  <2> DEFINE c == Cardinality(Range(IdsOf(list)))
  <2>4. IsList(P, c) /\ \A k \in 1 .. c : \E i \in 1 .. m : P[k] = list[i]
    BY <2>1, <2>3, ByIdFacts DEF P
  <2> HIDE DEF c
  <2>5. j \in 1 .. c
    BY <1>6, <2>4 DEF IsList
  <2>6. PICK i \in 1 .. m : P[j] = list[i]
    BY <2>4, <2>5
  <2>7. group[i] = q /\ list[i] \in PsigsFrom[q] /\ q \in Ids
    BY <1>6, <2>1, <2>2, <2>6
  <2> QED
    BY <2>6, <2>7, ResponseIsFrom
<1>8. PICK k \in SecretNonces(q) : L[j].nonce = PubNonce(k)
  <2>1. PICK i \in 1 .. n : L[j] = l[i]
    BY <1>3
  <2>2. l[i].id = q
    BY <1>5, <2>1
  <2> QED
    BY <1>1, <2>1, <2>2, PossibleListFacts DEF Relayable, n
<1>9. PICK k2 \in SecretNonces(q) : AnswersTo(q, s, k2)
  BY DEF SessionInv, AnsweredInv
<1>10. PICK r2 \in Requests : s.msg = r2.msg /\ s.tweaks = r2.tweaks
  BY DEF SessionInv, AnsweredInv
<1>11. Relayable(s.list)
  BY DEF SessionInv, AnsweredInv, RelayedInv
<1>12. /\ PartialSign(KeyMaterial(q, k2), s.list, r2.msg, r2.tweaks).ok
       /\ PartialSign(KeyMaterial(q, k2), s.list, r2.msg, r2.tweaks).val = s.psig
       /\ s.pubnonce = PubNonce(k2)
  BY <1>9, <1>10 DEF AnswersTo
<1>13. s.psig \in Scalar
  BY <1>11, <1>12, AnswerIsScalar
<1>14. PartialSign(KeyMaterial(q, k), l, r.msg, r.tweaks) = Ok(s.psig)
  <2>1. PartialVerify(s.psig, q, PubNonce(k), Key.pubshares[q], v.val).ok
    BY <1>4, <1>6, <1>7, <1>8
  <2> QED
    BY <1>1, <1>4, <1>13, <2>1, VerifiedAnswers DEF v, L
<1> DEFINE A1 == [pubnonce |-> PubNonce(k), view |-> View(l, r.msg, r.tweaks), psig |-> s.psig]
           A2 == [pubnonce |-> PubNonce(k2), view |-> View(s.list, r2.msg, r2.tweaks),
                  psig |-> s.psig]
<1>15. A1 \in Answers(q)
  BY <1>1, <1>14, AnswerListed, OkIsNoError DEF Relayable
<1>16. A2 \in Answers(q)
  BY <1>11, <1>12, AnswerListed DEF Relayable
<1>17. A1 = A2
  BY <1>15, <1>16 DEF AnswersTellViews
<1>18. PubNonce(k) = PubNonce(k2) /\ View(l, r.msg, r.tweaks) = View(s.list, r2.msg, r2.tweaks)
  BY <1>17
<1>19. View(L, r.msg, r.tweaks) = View(l, r.msg, r.tweaks)
  BY <1>3 DEF View
<1>20. TicketsOf(L)[q] = L[j].nonce
  BY <1>3, <1>5, TicketOf DEF IsNonceList
<1> QED
  BY <1>2, <1>8, <1>10, <1>12, <1>18, <1>19, <1>20

LEMMA CoordinatorStep2Grants ==
    ASSUME SignTypeOK, CoordinatorStep2, sigs' # sigs
    PROVE  /\ kst.phase = "Step1"
           /\ \E group \in Groups, r \in Requests : \E list \in ListsOf(group, PsigsFrom) :
                 /\ SignCoordinatorStep1Next(kst.st, list, r.msg, r.tweaks).ok
                 /\ \E sig : sigs' = sigs \cup {[sig |-> sig, msg |-> r.msg, tweaks |-> r.tweaks,
                                                 list |-> kst.st.pubnonces]}
<1>1. PICK group \in Groups, r \in Asked : \E list \in ListsOf(group, PsigsFrom) :
         LET call == Transition(kst, "Step1",
                                SignCoordinatorStep1Next(kst.st, list, r.msg, r.tweaks))
         IN  sigs' = IF call.reply.ok
                     THEN sigs \cup {[sig |-> call.reply.val, msg |-> r.msg,
                                      tweaks |-> r.tweaks, list |-> kst.st.pubnonces]}
                     ELSE sigs
  BY DEF CoordinatorStep2
<1>2. PICK list \in ListsOf(group, PsigsFrom) :
         LET call == Transition(kst, "Step1",
                                SignCoordinatorStep1Next(kst.st, list, r.msg, r.tweaks))
         IN  sigs' = IF call.reply.ok
                     THEN sigs \cup {[sig |-> call.reply.val, msg |-> r.msg,
                                      tweaks |-> r.tweaks, list |-> kst.st.pubnonces]}
                     ELSE sigs
  BY <1>1
<1> DEFINE res  == SignCoordinatorStep1Next(kst.st, list, r.msg, r.tweaks)
           call == Transition(kst, "Step1", res)
<1>3. /\ call = Transition(kst, "Step1", res) /\ call.reply.ok
      /\ sigs' = sigs \cup {[sig |-> call.reply.val, msg |-> r.msg, tweaks |-> r.tweaks,
                             list |-> kst.st.pubnonces]}
  BY <1>2
<1> HIDE DEF call
<1>4. kst.phase = "Step1" /\ res.ok
  <2> HIDE DEF res
  <2> QED
    BY <1>3, CallCases
<1>5. r \in Requests
  BY DEF Asked, SignTypeOK
<1> QED
  BY <1>3, <1>4, <1>5

LEMMA SigsKept ==
    ASSUME [Next]_vars, sigs' # sigs
    PROVE  CoordinatorStep2 /\ UNCHANGED svars
BY DEF Next, Progress, SignerCall, SignerStep1, SignerFinalize, SignerRestart,
       CoordinatorCall, CoordinatorCreate, CoordinatorStep1, CoordinatorStep2,
       vars, kvars, svars

(***************************************************************************)
(* Without an honest coordinator there is none, and no signature.          *)
(***************************************************************************)
AbsentInv == kst.phase = "Absent" /\ sigs = {}

LEMMA AbsentInvariant == ASSUME ~CoordHonest PROVE Spec => []AbsentInv
<1>1. Init => AbsentInv
  BY DEF Init, AbsentInv, Absent, Driver
<1>2. AbsentInv /\ [Next]_vars => AbsentInv'
  BY DEF AbsentInv, Next, Progress, SignerCall, SignerStep1, SignerFinalize, SignerRestart,
         CoordinatorCall, CoordinatorCreate, CoordinatorStep1, CoordinatorStep2, vars, kvars
<1> QED
  BY <1>1, <1>2, PTL DEF Spec

LEMMA PsigsGrow ==
    ASSUME SignTypeOK, [Next]_vars
    PROVE  \A q \in Honest : psigs[q] \subseteq psigs'[q]
<1>1. CASE UNCHANGED svars
  BY <1>1 DEF svars
<1>2. ASSUME NEW p \in Honest, Elsewhere(p), Quiet(p) \/ Drawn(p) \/ Signed(p)
      PROVE  \A q \in Honest : psigs[q] \subseteq psigs'[q]
  <2>1. psigs[p] \subseteq psigs'[p]
    BY <1>2 DEF Quiet, Drawn, Signed
  <2>2. \A q \in Honest \ {p} : psigs'[q] = psigs[q]
    BY <1>2 DEF Elsewhere
  <2> QED
    BY <2>1, <2>2
<1> QED
  BY <1>1, <1>2, SignerSteps

LEMMA OneViewStep ==
    ASSUME AnswersTellViews, SessionInv, OneViewPerSignature, [Next]_vars
    PROVE  OneViewPerSignature'
<1> SUFFICES ASSUME NEW s \in sigs', NEW q \in Honest \cap Range(IdsOf(s.list))
             PROVE  \E x \in psigs'[q] :
                       /\ x.pubnonce = TicketsOf(s.list)[q]
                       /\ View(x.list, x.msg, x.tweaks) = View(s.list, s.msg, s.tweaks)
  BY DEF OneViewPerSignature
<1>1. psigs[q] \subseteq psigs'[q]
  BY PsigsGrow DEF SessionInv
<1>2. CASE s \in sigs
  BY <1>1, <1>2 DEF OneViewPerSignature
<1>3. CASE s \notin sigs
  <2>1. /\ kst.phase = "Step1"
        /\ \E group \in Groups, r \in Requests : \E list \in ListsOf(group, PsigsFrom) :
              /\ SignCoordinatorStep1Next(kst.st, list, r.msg, r.tweaks).ok
              /\ \E sig : sigs' = sigs \cup {[sig |-> sig, msg |-> r.msg, tweaks |-> r.tweaks,
                                              list |-> kst.st.pubnonces]}
    BY <1>3, SigsKept, CoordinatorStep2Grants DEF SessionInv
  <2>2. PICK group \in Groups, r \in Requests : \E list \in ListsOf(group, PsigsFrom) :
           /\ SignCoordinatorStep1Next(kst.st, list, r.msg, r.tweaks).ok
           /\ \E sig : sigs' = sigs \cup {[sig |-> sig, msg |-> r.msg, tweaks |-> r.tweaks,
                                           list |-> kst.st.pubnonces]}
    BY <2>1
  <2>3. PICK list \in ListsOf(group, PsigsFrom) :
           /\ SignCoordinatorStep1Next(kst.st, list, r.msg, r.tweaks).ok
           /\ \E sig : sigs' = sigs \cup {[sig |-> sig, msg |-> r.msg, tweaks |-> r.tweaks,
                                           list |-> kst.st.pubnonces]}
    BY <2>2
  <2>4. s.msg = r.msg /\ s.tweaks = r.tweaks /\ s.list = kst.st.pubnonces
    BY <1>3, <2>3
  <2>5. \E x \in psigs[q] :
           /\ x.pubnonce = TicketsOf(kst.st.pubnonces)[q]
           /\ View(x.list, x.msg, x.tweaks) = View(kst.st.pubnonces, r.msg, r.tweaks)
    BY <2>1, <2>3, <2>4, GrantedView
  <2> QED
    BY <1>1, <2>4, <2>5
<1> QED
  BY <1>2, <1>3

(***************************************************************************)
(* If the hashes tell views apart, the honest signers behind a signature   *)
(* had one view of the session, with nonces of their own, however late and *)
(* out of order what they were sent is.                                    *)
(***************************************************************************)
THEOREM SignersHadOneView ==
    ASSUME AnswersTellViews PROVE Spec => []OneViewPerSignature
<1>1. Init => OneViewPerSignature
  BY DEF Init, OneViewPerSignature
<1>2. CASE CoordHonest
  <2>1. SessionInv /\ OneViewPerSignature /\ [Next]_vars => OneViewPerSignature'
    BY OneViewStep
  <2>2. Spec => []SessionInv
    BY <1>2, SessionInvariant
  <2> QED
    BY <1>1, <2>1, <2>2, PTL DEF Spec
<1>3. CASE ~CoordHonest
  <2>1. AbsentInv => OneViewPerSignature
    BY DEF AbsentInv, OneViewPerSignature
  <2>2. Spec => []AbsentInv
    BY <1>3, AbsentInvariant
  <2> QED
    BY <2>1, <2>2, PTL
<1> QED
  BY <1>2, <1>3

-----------------------------------------------------------------------------
(* Threshold signing. *)

(***************************************************************************)
(* What has been sent and signed is known for every honest party.          *)
(***************************************************************************)
TablesInv == nonces = [p \in Honest |-> nonces[p]]

LEMMA TablesInvStep == TablesInv /\ [Next]_vars => TablesInv'
<1> SUFFICES ASSUME TablesInv, [Next]_vars PROVE TablesInv'
  OBVIOUS
<1>1. CASE nonces' = nonces
  BY <1>1 DEF TablesInv
<1>2. ASSUME NEW p \in Honest, SignerStep1(p) PROVE TablesInv'
  <2>1. \E new : nonces' = [nonces EXCEPT ![p] = new]
    BY <1>2, ZenonT(60) DEF SignerStep1
  <2> QED
    BY <2>1 DEF TablesInv
<1> QED
  BY <1>1, <1>2
     DEF Next, Progress, SignerCall, SignerFinalize, SignerRestart, CoordinatorCall,
         CoordinatorCreate, CoordinatorStep1, CoordinatorStep2, vars, svars

Spent ==
    [p \in Honest |-> {[nonce |-> x.pubnonce, msg |-> x.msg, tweaks |-> x.tweaks] :
                          x \in psigs[p]}]

Granted ==
    {[msg |-> s.msg, tweaks |-> s.tweaks, tickets |-> TicketsOf(s.list)] : s \in sigs}

LEMMA SignerStepRefines ==
    ASSUME FreshRandoms, SignTypeOK, NoncesInv, UnusedInv, TablesInv, TablesInv',
           sigs' = sigs, NEW p \in Honest, Elsewhere(p), Quiet(p) \/ Drawn(p) \/ Signed(p)
    PROVE  TS!Next \/ UNCHANGED <<nonces, Spent, Granted>>
<1>1. Granted' = Granted
  BY DEF Granted
<1>2. \A q \in Honest \ {p} : nonces'[q] = nonces[q] /\ psigs'[q] = psigs[q]
  BY DEF Elsewhere
<1>3. psigs'[p] = psigs[p] => Spent' = Spent
  BY <1>2 DEF Spent
<1>4. nonces'[p] = nonces[p] => nonces' = nonces
  BY <1>2 DEF TablesInv
<1>5. CASE Quiet(p)
  BY <1>1, <1>3, <1>4, <1>5 DEF Quiet
<1>6. CASE Drawn(p)
  <2>1. PICK random \in Randoms : \E m :
           /\ random \notin drawn[p] /\ Made(p, m, random)
           /\ nonces'[p] = nonces[p] \cup {m} /\ psigs'[p] = psigs[p]
    BY <1>6 DEF Drawn
  <2>2. PICK m :
           /\ random \notin drawn[p] /\ Made(p, m, random)
           /\ nonces'[p] = nonces[p] \cup {m} /\ psigs'[p] = psigs[p]
    BY <2>1
  <2>3. ASSUME NEW other \in nonces[p] PROVE other.nonce # m.nonce
    <3>1. PICK before \in drawn[p] : Made(p, other, before)
      BY DEF NoncesInv
    <3>2. before \in Randoms
      BY DEF SignTypeOK
    <3> QED
      BY <2>2, <3>1, <3>2, EqualNonces
  <2>4. nonces' = [nonces EXCEPT ![p] = @ \cup {m}]
    BY <1>2, <2>2 DEF TablesInv
  <2>5. m \in nonces'[p] /\ Spent' = Spent
    BY <1>3, <2>2
  <2>6. TS!Issue(p)
    BY <1>1, <2>3, <2>4, <2>5 DEF TS!Issue, Spent, Granted
  <2> QED
    BY <2>6 DEF TS!Next
<1>7. CASE Signed(p)
  <2>1. PICK x : /\ psigs'[p] = psigs[p] \cup {x}
                 /\ nonces'[p] = nonces[p]
                 /\ sst[p].phase = "Step1"
                 /\ x.pubnonce = PubNonce(sst[p].st.secnonce)
                 /\ Bound(sst[p].st, x)
    BY <1>7 DEF Signed
  <2> DEFINE use == [nonce |-> x.pubnonce, msg |-> x.msg, tweaks |-> x.tweaks]
  <2>2. use.nonce = x.pubnonce /\ use.msg = x.msg /\ use.tweaks = x.tweaks
    OBVIOUS
  <2>3. Spent' = [Spent EXCEPT ![p] = @ \cup {use}]
    <3>1. ASSUME NEW q \in Honest
          PROVE  Spent'[q] = [Spent EXCEPT ![p] = @ \cup {use}][q]
      <4>1. CASE q = p
        <5>1. /\ Spent'[p] = {[nonce |-> y.pubnonce, msg |-> y.msg, tweaks |-> y.tweaks] :
                                  y \in psigs'[p]}
              /\ Spent[p] = {[nonce |-> y.pubnonce, msg |-> y.msg, tweaks |-> y.tweaks] :
                                  y \in psigs[p]}
          BY DEF Spent
        <5>2. Spent'[p] = Spent[p] \cup {use}
          BY <2>1, <5>1
        <5>3. p \in DOMAIN Spent
          BY DEF Spent
        <5> HIDE DEF use
        <5> QED
          BY <4>1, <5>2, <5>3
      <4>2. CASE q # p
        BY <1>2, <4>2 DEF Spent
      <4> QED
        BY <4>1, <4>2
    <3> DEFINE New == [Spent EXCEPT ![p] = @ \cup {use}]
    <3>2. New = [q \in Honest |-> New[q]] /\ Spent' = [q \in Honest |-> Spent'[q]]
      BY DEF Spent
    <3> HIDE DEF New
    <3>3. \A q \in Honest : Spent'[q] = New[q]
      BY <3>1 DEF New
    <3>4. Spent' = New
      BY <3>2, <3>3
    <3> QED
      BY <3>4 DEF New
  <2>4. ASSUME NEW other \in Spent[p] PROVE other.nonce # use.nonce
    <3>1. PICK y \in psigs[p] :
              other = [nonce |-> y.pubnonce, msg |-> y.msg, tweaks |-> y.tweaks]
      BY DEF Spent
    <3>2. y.pubnonce # x.pubnonce
      BY <2>1 DEF UnusedInv
    <3> QED
      BY <3>1, <3>2
  <2>5. PICK ticket \in nonces[p] : /\ ticket.nonce = PubNonce(sst[p].st.secnonce)
                                    /\ ticket.msg = sst[p].st.msg
                                    /\ ticket.tweaks = sst[p].st.tweaks
    BY <2>1 DEF SignTypeOK, SignerDriver, NewSigner, Driver
  <2>6. /\ ticket.nonce = use.nonce
        /\ ticket.msg \in {{}, {use.msg}} /\ ticket.tweaks \in {{}, {use.tweaks}}
    BY <2>1, <2>2, <2>5 DEF Bound
  <2> HIDE DEF use
  <2>7. use \in Spent'[p]
    BY <2>3 DEF Spent
  <2>8. nonces' = nonces
    BY <1>4, <2>1
  <2>9. TS!Spend(p)
    BY <1>1, <2>3, <2>4, <2>6, <2>7, <2>8 DEF TS!Spend, Spent, Granted
  <2> QED
    BY <2>9 DEF TS!Next
<1> QED
  BY <1>5, <1>6, <1>7

LEMMA GrantRefines ==
    ASSUME AnswersTellViews, SessionInv, [Next]_vars, sigs' # sigs
    PROVE  TS!Next
<1>1. CoordinatorStep2 /\ UNCHANGED <<nonces, psigs>>
  BY SigsKept DEF svars
<1>2. /\ kst.phase = "Step1"
      /\ \E group \in Groups, r \in Requests : \E list \in ListsOf(group, PsigsFrom) :
            /\ SignCoordinatorStep1Next(kst.st, list, r.msg, r.tweaks).ok
            /\ \E sig : sigs' = sigs \cup {[sig |-> sig, msg |-> r.msg, tweaks |-> r.tweaks,
                                            list |-> kst.st.pubnonces]}
  BY <1>1, CoordinatorStep2Grants DEF SessionInv
<1>3. PICK group \in Groups, r \in Requests : \E list \in ListsOf(group, PsigsFrom) :
         /\ SignCoordinatorStep1Next(kst.st, list, r.msg, r.tweaks).ok
         /\ \E sig : sigs' = sigs \cup {[sig |-> sig, msg |-> r.msg, tweaks |-> r.tweaks,
                                         list |-> kst.st.pubnonces]}
  BY <1>2
<1>4. PICK list \in ListsOf(group, PsigsFrom) :
         /\ SignCoordinatorStep1Next(kst.st, list, r.msg, r.tweaks).ok
         /\ \E sig : sigs' = sigs \cup {[sig |-> sig, msg |-> r.msg, tweaks |-> r.tweaks,
                                         list |-> kst.st.pubnonces]}
  BY <1>3
<1>5. PICK sig : sigs' = sigs \cup {[sig |-> sig, msg |-> r.msg, tweaks |-> r.tweaks,
                                     list |-> kst.st.pubnonces]}
  BY <1>4
<1> DEFINE L == kst.st.pubnonces
           grant == [msg |-> r.msg, tweaks |-> r.tweaks, tickets |-> TicketsOf(L)]
<1>6. Granted' = Granted \cup {grant}
  BY <1>5 DEF Granted
<1>7. Spent' = Spent
  BY <1>1 DEF Spent
<1>8. ASSUME NEW q \in DOMAIN grant.tickets
      PROVE  \E use \in Spent[q] : /\ use.nonce = grant.tickets[q]
                                   /\ use.msg = grant.msg
                                   /\ TweakedKey(use.tweaks) = TweakedKey(grant.tweaks)
  <2>1. q \in Honest \cap Range(IdsOf(L))
    BY DEF TicketsOf
  <2>2. PICK x \in psigs[q] : /\ x.pubnonce = TicketsOf(L)[q]
                              /\ View(x.list, x.msg, x.tweaks) = View(L, r.msg, r.tweaks)
    BY <1>2, <1>4, <2>1, GrantedView
  <2>3. x.msg = r.msg /\ TweakedKey(x.tweaks) = TweakedKey(r.tweaks)
    BY <2>2 DEF View
  <2>4. [nonce |-> x.pubnonce, msg |-> x.msg, tweaks |-> x.tweaks] \in Spent[q]
    BY <2>1 DEF Spent
  <2> QED
    BY <2>2, <2>3, <2>4
<1> HIDE DEF grant
<1>9. TS!Grant
  BY <1>1, <1>6, <1>7, <1>8 DEF TS!Grant, Spent, Granted
<1> QED
  BY <1>9 DEF TS!Next

(***************************************************************************)
(* The session implements threshold signing with one-time tickets, if the  *)
(* randomness of a signer is fresh and the hashes tell views apart: every  *)
(* step issues a ticket, spends one, grants a signature for spent ones, or *)
(* changes none of these.                                                  *)
(***************************************************************************)
THEOREM SigningIsThresholdSigning ==
    ASSUME FreshRandoms, AnswersTellViews PROVE Spec => ImplementsThresholdSigning
<1> DEFINE Inv == SignTypeOK /\ NoncesInv /\ UnusedInv /\ NonceUsedOnce /\ TablesInv
<1>1. Init => TS!Init /\ TablesInv /\ UnusedInv /\ NonceUsedOnce
  BY DEF Init, TS!Init, TablesInv, UnusedInv, NonceUsedOnce, NewSigner, Driver
<1>2. Spec => []Inv
  <2>1. Inv /\ [Next]_vars => (UnusedInv /\ NonceUsedOnce /\ TablesInv)'
    BY UsedOnceStep, TablesInvStep
  <2> QED
    BY <1>1, <2>1, NoncesInvariant, PTL DEF Spec
<1>3. ASSUME Inv, Inv', [Next]_vars, sigs' = sigs
      PROVE  TS!Next \/ UNCHANGED <<nonces, Spent, Granted>>
  <2>1. CASE UNCHANGED svars
    <3>1. UNCHANGED <<nonces, psigs, sigs>>
      BY <1>3, <2>1 DEF svars
    <3> QED
      BY <3>1 DEF Spent, Granted
  <2> QED
    BY <1>3, <2>1, SignerSteps, SignerStepRefines
<1>4. UNCHANGED <<nonces, Spent, Granted>> => UNCHANGED TS!vars
  BY DEF TS!vars, Spent, Granted
<1>5. CASE CoordHonest
  <2>1. Inv /\ Inv' /\ SessionInv /\ [Next]_vars => [TS!Next]_(TS!vars)
    <3> SUFFICES ASSUME Inv, Inv', SessionInv, [Next]_vars PROVE [TS!Next]_(TS!vars)
      OBVIOUS
    <3>1. CASE sigs' = sigs
      <4> HIDE DEF Inv
      <4> QED
        BY <1>3, <1>4, <3>1
    <3>2. CASE sigs' # sigs
      BY <3>2, GrantRefines
    <3> QED
      BY <3>1, <3>2
  <2>2. Spec => []SessionInv
    BY <1>5, SessionInvariant
  <2> QED
    BY <1>1, <1>2, <2>1, <2>2, PTL DEF Spec, ImplementsThresholdSigning, TS!Spec
<1>6. CASE ~CoordHonest
  <2>1. Inv /\ Inv' /\ AbsentInv /\ AbsentInv' /\ [Next]_vars => [TS!Next]_(TS!vars)
    <3> SUFFICES ASSUME Inv, Inv', AbsentInv, AbsentInv', [Next]_vars
                 PROVE  [TS!Next]_(TS!vars)
      OBVIOUS
    <3>1. sigs' = sigs
      BY DEF AbsentInv
    <3> HIDE DEF Inv
    <3> QED
      BY <1>3, <1>4, <3>1
  <2>2. Spec => []AbsentInv
    BY <1>6, AbsentInvariant
  <2> QED
    BY <1>1, <1>2, <2>1, <2>2, PTL DEF Spec, ImplementsThresholdSigning, TS!Spec
<1> QED
  BY <1>5, <1>6
=============================================================================
