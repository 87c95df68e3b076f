------------------------- MODULE ChillDKGBlameProofs -----------------------
(***************************************************************************)
(* Blame in a ChillDKG session falls on no honest party, for any parties,  *)
(* keys, parameters, randomness and hash functions: see OneAgreedSession   *)
(* and HashesAreScalars for what it rests on.                              *)
(***************************************************************************)
EXTENDS ChillDKGOutputProofs

-----------------------------------------------------------------------------
(* Blame.  One session of one set of parameters: whatever is sent comes    *)
(* from one first step per honest party and one aggregate.                 *)

FirstStep(p, random) == InitialNext([s |-> HostSec[p]], GivenParams, random)

PositionAmong(p) ==
    ValidateSessionParams(HostSec[p], GivenParams.host_pubkeys, GivenParams.t).val

Valid(params) == ValidatePublicSessionParams(params.host_pubkeys, params.t).ok

Aggregates(m, order, msgs) ==
    /\ order \in Orders
    /\ msgs \in Collected(order, Msg1From)
    /\ CoordinatorInitialNext(GivenParams, msgs).ok
    /\ CoordinatorInitialNext(GivenParams, msgs).out = m

TranscriptFrom(m) ==
    Transcript(GivenParams.t, SumCommitment(m), GivenParams.host_pubkeys, m.pubnonces,
               m.enc_secshares)

(***************************************************************************)
(* The driver of p and the first messages that it has sent.                *)
(***************************************************************************)
OneStep(p, driver, sent) ==
    /\ driver.phase = "Initial" => sent = {}
    /\ driver.phase = "Step1" =>
          \E random \in Randoms : /\ FirstStep(p, random).ok
                                  /\ driver.st = FirstStep(p, random).st
                                  /\ FirstStep(p, random).out \in sent
    /\ \A m \in sent :
          /\ sent = {m}
          /\ \E random \in Randoms : /\ FirstStep(p, random).ok
                                     /\ m = FirstStep(p, random).out

OneStepEach == \A p \in Honest : OneStep(p, pst[p], pmsg1[p])

OneAggregate ==
    /\ csessions = 0 => cst = Absent
    /\ cst.phase \in {"Absent", "Initial"} => cmsg1 = {}
    /\ cst.phase = "Initial" => cst.st = GivenParams /\ Valid(GivenParams)
    /\ cst.phase = "Step1" =>
          \E m \in cmsg1 : /\ cst.st.host_pubkeys = GivenParams.host_pubkeys
                           /\ cst.st.transcript = TranscriptFrom(m)
    /\ \A m \in cmsg1 :
          /\ cmsg1 = {m}
          /\ Valid(GivenParams)
          /\ \E order, msgs : Aggregates(m, order, msgs)

OneTranscript ==
    /\ \A p \in Honest :
          /\ pst[p].phase = "Step2" =>
                \E m \in cmsg1 : pst[p].st.transcript = TranscriptFrom(m)
          /\ \A sig \in pmsg2[p] :
                \E m \in cmsg1 :
                    sig = Sig(XOnly(HostKey(p)), PositionAmong(p), TranscriptFrom(m))
    /\ \A cert \in certs :
          \E m \in cmsg1 : VerifyCertificate(TranscriptFrom(m), cert).ok

SessionInv == OneStepEach /\ OneAggregate /\ OneTranscript

-----------------------------------------------------------------------------
(* What dealers share. *)

(***************************************************************************)
(* Horner's rule from the last coefficient to the first, and the powers of *)
(* EvalPubShare, give the same value.                                      *)
(***************************************************************************)
Horner(c, e, x, h) ==
    /\ h \in [1 .. e + 1 -> Scalar]
    /\ h[e + 1] = 0
    /\ \A m \in 1 .. e : h[m] = (h[m + 1] * x + c[m]) % Order

LEMMA EvalIsHorner ==
    ASSUME NEW e \in Nat, NEW c \in [1 .. e -> Int], NEW x \in Int
    PROVE  \E h : Horner(c, e, x, h) /\ Eval(c, x) = h[1]
<1> DEFINE Fed(acc, C) == (acc * x + C) % Order
           f == [k \in 1 .. e |-> [acc \in Scalar |-> Fed(acc, c[k])]]
           S == 1 .. e
           Folds(iter) ==
               iter = [s \in SUBSET S |->
                          IF s = {} THEN 0
                          ELSE Fed(iter[s \ {Min(s)}], c[Min(s)])]
           iter == CHOOSE iter : Folds(iter)
<1>1. \A acc \in Scalar, C \in Int : Fed(acc, C) \in Scalar
  <2>1. \A acc \in Int, C \in Int : acc * x + C \in Int
    OBVIOUS
  <2> QED
    BY <2>1, ModType, ScalarIsInt
<1>2. f \in [1 .. e -> [Scalar -> Scalar]]
  <2> HIDE DEF Fed
  <2> QED
    BY <1>1
<1>3. PICK G \in [SUBSET S -> Scalar] : \A s \in SUBSET S : RightFoldStep(G, 0, f, s)
  <2> HIDE DEF f
  <2> QED
    BY <1>2, RightFoldExists, ScalarIsInt
<1>4. Folds(G)
  <2>1. ASSUME NEW s \in SUBSET S
        PROVE  G[s] = IF s = {} THEN 0 ELSE Fed(G[s \ {Min(s)}], c[Min(s)])
    <3>1. s \ {Min(s)} \in SUBSET S /\ G[s \ {Min(s)}] \in Scalar
      BY <1>3
    <3>2. s # {} => Min(s) \in 1 .. e
      BY ReflectedParts
    <3> HIDE DEF Fed
    <3>3. s # {} => f[Min(s)][G[s \ {Min(s)}]] = Fed(G[s \ {Min(s)}], c[Min(s)])
      BY <3>1, <3>2
    <3> HIDE DEF f
    <3> QED
      BY <1>3, <3>3 DEF RightFoldStep
  <2> HIDE DEF Fed
  <2> QED
    BY <1>3, <2>1
<1>5. Folds(iter)
  <2> HIDE DEF Folds
  <2> QED
    BY <1>4
<1>6. Eval(c, x) = iter[S]
  <2>1. DOMAIN c = S
    OBVIOUS
  <2> QED
    BY <2>1, Zenon DEF Eval, FoldRight, MapThenFoldSet
<1> HIDE DEF iter, Fed
<1>7. ASSUME NEW m \in 1 .. e
      PROVE  iter[m .. e] = Fed(iter[m + 1 .. e], c[m])
  <2>0. m \in m .. e /\ \A k \in m .. e : k \in 1 .. e /\ k \in Nat /\ m <= k
    OBVIOUS
  <2>1. m .. e \in SUBSET S /\ m .. e # {} /\ m \in m .. e /\ m .. e \subseteq Nat
        /\ \A k \in m .. e : m <= k
    BY <2>0
  <2>2. Min(m .. e) = m
    BY <2>1, MinOfInterval
  <2>3. (m .. e) \ {m} = m + 1 .. e
    <3>1. \A k : k \in (m .. e) \ {m} <=> k \in m + 1 .. e
      OBVIOUS
    <3> QED
      BY <3>1
  <2>4. iter[m .. e] = Fed(iter[(m .. e) \ {Min(m .. e)}], c[Min(m .. e)])
    BY <1>5, <2>1
  <2> QED
    BY <2>2, <2>3, <2>4
<1>8. iter[e + 1 .. e] = 0
  <2>1. e + 1 .. e = {} /\ {} \in SUBSET S
    OBVIOUS
  <2> QED
    BY <1>5, <2>1
<1> HIDE DEF Folds
<1> DEFINE h == [m \in 1 .. e + 1 |-> iter[m .. e]]
<1>9. \A m \in 1 .. e + 1 : iter[m .. e] \in Scalar
  <2> DEFINE T == {d \in 0 .. e : iter[e + 1 - d .. e] \in Scalar}
  <2>1. 0 \in T
    <3>1. e + 1 - 0 = e + 1 /\ 0 \in 0 .. e
      OBVIOUS
    <3> QED
      BY <1>8, <3>1, ScalarIsInt
  <2>2. ASSUME NEW d \in 1 .. e, d - 1 \in T PROVE d \in T
    <3> DEFINE m == e + 1 - d
    <3>1. m \in 1 .. e /\ m + 1 = e + 1 - (d - 1) /\ d \in 0 .. e
      OBVIOUS
    <3>2. iter[m + 1 .. e] \in Scalar /\ c[m] \in Int
      BY <2>2, <3>1
    <3> HIDE DEF m
    <3>3. iter[m .. e] \in Scalar
      BY <1>1, <1>7, <3>1, <3>2 DEF Fed
    <3> QED
      BY <3>1, <3>3 DEF m
  <2> HIDE DEF T
  <2>3. \A d \in 0 .. e : d \in T
    BY <2>1, <2>2, InductionUpTo
  <2>4. ASSUME NEW m \in 1 .. e + 1 PROVE iter[m .. e] \in Scalar
    <3>1. e + 1 - m \in 0 .. e /\ e + 1 - (e + 1 - m) = m
      OBVIOUS
    <3>2. e + 1 - m \in T
      BY <2>3, <3>1
    <3> QED
      BY <3>1, <3>2 DEF T
  <2> QED
    BY <2>4
<1>10. Horner(c, e, x, h)
  <2>1. h \in [1 .. e + 1 -> Scalar]
    BY <1>9
  <2>2. e + 1 \in 1 .. e + 1 /\ \A m \in 1 .. e : m \in 1 .. e + 1 /\ m + 1 \in 1 .. e + 1
    OBVIOUS
  <2>3. h[e + 1] = 0
    BY <1>8, <2>2
  <2>4. \A m \in 1 .. e : h[m] = (h[m + 1] * x + c[m]) % Order
    BY <1>7, <2>2 DEF Fed
  <2> HIDE DEF h
  <2> QED
    BY <2>1, <2>3, <2>4 DEF Horner
<1>11. h[1] = iter[S]
  OBVIOUS
<1> HIDE DEF h
<1> QED
  BY <1>6, <1>10, <1>11

LEMMA HornerStep ==
    ASSUME NEW G \in Int, NEW X \in Int, NEW C \in Int, NEW H \in Int, NEW i \in Int
    PROVE  Equiv(((G + C * X) % Order) + ((X * i) % Order) * H, G + X * ((H * i + C) % Order))
<1> DEFINE u == G + C * X
           v == X * i
           w == H * i + C
<1>1. /\ u \in Int /\ v \in Int /\ w \in Int /\ v * H \in Int /\ X * w \in Int
      /\ C * X \in Int /\ H * i \in Int
  OBVIOUS
<1>2. u + v * H = G + X * w
  <2>1. X * w = X * (H * i) + X * C
    BY <1>1
  <2>2. X * (H * i) = v * H /\ X * C = C * X
    OBVIOUS
  <2> QED
    BY <1>1, <2>1, <2>2
<1> HIDE DEF u, v, w
<1>3. /\ Equiv(u % Order, u) /\ Equiv(v % Order, v) /\ Equiv(w % Order, w)
      /\ u % Order \in Int /\ v % Order \in Int /\ w % Order \in Int
  BY <1>1, EquivMod
<1>4. Equiv(H, H)
  BY DEF Equiv
<1> DEFINE um == u % Order
           vm == v % Order
           wm == w % Order
<1>5. Equiv(vm * H, v * H)
  <2> HIDE DEF vm
  <2> QED
    BY <1>1, <1>3, <1>4, EquivMul DEF vm
<1>6. Equiv(X * wm, X * w)
  BY <1>1, <1>3, EquivTimes
<1>7. vm * H \in Int /\ X * wm \in Int /\ um \in Int
  BY <1>3
<1>8. Equiv(um, u)
  BY <1>3
<1> HIDE DEF um, vm, wm
<1>9. Equiv(um + vm * H, u + v * H)
  BY <1>1, <1>5, <1>7, <1>8, EquivAdd
<1>10. Equiv(G + X * wm, G + X * w)
  BY <1>1, <1>6, <1>7, EquivPlus
<1>11. Equiv(um + vm * H, G + X * wm)
  BY <1>2, <1>9, <1>10 DEF Equiv
<1> QED
  BY <1>11 DEF um, vm, wm, u, v, w

LEMMA EvalIsPubShare ==
    ASSUME NEW e \in Nat, NEW c \in [1 .. e -> Int], NEW i \in Int
    PROVE  Eval(c, i) = EvalPubShare(c, i)
<1>1. PICK g, x : Evaluates(c, e, i, g, x) /\ EvalPubShare(c, i) = g[e]
  BY EvalRuns
<1>2. PICK h : Horner(c, e, i, h) /\ Eval(c, i) = h[1]
  BY EvalIsHorner
<1> DEFINE T == {m \in 0 .. e : Equiv(g[m] + x[m] * h[m + 1], h[1])}
<1>0. \A m \in 0 .. e : /\ g[m] \in Int /\ x[m] \in Int /\ m + 1 \in 1 .. e + 1
                        /\ h[m + 1] \in Int
  <2>1. \A m \in 0 .. e : m + 1 \in 1 .. e + 1
    OBVIOUS
  <2> QED
    BY <1>1, <1>2, <2>1, ScalarIsInt DEF Evaluates, Horner
<1>3. 0 \in T
  <2>1. g[0] = 0 /\ x[0] = 1 /\ 0 \in 0 .. e /\ h[1] \in Int /\ 0 + 1 = 1
    BY <1>0, <1>1 DEF Evaluates
  <2>2. 0 + 1 * h[1] = h[1]
    BY <2>1
  <2> QED
    BY <2>1, <2>2 DEF Equiv
<1>4. ASSUME NEW m \in 1 .. e, m - 1 \in T PROVE m \in T
  <2>0. m \in 0 .. e /\ m - 1 \in 0 .. e /\ (m - 1) + 1 = m
    OBVIOUS
  <2>1. /\ g[m - 1] \in Int /\ x[m - 1] \in Int /\ h[m] \in Int /\ h[m + 1] \in Int
        /\ c[m] \in Int
    BY <1>0, <2>0
  <2>2. /\ g[m] = (g[m - 1] + c[m] * x[m - 1]) % Order
        /\ x[m] = (x[m - 1] * i) % Order
        /\ h[m] = (h[m + 1] * i + c[m]) % Order
    BY <1>1, <1>2 DEF Evaluates, Horner, Times
  <2>3. Equiv(g[m - 1] + x[m - 1] * h[m], h[1])
    BY <1>4, <2>0
  <2>4. Equiv(g[m] + x[m] * h[m + 1], g[m - 1] + x[m - 1] * h[m])
    BY <2>1, <2>2, HornerStep
  <2>5. Equiv(g[m] + x[m] * h[m + 1], h[1])
    BY <2>3, <2>4 DEF Equiv
  <2> QED
    BY <2>0, <2>5
<1> HIDE DEF T
<1>5. e \in T
  <2>1. e \in 0 .. e
    OBVIOUS
  <2> QED
    BY <1>3, <1>4, <2>1, InductionUpTo
<1>6. Equiv(g[e] + x[e] * h[e + 1], h[1])
  BY <1>5 DEF T
<1>7. /\ h[e + 1] = 0 /\ h[1] \in Scalar /\ g[e] \in Scalar /\ x[e] \in Int
      /\ g[e] \in Int
  <2>1. e \in 0 .. e /\ 1 \in 1 .. e + 1
    OBVIOUS
  <2> QED
    BY <1>0, <1>1, <1>2, <2>1 DEF Evaluates, Horner
<1>8. g[e] + x[e] * 0 = g[e]
  BY <1>7
<1> QED
  BY <1>1, <1>2, <1>6, <1>7, <1>8, EquivScalar DEF Equiv

-----------------------------------------------------------------------------
(* First messages of honest parties. *)

LEMMA GivenParamsType ==
    ASSUME OneAgreedSession
    PROVE  /\ GivenParams \in Params
           /\ GivenParams \in CoordParams \cup UNION {ParamChoices[p] : p \in Honest}
           /\ GivenParams.host_pubkeys \in Seq(Scalar) /\ GivenParams.t \in Nat
<1>1. GivenParams \in CoordParams
  BY DEF OneAgreedSession
<1>2. GivenParams \in Params
  BY <1>1, ParamsAssumption
<1> QED
  BY <1>1, <1>2 DEF Params

(***************************************************************************)
(* Where the keys of valid parameters stand.                               *)
(***************************************************************************)
LEMMA KeysApart ==
    ASSUME OneAgreedSession, Valid(GivenParams)
    PROVE  LET keys == GivenParams.host_pubkeys
           IN  /\ Len(keys) \in Nat /\ DOMAIN keys = 1 .. Len(keys)
               /\ GivenParams.t \in 1 .. Len(keys)
               /\ \A i \in 1 .. Len(keys) : keys[i] \in Scalar /\ keys[i] # Identity
               /\ \A i, j \in 1 .. Len(keys) : keys[i] = keys[j] => i = j
<1> DEFINE keys == GivenParams.host_pubkeys
<1>1. keys \in Seq(Scalar) /\ GivenParams.t \in Nat
  BY GivenParamsType
<1>2. ValidatePublicSessionParams(keys, GivenParams.t).ok
  BY DEF Valid
<1> HIDE DEF keys
<1>3. Len(keys) \in Nat /\ DOMAIN keys = 1 .. Len(keys) /\ \A i \in 1 .. Len(keys) : keys[i] \in Scalar
  BY <1>1, LenProperties, ElementOfSeq
<1>4. /\ 1 <= GivenParams.t /\ GivenParams.t <= Len(keys)
      /\ \A i \in 1 .. Len(keys) : keys[i] # Identity
      /\ \A i, j \in 1 .. Len(keys) : keys[i] = keys[j] => i = j
  BY <1>1, <1>2, ValidKeys
<1> QED
  BY <1>1, <1>3, <1>4 DEF keys

(***************************************************************************)
(* The pad of the share that p sends to position j, with its nonce R.      *)
(***************************************************************************)
ShareContext(j) == <<j, EncContext(GivenParams.t, GivenParams.host_pubkeys)>>

Pad(p, R, j) ==
    IF j = PositionAmong(p) THEN SelfPad(HostSec[p], R, ShareContext(j))
                            ELSE SendPad(R, KeyAt(j), ShareContext(j))

(***************************************************************************)
(* What makes up the first message of honest party p.                      *)
(***************************************************************************)
HonestMsg1(p, m) ==
    /\ PositionAmong(p) \in 1 .. Len(GivenParams.host_pubkeys)
    /\ KeyAt(PositionAmong(p)) = HostKey(p)
    /\ m.commitment \in [1 .. GivenParams.t -> Scalar \ {Identity}]
    /\ m.pop = Pop(XOnly(m.commitment[1]), PositionAmong(p))
    /\ m.pubnonce \in Scalar \ {Identity}
    /\ Len(m.enc_shares) = Len(GivenParams.host_pubkeys)
    /\ \A j \in 1 .. Len(GivenParams.host_pubkeys) :
          m.enc_shares[j] =
              (EvalPubShare(m.commitment, j) + Pad(p, m.pubnonce, j)) % Order

FirstState(p, m) ==
    [idx |-> PositionAmong(p), t |-> GivenParams.t, s |-> HostSec[p],
     host_pubkeys |-> GivenParams.host_pubkeys,
     pubnonce |-> m.pubnonce, com_to_secret |-> m.commitment[1]]

LEMMA FirstStepMsg ==
    ASSUME OneAgreedSession, HashesAreScalars, NEW p \in Honest, NEW random \in Randoms,
           NEW res, res = FirstStep(p, random), res.ok
    PROVE  /\ Valid(GivenParams)
           /\ HonestMsg1(p, res.out)
           /\ res.phase = "Step1"
           /\ res.st = FirstState(p, res.out)
<1> DEFINE keys == GivenParams.host_pubkeys
           t == GivenParams.t
           n == Len(keys)
           context == EncContext(t, keys)
           start == [s |-> HostSec[p]]
           s == start.s
           position == ValidateSessionParams(s, keys, t)
           seed == Seed(s, random, context)
           coeffs == Coefficients(seed, t)
           commitment == Commit(coeffs)
           idx == position.val
           pop == PopSign(coeffs[1], idx)
           r == NonceHash(seed)
           shares == EvalShares(coeffs, n)
           enc_shares == Encrypt(r, s, keys, context, idx, shares)
           out == [commitment |-> commitment, pop |-> pop.val, pubnonce |-> MulG(r),
                   enc_shares |-> enc_shares]
           st == [idx |-> idx, t |-> t, s |-> s, host_pubkeys |-> keys,
                  pubnonce |-> MulG(r), com_to_secret |-> commitment[1]]
<1>0. s = HostSec[p] /\ idx = PositionAmong(p)
  BY DEF PositionAmong
<1>1. res = Advance("Step1", st, out) /\ r # 0 /\ pop.ok /\ position.ok
  <2>1. res = InitialNext(start, GivenParams, random)
    BY DEF FirstStep
  <2> HIDE DEF start
  <2>2. res = IF ~position.ok THEN position
              ELSE IF r = 0 THEN Err(Error("Runtime"))
              ELSE IF ~pop.ok THEN pop
              ELSE Advance("Step1", st, out)
    BY <2>1, Zenon DEF InitialNext
  <2> HIDE DEF position, pop, r, st, out
  <2> QED
    BY <2>2, ErrIsNotOk, Zenon
<1> HIDE DEF start, s
<1>2. keys \in Seq(Scalar) /\ t \in Nat /\ p \in Parties
  BY GivenParamsType, PartiesAssumption
<1>3. Valid(GivenParams)
  BY <1>1, ErrIsNotOk DEF ValidateSessionParams, Valid
<1>4. /\ n \in Nat /\ t \in 1 .. n /\ DOMAIN keys = 1 .. n
      /\ \A j \in 1 .. n : keys[j] \in Scalar
  BY <1>3, KeysApart
<1>5. idx \in 1 .. n /\ keys[idx] = HostKey(p)
  BY <1>0, <1>1, <1>2, <1>4, ValidParams DEF HostKey
<1> HIDE DEF n, position
<1>6. seed \in SessionSeeds /\ seed[3][1] = t
  <2>1. GivenParams \in CoordParams \cup UNION {ParamChoices[q] : q \in Honest}
    BY GivenParamsType
  <2> QED
    BY <1>0, <1>2, <2>1 DEF SessionSeeds, Seed, EncContext
<1>7. r \in Scalar /\ \A k \in 1 .. (t - 1) : CoeffHash(seed, k) # 0
  BY <1>6 DEF HashesAreScalars
<1>8. \A k \in 0 .. (t - 1) : CoeffHash(seed, k) \in Scalar
  BY <1>6, CoeffHashAssumption
<1> HIDE DEF seed, context
<1>9. coeffs \in [1 .. t -> Scalar \ {Identity}]
  <2>1. ASSUME NEW k \in 1 .. t PROVE coeffs[k] \in Scalar /\ coeffs[k] # Identity
    <3>0. coeffs[k] = CoeffHash(seed, k - 1) /\ k - 1 \in 0 .. (t - 1)
      BY <1>4 DEF Coefficients
    <3>1. CASE k = 1
      BY <1>1, <1>8, <3>0, <3>1, ErrIsNotOk DEF PopSign, Identity
    <3>2. CASE k # 1
      <4>1. k - 1 \in 1 .. (t - 1)
        BY <1>4, <3>2
      <4> QED
        BY <1>7, <1>8, <3>0, <4>1 DEF Identity
    <3> QED
      BY <3>1, <3>2
  <2>2. coeffs = [k \in 1 .. t |-> coeffs[k]]
    BY DEF Coefficients
  <2> HIDE DEF coeffs
  <2> QED
    BY <2>1, <2>2
<1> HIDE DEF coeffs, r
<1>10. commitment = coeffs
  <2>1. DOMAIN coeffs = 1 .. t /\ \A k \in 1 .. t : MulG(coeffs[k]) = coeffs[k]
    BY <1>9, ModOfScalar DEF MulG
  <2>2. commitment = [k \in 1 .. t |-> coeffs[k]]
    BY <2>1 DEF Commit
  <2>3. coeffs = [k \in 1 .. t |-> coeffs[k]]
    BY <1>9
  <2> QED
    BY <2>2, <2>3
<1> HIDE DEF commitment
<1>11. MulG(r) = r
  BY <1>7, ModOfScalar DEF MulG
<1>12. pop.val = Pop(XOnly(coeffs[1]), idx)
  <2>1. MulG(coeffs[1]) = coeffs[1]
    BY <1>4, <1>9, ModOfScalar DEF MulG
  <2> QED
    BY <1>1, <2>1, ErrIsNotOk, OkIsOk DEF PopSign
<1>13. Len(enc_shares) = n
  BY <1>4 DEF Encrypt, n
<1>14. ASSUME NEW j \in 1 .. n
       PROVE  enc_shares[j] = (EvalPubShare(coeffs, j) + Pad(p, r, j)) % Order
  <2>1. enc_shares[j] = (shares[j] + IF j = idx THEN SelfPad(s, MulG(r), <<j, context>>)
                                     ELSE SendPad(r, keys[j], <<j, context>>)) % Order
    BY DEF Encrypt, n
  <2>2. shares[j] = Eval(coeffs, j)
    BY <1>4 DEF EvalShares
  <2>3. Eval(coeffs, j) = EvalPubShare(coeffs, j)
    <3>1. coeffs \in [1 .. t -> Int] /\ t \in Nat /\ j \in Int
      BY <1>2, <1>4, <1>9, ScalarIsInt
    <3> QED
      BY <3>1, EvalIsPubShare
  <2>4. Pad(p, r, j) = IF j = idx THEN SelfPad(s, r, <<j, context>>)
                                  ELSE SendPad(r, keys[j], <<j, context>>)
    BY <1>0 DEF Pad, KeyAt, ShareContext, context
  <2> QED
    BY <1>11, <2>1, <2>2, <2>3, <2>4
<1> HIDE DEF enc_shares, pop
<1>15. HonestMsg1(p, out)
  <2>1. /\ out.commitment = coeffs /\ out.pop = pop.val /\ out.pubnonce = r
        /\ out.enc_shares = enc_shares
    BY <1>10, <1>11
  <2>2. r \in Scalar \ {Identity}
    BY <1>1, <1>7 DEF Identity
  <2>3. KeyAt(idx) = HostKey(p) /\ idx \in 1 .. Len(GivenParams.host_pubkeys)
    BY <1>5 DEF KeyAt, n
  <2>4. \A j \in 1 .. Len(GivenParams.host_pubkeys) :
            enc_shares[j] = (EvalPubShare(coeffs, j) + Pad(p, r, j)) % Order
    BY <1>14 DEF n
  <2>5. Len(enc_shares) = Len(GivenParams.host_pubkeys)
    BY <1>13 DEF n
  <2>6. pop.val = Pop(XOnly(coeffs[1]), PositionAmong(p))
    BY <1>0, <1>12
  <2> HIDE DEF out
  <2> QED
    BY <1>0, <1>9, <2>1, <2>2, <2>3, <2>4, <2>5, <2>6 DEF HonestMsg1
<1>16. st = FirstState(p, out)
  BY <1>0 DEF FirstState
<1> HIDE DEF out, st
<1> QED
  BY <1>1, <1>3, <1>15, <1>16 DEF Advance

-----------------------------------------------------------------------------
(* Aggregates. *)

(***************************************************************************)
(* What a valid list of first messages is.                                 *)
(***************************************************************************)
ValidMsg1(m) ==
    /\ Len(m.commitment) = GivenParams.t
    /\ Len(m.enc_shares) = Len(GivenParams.host_pubkeys)
    /\ m.pubnonce # Identity
    /\ \A k \in DOMAIN m.commitment : m.commitment[k] # Identity

LEMMA Msg1Validated ==
    ASSUME NEW msgs, Len(msgs) \in Nat
    PROVE  LET n == Len(GivenParams.host_pubkeys)
               valid == ValidateParticipantMsg1(GivenParams, msgs)
           IN  \/ valid.ok /\ Len(msgs) = n /\ \A i \in 1 .. n : ValidMsg1(msgs[i])
               \/ ~ valid.ok /\ valid.err.kind = "Value"
               \/ /\ ~ valid.ok /\ valid.err.kind = "FaultyParticipant"
                  /\ Len(msgs) = n
                  /\ valid.err.who \in 1 .. n
                  /\ ~ ValidMsg1(msgs[valid.err.who])
<1> DEFINE n == Len(GivenParams.host_pubkeys)
           valid == ValidateParticipantMsg1(GivenParams, msgs)
           bad == {i \in 1 .. Len(msgs) :
                      \/ Len(msgs[i].commitment) # GivenParams.t
                      \/ Len(msgs[i].enc_shares) # n
                      \/ msgs[i].pubnonce = Identity
                      \/ \E k \in DOMAIN msgs[i].commitment :
                            msgs[i].commitment[k] = Identity}
<1>1. valid = IF Len(msgs) # n THEN Err(Error("Value"))
              ELSE IF bad # {} THEN Err(Naming("FaultyParticipant", Min(bad)))
              ELSE Ok(n)
  BY Zenon DEF ValidateParticipantMsg1
<1>2. \A i \in 1 .. Len(msgs) : i \in bad <=> ~ ValidMsg1(msgs[i])
  BY DEF ValidMsg1
<1>3. bad \subseteq Nat /\ \A i \in bad : i \in 1 .. Len(msgs)
  OBVIOUS
<1> HIDE DEF bad, valid
<1>4. CASE Len(msgs) # n
  <2>1. ~ valid.ok /\ valid.err = Error("Value")
    BY <1>1, <1>4, ErrIsNotOk
  <2> QED
    BY <2>1 DEF valid, Error
<1>5. CASE Len(msgs) = n /\ bad # {}
  <2>1. Min(bad) \in bad
    BY <1>3, <1>5, MinIsMember
  <2>2. ~ valid.ok /\ valid.err.kind = "FaultyParticipant" /\ valid.err.who = Min(bad)
    BY <1>1, <1>5, ErrIsNotOk DEF Naming
  <2>3. Min(bad) \in 1 .. n /\ ~ ValidMsg1(msgs[Min(bad)])
    BY <1>2, <1>3, <1>5, <2>1
  <2> QED
    BY <1>5, <2>2, <2>3 DEF valid
<1>6. CASE Len(msgs) = n /\ bad = {}
  <2>1. valid.ok
    BY <1>1, <1>6, OkIsOk
  <2> QED
    BY <1>2, <1>6, <2>1 DEF valid
<1> QED
  BY <1>4, <1>5, <1>6

CommitmentTerms(msgs, k) ==
    [i \in 1 .. Len(GivenParams.host_pubkeys) |-> msgs[i].commitment[k]]

SentShares(msgs, j) ==
    [i \in 1 .. Len(GivenParams.host_pubkeys) |-> msgs[i].enc_shares[j]]

CommitmentSum(msgs) == [k \in 1 .. GivenParams.t |-> SumMod(CommitmentTerms(msgs, k))]

(***************************************************************************)
(* m puts the messages together, field by field.                           *)
(***************************************************************************)
Aggregated(m, msgs) ==
    LET n == Len(GivenParams.host_pubkeys)
    IN  /\ Len(msgs) = n /\ \A i \in 1 .. n : ValidMsg1(msgs[i])
        /\ SumCommitment(m) = CommitmentSum(msgs)
        /\ Len(m.coms_to_secrets) = n
        /\ Len(m.sum_coms_to_nonconst_terms) = GivenParams.t - 1
        /\ Len(m.pops) = n /\ Len(m.pubnonces) = n /\ Len(m.enc_secshares) = n
        /\ \A i \in 1 .. n : /\ m.coms_to_secrets[i] = msgs[i].commitment[1]
                             /\ m.pops[i] = msgs[i].pop
                             /\ m.pubnonces[i] = msgs[i].pubnonce
                             /\ m.enc_secshares[i] = SumMod(SentShares(msgs, i))
        /\ TapTweakNoScript(CommitmentSum(msgs)[1]).ok

LEMMA SumPutTogether ==
    ASSUME NEW t \in Nat, t >= 1, NEW sum, sum = [k \in 1 .. t |-> sum[k]]
    PROVE  <<sum[1]>> \o Tail(sum) = sum /\ Len(Tail(sum)) = t - 1
<1> DEFINE V == {sum[k] : k \in 1 .. t}
<1>1. sum \in [1 .. t -> V]
  BY Zenon
<1> HIDE DEF V
<1>2. sum \in Seq(V) /\ Len(sum) = t
  BY <1>1
<1>3. sum # <<>>
  BY <1>2
<1> QED
  BY <1>2, <1>3

LEMMA AggregateParts ==
    ASSUME OneAgreedSession, Valid(GivenParams), NEW msgs, Len(msgs) \in Nat,
           NEW res, res = CoordinatorInitialNext(GivenParams, msgs), res.ok
    PROVE  /\ res.phase = "Step1"
           /\ Aggregated(res.out, msgs)
           /\ res.st.host_pubkeys = GivenParams.host_pubkeys
           /\ res.st.transcript = TranscriptFrom(res.out)
<1> DEFINE keys == GivenParams.host_pubkeys
           t == GivenParams.t
           n == Len(keys)
           sum == [k \in 1 .. t |-> SumMod([i \in 1 .. n |-> msgs[i].commitment[k]])]
           coms == [i \in 1 .. n |-> msgs[i].commitment[1]]
           pops == [i \in 1 .. n |-> msgs[i].pop]
           pubnonces == [i \in 1 .. n |-> msgs[i].pubnonce]
           secshares == [j \in 1 .. n |-> SumMod([i \in 1 .. n |-> msgs[i].enc_shares[j]])]
           out == [coms_to_secrets |-> coms, sum_coms_to_nonconst_terms |-> Tail(sum),
                   pops |-> pops, pubnonces |-> pubnonces, enc_secshares |-> secshares]
           tweak == TapTweakNoScript(sum[1])
           tweaked == TweakCommitment(sum, tweak.val)
           transcript == Transcript(t, sum, keys, out.pubnonces, out.enc_secshares)
           dkg_output == [t |-> t, threshold_pubkey |-> tweaked[1],
                          pubshares |-> [i \in 1 .. n |-> EvalPubShare(tweaked, i)]]
<1>1. /\ ValidateParticipantMsg1(GivenParams, msgs).ok /\ tweak.ok
      /\ res = Advance("Step1",
                [t |-> t, host_pubkeys |-> keys, transcript |-> transcript,
                 dkg_output |-> dkg_output],
                out)
  BY ErrIsNotOk, Zenon DEF CoordinatorInitialNext
<1>2. /\ res.phase = "Step1" /\ res.out = out /\ res.st.host_pubkeys = keys
      /\ res.st.transcript = transcript
  <2> HIDE DEF transcript, dkg_output, out, tweak
  <2> QED
    BY <1>1 DEF Advance
<1> HIDE DEF tweaked, dkg_output
<1>3. n \in Nat /\ t \in 1 .. n /\ 1 \in 1 .. t
  BY KeysApart
<1>4. Len(msgs) = n /\ \A i \in 1 .. n : ValidMsg1(msgs[i])
  BY <1>1, Msg1Validated
<1>5. sum = CommitmentSum(msgs)
  BY DEF CommitmentSum, CommitmentTerms
<1>6. secshares = [j \in 1 .. n |-> SumMod(SentShares(msgs, j))]
  BY DEF SentShares
<1>7. sum[1] = SumMod(coms)
  BY <1>3
<1>8. <<sum[1]>> \o Tail(sum) = sum /\ Len(Tail(sum)) = t - 1
  <2>1. sum = [k \in 1 .. t |-> sum[k]]
    OBVIOUS
  <2> HIDE DEF sum
  <2> QED
    BY <1>3, <2>1, SumPutTogether
<1>9. /\ Len(coms) = n /\ Len(pops) = n /\ Len(pubnonces) = n /\ Len(secshares) = n
      /\ \A i \in 1 .. n : /\ coms[i] = msgs[i].commitment[1]
                           /\ pops[i] = msgs[i].pop
                           /\ pubnonces[i] = msgs[i].pubnonce
                           /\ secshares[i] = SumMod(SentShares(msgs, i))
  <2>1. \A i \in 1 .. n : secshares[i] = SumMod(SentShares(msgs, i))
    BY <1>6
  <2>2. Len(coms) = n /\ Len(pops) = n /\ Len(pubnonces) = n /\ Len(secshares) = n
    <3> HIDE DEF n
    <3> QED
      BY <1>3
  <2>3. \A i \in 1 .. n : /\ coms[i] = msgs[i].commitment[1]
                          /\ pops[i] = msgs[i].pop
                          /\ pubnonces[i] = msgs[i].pubnonce
    OBVIOUS
  <2> HIDE DEF coms, pops, pubnonces, secshares
  <2> QED
    BY <2>1, <2>2, <2>3
<1>10. /\ out.coms_to_secrets = coms
       /\ out.sum_coms_to_nonconst_terms = Tail(sum)
       /\ out.pops = pops /\ out.pubnonces = pubnonces /\ out.enc_secshares = secshares
  <2> HIDE DEF coms, sum, pops, pubnonces, secshares
  <2> QED
    OBVIOUS
<1> HIDE DEF out, coms, pops, pubnonces, secshares, tweak
<1>11. SumCommitment(out) = sum
  BY <1>7, <1>8, <1>10 DEF SumCommitment
<1>12. transcript = TranscriptFrom(out)
  BY <1>11 DEF TranscriptFrom
<1> HIDE DEF transcript
<1>13. TapTweakNoScript(CommitmentSum(msgs)[1]).ok
  BY <1>1, <1>5 DEF tweak
<1> HIDE DEF sum
<1>14. Aggregated(out, msgs)
  BY <1>4, <1>5, <1>8, <1>9, <1>10, <1>11, <1>13 DEF Aggregated
<1> QED
  BY <1>2, <1>12, <1>14

(***************************************************************************)
(* An honest party's message is valid.                                     *)
(***************************************************************************)
LEMMA HonestMsg1IsValid ==
    ASSUME OneAgreedSession, NEW p, NEW m, HonestMsg1(p, m), GivenParams.t \in Nat
    PROVE  ValidMsg1(m)
BY DEF HonestMsg1, ValidMsg1

-----------------------------------------------------------------------------
(* When all dealers are honest, every share matches.                       *)

(***************************************************************************)
(* The pad that the receiver takes off is the one that the sender put on:  *)
(* both know the Diffie-Hellman point.                                     *)
(***************************************************************************)
LEMMA PadsAgree ==
    ASSUME NEW s \in Scalar, NEW R \in Scalar, NEW ctx
    PROVE  /\ SendPad(R, MulG(s), ctx) = ReceivePad(s, R, ctx)
           /\ SendPad(R, MulG(s), ctx) = PadHash((s * R) % Order, R, s, ctx)
           /\ (s * R) % Order \in Scalar
<1>1. MulG(s) = s /\ MulG(R) = R
  BY ModOfScalar DEF MulG
<1>2. s \in Int /\ R \in Int
  BY ScalarIsInt
<1>3. s * R = R * s /\ s * R \in Int
  BY <1>2
<1>4. (s * R) % Order \in Scalar
  BY <1>3, ModType
<1> QED
  BY <1>1, <1>3, <1>4, Zenon DEF SendPad, ReceivePad, Ecdh

(***************************************************************************)
(* All messages come from honest parties, each in the place of its key.    *)
(***************************************************************************)
AllHonest(msgs, who) ==
    LET n == Len(GivenParams.host_pubkeys)
    IN  /\ who \in [1 .. n -> Honest]
        /\ \A i \in 1 .. n : HonestMsg1(who[i], msgs[i]) /\ HostKey(who[i]) = KeyAt(i)

TakenPads(who, m, j) ==
    [i \in 1 .. Len(m.pubnonces) |->
        IF i = j THEN SelfPad(HostSec[who[j]], m.pubnonces[i], ShareContext(j))
                 ELSE ReceivePad(HostSec[who[j]], m.pubnonces[i], ShareContext(j))]

LEMMA OwnPosition ==
    ASSUME OneAgreedSession, Valid(GivenParams), NEW p, NEW m, HonestMsg1(p, m),
           NEW i \in 1 .. Len(GivenParams.host_pubkeys), HostKey(p) = KeyAt(i)
    PROVE  PositionAmong(p) = i
BY KeysApart DEF HonestMsg1, KeyAt

LEMMA PadsTaken ==
    ASSUME OneAgreedSession, HashesAreScalars, Valid(GivenParams), NEW msgs, NEW who,
           AllHonest(msgs, who), NEW m, Aggregated(m, msgs),
           NEW j \in 1 .. Len(GivenParams.host_pubkeys)
    PROVE  /\ TakenPads(who, m, j) \in [1 .. Len(GivenParams.host_pubkeys) -> Int]
           /\ \A i \in 1 .. Len(GivenParams.host_pubkeys) :
                 TakenPads(who, m, j)[i] = Pad(who[i], msgs[i].pubnonce, j)
<1> DEFINE n == Len(GivenParams.host_pubkeys)
           pads == TakenPads(who, m, j)
           ctx == ShareContext(j)
<1>1. Len(m.pubnonces) = n
  BY DEF Aggregated
<1>2. j \in DOMAIN GivenParams.host_pubkeys
  BY KeysApart
<1>3. /\ \A e, R, P \in Scalar : PadHash(e, R, P, ctx) \in Scalar
      /\ \A s, R \in Scalar : SelfPadHash(s, R, ctx) \in Scalar
  BY <1>2 DEF HashesAreScalars, ShareContext
<1> HIDE DEF ctx
<1>4. ASSUME NEW i \in 1 .. n
      PROVE  pads[i] = Pad(who[i], msgs[i].pubnonce, j) /\ pads[i] \in Scalar
  <2> DEFINE R == msgs[i].pubnonce
             s == HostSec[who[j]]
  <2>1. /\ m.pubnonces[i] = R /\ R \in Scalar
        /\ who[i] \in Honest /\ who[j] \in Honest
        /\ HostKey(who[j]) = KeyAt(j)
    BY DEF Aggregated, AllHonest, HonestMsg1
  <2>2. s \in Scalar /\ KeyAt(j) = MulG(s)
    BY <2>1, HostSecAssumption, PartiesAssumption DEF HostKey
  <2>3. PositionAmong(who[i]) = i
    BY OwnPosition DEF AllHonest
  <2>4. pads[i] = IF i = j THEN SelfPad(s, R, ctx) ELSE ReceivePad(s, R, ctx)
    BY <1>1, <2>1 DEF TakenPads, ctx
  <2>5. Pad(who[i], R, j) = IF j = i THEN SelfPad(HostSec[who[i]], R, ctx)
                                     ELSE SendPad(R, KeyAt(j), ctx)
    BY <2>3 DEF Pad, ctx
  <2> HIDE DEF R, s, pads
  <2>6. CASE i = j
    <3>1. pads[i] = SelfPad(s, R, ctx) /\ Pad(who[i], R, j) = SelfPad(s, R, ctx)
      BY <2>4, <2>5, <2>6 DEF s
    <3>2. SelfPad(s, R, ctx) \in Scalar
      BY <1>3, <2>1, <2>2 DEF SelfPad
    <3> QED
      BY <3>1, <3>2 DEF R
  <2>7. CASE i # j
    <3>1. pads[i] = ReceivePad(s, R, ctx) /\ Pad(who[i], R, j) = SendPad(R, MulG(s), ctx)
      BY <2>2, <2>4, <2>5, <2>7
    <3>2. /\ SendPad(R, MulG(s), ctx) = ReceivePad(s, R, ctx)
          /\ SendPad(R, MulG(s), ctx) = PadHash((s * R) % Order, R, s, ctx)
          /\ (s * R) % Order \in Scalar
      BY <2>1, <2>2, PadsAgree
    <3>3. PadHash((s * R) % Order, R, s, ctx) \in Scalar
      BY <1>3, <2>1, <2>2, <3>2
    <3> QED
      BY <3>1, <3>2, <3>3 DEF R
  <2> QED
    BY <2>6, <2>7
<1>5. pads = [i \in 1 .. n |-> pads[i]]
  BY <1>1 DEF TakenPads
<1>6. pads \in [1 .. n -> Int]
  <2> HIDE DEF pads, n
  <2> QED
    BY <1>4, <1>5, ScalarIsInt
<1> QED
  BY <1>4, <1>6

LEMMA SharesSum ==
    ASSUME OneAgreedSession, HashesAreScalars, Valid(GivenParams), NEW msgs, NEW who,
           AllHonest(msgs, who), NEW m, Aggregated(m, msgs),
           NEW j \in 1 .. Len(GivenParams.host_pubkeys)
    PROVE  /\ CommitmentSum(msgs) \in [1 .. GivenParams.t -> Scalar]
           /\ (m.enc_secshares[j] + Neg(SumMod(TakenPads(who, m, j)))) % Order
                  = EvalPubShare(CommitmentSum(msgs), j)
<1> DEFINE n == Len(GivenParams.host_pubkeys)
           t == GivenParams.t
           pads == TakenPads(who, m, j)
           enc == SentShares(msgs, j)
           C == [i \in 1 .. n |-> msgs[i].commitment]
           V == ValuesAt(C, n, j)
           S == CommitmentSum(msgs)
<1>1. n \in Nat /\ t \in Nat /\ t >= 1 /\ j \in Int
  BY KeysApart
<1>2. /\ pads \in [1 .. n -> Int]
      /\ \A i \in 1 .. n : pads[i] = Pad(who[i], msgs[i].pubnonce, j)
  BY PadsTaken
<1>3. C \in [1 .. n -> [1 .. t -> Int]]
  <2>1. ASSUME NEW i \in 1 .. n PROVE msgs[i].commitment \in [1 .. t -> Int]
    <3>1. msgs[i].commitment \in [1 .. t -> Scalar \ {Identity}]
      BY DEF AllHonest, HonestMsg1
    <3> QED
      BY <3>1, ScalarIsInt
  <2> QED
    BY <2>1
<1>4. \A k \in 1 .. t : S[k] = SumMod(Column(C, n, k))
  <2>1. ASSUME NEW k \in 1 .. t PROVE CommitmentTerms(msgs, k) = Column(C, n, k)
    BY DEF CommitmentTerms, Column
  <2> QED
    BY <2>1 DEF CommitmentSum
<1>5. S \in [1 .. t -> Scalar]
  <2>1. ASSUME NEW k \in 1 .. t PROVE S[k] \in Scalar
    <3>1. Column(C, n, k) \in [1 .. n -> Int]
      BY <1>3 DEF Column
    <3> HIDE DEF S, C, n
    <3> QED
      BY <1>1, <1>4, <3>1, SumModType
  <2> QED
    BY <2>1 DEF CommitmentSum
<1>6. S \in [1 .. t -> Int]
  BY <1>5, ScalarIsInt
<1>7. ASSUME NEW i \in 1 .. n
      PROVE  /\ V[i] \in Scalar
             /\ enc[i] = (V[i] + pads[i]) % Order
  <2>1. V[i] = EvalPubShare(C[i], j) /\ C[i] = msgs[i].commitment
    BY DEF ValuesAt
  <2>2. C[i] \in [1 .. t -> Int]
    BY <1>3
  <2>3. V[i] \in Scalar
    <3> HIDE DEF C, V
    <3> QED
      BY <1>1, <2>1, <2>2, EvalPubShareType
  <2>4. msgs[i].enc_shares[j] =
            (EvalPubShare(msgs[i].commitment, j) + Pad(who[i], msgs[i].pubnonce, j)) % Order
    BY DEF AllHonest, HonestMsg1
  <2>5. enc[i] = msgs[i].enc_shares[j]
    BY DEF SentShares
  <2> QED
    BY <1>2, <2>1, <2>3, <2>4, <2>5
<1>8. V = [i \in 1 .. n |-> V[i]] /\ enc = [i \in 1 .. n |-> enc[i]]
  BY DEF ValuesAt, SentShares
<1> HIDE DEF S, C
<1>9. EvalPubShare(S, j) = SumMod(V)
  <2> HIDE DEF V
  <2> QED
    BY <1>1, <1>3, <1>4, <1>6, EvalOfSums DEF V
<1> HIDE DEF V, pads, enc, n
<1>10. V \in [1 .. n -> Int] /\ enc \in [1 .. n -> Int]
       /\ \A i \in 1 .. n : Equiv(enc[i], V[i] + 1 * pads[i])
  <2>1. ASSUME NEW i \in 1 .. n
        PROVE  V[i] \in Int /\ enc[i] \in Int /\ Equiv(enc[i], V[i] + 1 * pads[i])
    <3>1. V[i] \in Int /\ pads[i] \in Int /\ enc[i] = (V[i] + pads[i]) % Order
      BY <1>2, <1>7, ScalarIsInt
    <3>2. V[i] + pads[i] \in Int /\ V[i] + 1 * pads[i] = V[i] + pads[i]
      BY <3>1
    <3>3. Equiv((V[i] + pads[i]) % Order, V[i] + pads[i]) /\ (V[i] + pads[i]) % Order \in Int
      BY <3>2, EquivMod
    <3> QED
      BY <3>1, <3>2, <3>3
  <2> QED
    BY <1>8, <2>1
<1> DEFINE sv == SumMod(V)
           se == SumMod(enc)
           sp == SumMod(pads)
<1>11. Equiv(se, sv + 1 * sp) /\ sv \in Scalar /\ se \in Scalar /\ sp \in Scalar
  <2>1. sv \in Scalar /\ se \in Scalar /\ sp \in Scalar
    BY <1>1, <1>2, <1>10, SumModType
  <2> DEFINE one == 1
  <2>2. one \in Int /\ \A i \in 1 .. n : Equiv(enc[i], V[i] + one * pads[i])
    BY <1>10
  <2> HIDE DEF one
  <2>3. Equiv(se, sv + one * sp)
    BY <1>1, <1>2, <1>10, <2>2, SumModLinear
  <2> QED
    BY <2>1, <2>3 DEF one
<1>12. m.enc_secshares[j] = se
  BY DEF Aggregated, enc
<1> HIDE DEF sv, se, sp
<1>13. (se + Neg(sp)) % Order = sv
  <2>1. sv \in Int /\ se \in Int /\ sp \in Int
    BY <1>11, ScalarIsInt
  <2>2. Equiv(Neg(sp), -sp) /\ Neg(sp) \in Int /\ -sp \in Int
    <3>1. Equiv(Neg(sp), -sp) /\ Neg(sp) \in Scalar
      BY <2>1, NegEquiv
    <3> QED
      BY <2>1, <3>1, ScalarIsInt
  <2>3. sv + 1 * sp \in Int /\ (sv + 1 * sp) + (-sp) = sv
    BY <2>1
  <2>4. Equiv(se + Neg(sp), (sv + 1 * sp) + (-sp))
    BY <1>11, <2>1, <2>2, <2>3, EquivAdd
  <2>5. se + Neg(sp) \in Int
    BY <2>1, <2>2
  <2> DEFINE x == se + Neg(sp)
  <2>6. Equiv(x, sv) /\ x \in Int
    BY <2>3, <2>4, <2>5
  <2> HIDE DEF x
  <2>7. x % Order = sv
    BY <1>11, <2>6, ModOfScalar DEF Equiv
  <2> QED
    BY <2>7 DEF x
<1> QED
  BY <1>5, <1>9, <1>12, <1>13 DEF S, sv, sp, pads

LEMMA TweakedShare ==
    ASSUME NEW t \in Nat, t >= 1, NEW S \in [1 .. t -> Scalar], TapTweakNoScript(S[1]).ok,
           NEW j \in Int, NEW share, share = EvalPubShare(S, j)
    PROVE  LET w == TapTweakNoScript(S[1]).val
           IN  ShareMatches((share + w) % Order, TweakCommitment(S, w), j)
<1> DEFINE w == TapTweakNoScript(S[1]).val
           d == TweakCommitment(S, w)
           p == S[1]
           secshare == (share + w) % Order
<1>1. 1 \in 1 .. t /\ p \in Scalar
  OBVIOUS
<1>2. w = TapHash(XOnly(p))
  BY ErrIsNotOk, OkIsOk DEF TapTweakNoScript
<1> HIDE DEF p
<1>3. XOnly(p) \in Scalar
  BY <1>1, OrderAssumption, ScalarIsInt, ModType DEF XOnly, EvenYPoint, Neg
<1>4. w \in Scalar
  BY <1>2, <1>3, TapHashAssumption
<1>5. S \in [1 .. t -> Int] /\ w \in Int /\ p \in Int
  BY <1>1, <1>4, ScalarIsInt
<1>6. d = [S EXCEPT ![1] = (p + w) % Order]
  <2>1. MulG(w) = w
    BY <1>4, ModOfScalar DEF MulG
  <2> QED
    BY <2>1 DEF TweakCommitment, p
<1> HIDE DEF w, d
<1>7. p + w \in Int /\ Equiv((p + w) % Order, p + w) /\ (p + w) % Order \in Int
  <2>1. p + w \in Int
    BY <1>5
  <2> QED
    BY <2>1, EquivMod
<1>8. /\ d \in [1 .. t -> Int] /\ Equiv(d[1], S[1] + w) /\ \A k \in 2 .. t : d[k] = S[k]
  <2> DEFINE v == (p + w) % Order
  <2>1. v \in Int /\ d = [S EXCEPT ![1] = v]
    BY <1>6, <1>7
  <2>2. Equiv(v, S[1] + w)
    BY <1>7 DEF p
  <2> HIDE DEF v
  <2>3. d \in [1 .. t -> Int] /\ d[1] = v /\ \A k \in 2 .. t : d[k] = S[k]
    BY <1>1, <1>5, <2>1
  <2> QED
    BY <2>2, <2>3
<1>9. Equiv(EvalPubShare(d, j), EvalPubShare(S, j) + w)
  BY <1>5, <1>8, EvalShift
<1>10. EvalPubShare(d, j) \in Scalar /\ share \in Int
  BY <1>5, <1>8, EvalPubShareType, ScalarIsInt
<1>11. share + w \in Int
  BY <1>5, <1>10
<1>12. Equiv(EvalPubShare(d, j), share + w)
  BY <1>9
<1>13. EvalPubShare(d, j) = (share + w) % Order
  BY <1>10, <1>12, ModOfScalar DEF Equiv
<1>14. MulG(secshare) = secshare
  BY <1>11, ModType, ModOfScalar DEF MulG
<1> QED
  BY <1>13, <1>14 DEF ShareMatches, d, w

-----------------------------------------------------------------------------
(* Who stands behind a list of messages.                                   *)

(***************************************************************************)
(* In a list of the right length party i of the list has the i-th key; it  *)
(* is faulty, or it has sent its message by this code.                     *)
(***************************************************************************)
Placed(order, ms) ==
    /\ order \in Orders
    /\ Len(ms) = Len(GivenParams.host_pubkeys)
    /\ DOMAIN order = 1 .. Len(ms)
    /\ \A i \in 1 .. Len(ms) : order[i] \in Parties

LEMMA PlacedKeys ==
    ASSUME OneAgreedSession, NEW order, NEW ms, Placed(order, ms),
           Len(ms) \in Nat, NEW i \in 1 .. Len(ms)
    PROVE  HostKey(order[i]) = KeyAt(i)
BY DEF Placed, OneAgreedSession

LEMMA FaultyAtIndex ==
    ASSUME OneAgreedSession, NEW order, NEW ms, Placed(order, ms),
           Len(ms) \in Nat, NEW i \in 1 .. Len(ms), order[i] \notin Honest
    PROVE  IsFaultyIndex(i)
<1>1. order[i] \in Faulty
  BY DEF Placed, Faulty
<1>2. HostKey(order[i]) = KeyAt(i)
  BY PlacedKeys
<1> QED
  BY <1>1, <1>2 DEF IsFaultyIndex

LEMMA SentByThisCode ==
    ASSUME OneAgreedSession, HashesAreScalars, OneStepEach,
           NEW p \in Honest, NEW m \in pmsg1[p]
    PROVE  HonestMsg1(p, m) /\ pmsg1[p] = {m} /\ Valid(GivenParams)
<1>1. PICK random \in Randoms : FirstStep(p, random).ok /\ m = FirstStep(p, random).out
  BY DEF OneStepEach, OneStep
<1>2. HonestMsg1(p, m) /\ Valid(GivenParams)
  BY <1>1, FirstStepMsg
<1>3. pmsg1[p] = {m}
  BY DEF OneStepEach, OneStep
<1> QED
  BY <1>2, <1>3

LEMMA HonestInPlace ==
    ASSUME OneAgreedSession, HashesAreScalars, OneStepEach, Valid(GivenParams),
           NEW order, NEW msgs, msgs \in Collected(order, Msg1From), Placed(order, msgs),
           NEW i \in 1 .. Len(GivenParams.host_pubkeys), order[i] \in Honest
    PROVE  /\ msgs[i] \in pmsg1[order[i]]
           /\ HonestMsg1(order[i], msgs[i])
           /\ PositionAmong(order[i]) = i
<1>1. order \in Orders /\ Len(msgs) = Len(GivenParams.host_pubkeys)
  BY DEF Placed
<1>2. Len(msgs) \in Nat /\ order[i] \in Parties /\ msgs[i] \in Msg1From[order[i]]
  BY <1>1, CollectedParts
<1>3. msgs[i] \in pmsg1[order[i]]
  BY <1>2 DEF Msg1From
<1>4. HonestMsg1(order[i], msgs[i])
  BY <1>3, SentByThisCode
<1>5. HostKey(order[i]) = KeyAt(i)
  BY <1>1, <1>2, PlacedKeys
<1> QED
  BY <1>3, <1>4, <1>5, OwnPosition

LEMMA SameParty ==
    ASSUME NEW p \in Parties, NEW q \in Parties, HostKey(p) = HostKey(q) PROVE p = q
BY DistinctKeysAssumption

-----------------------------------------------------------------------------
(* What a participant may report of an aggregate.                          *)

Justified(e) ==
    /\ e.kind # "FaultyCoordinator"
    /\ e.kind = "FaultyParticipantOrCoordinator" => IsFaultyIndex(e.who)
    /\ e.kind = "UnknownFaultyParticipantOrCoordinator" => Faulty # {}

DecryptedShare(st, msg) ==
    Decrypt(st.s, msg.pubnonces, EncContext(st.t, st.host_pubkeys), st.idx,
            msg.enc_secshares[st.idx])

ShareFits(st, msg) ==
    LET sum   == SumCommitment(msg)
        tweak == TapTweakNoScript(sum[1])
    IN  ShareMatches((DecryptedShare(st, msg).val + tweak.val) % Order,
                     TweakCommitment(sum, tweak.val), st.idx)

LEMMA Step1NextErrors ==
    ASSUME NEW st, NEW msg, NEW res, res = Step1Next(st, msg), ~ res.ok
    PROVE  \/ ~ ValidateCoordinatorMsg1(st, msg).ok
           \/ /\ Unproven(st, msg) # {}
              /\ res.err = Naming("FaultyParticipantOrCoordinator", Min(Unproven(st, msg)))
           \/ /\ DecryptedShare(st, msg).ok
              /\ TapTweakNoScript(SumCommitment(msg)[1]).ok
              /\ ~ ShareFits(st, msg)
              /\ res.err = Error("UnknownFaultyParticipantOrCoordinator")
           \/ res.err = Error("Runtime")
<1> DEFINE valid == ValidateCoordinatorMsg1(st, msg)
           unproven == Unproven(st, msg)
           decrypted == DecryptedShare(st, msg)
           sum == SumCommitment(msg)
           tweak == TapTweakNoScript(sum[1])
           tweaked == TweakCommitment(sum, tweak.val)
           secshare == (decrypted.val + tweak.val) % Order
           transcript == Transcript(st.t, sum, st.host_pubkeys, msg.pubnonces,
                                    msg.enc_secshares)
           sig == CertEqSign(st.s, transcript, st.idx)
           next == Advance("Step2",
                 [transcript |-> transcript,
                  dkg_output |->
                    [idx |-> st.idx, t |-> st.t, secshare |-> secshare,
                     threshold_pubkey |-> tweaked[1],
                     pubshares |-> [i \in 1 .. Len(st.host_pubkeys) |->
                                        EvalPubShare(tweaked, i)]]],
                 sig.val)
<1>1. res = IF ~valid.ok THEN valid
            ELSE IF unproven # {}
            THEN Err(Naming("FaultyParticipantOrCoordinator", Min(unproven)))
            ELSE IF ~decrypted.ok THEN decrypted
            ELSE IF ~tweak.ok THEN tweak
            ELSE IF ~ShareMatches(secshare, tweaked, st.idx)
            THEN Err(Error("UnknownFaultyParticipantOrCoordinator"))
            ELSE IF ~sig.ok THEN sig
            ELSE next
  BY Zenon DEF Step1Next, DecryptedShare
<1>2. ~ decrypted.ok => decrypted = Err(Error("Runtime"))
  BY OkIsOk, Zenon DEF DecryptedShare, Decrypt
<1>3. ~ tweak.ok => tweak = Err(Error("Runtime"))
  BY OkIsOk, Zenon DEF TapTweakNoScript
<1>4. ~ sig.ok => sig = Err(Error("Runtime"))
  BY OkIsOk, Zenon DEF CertEqSign
<1>5. ShareFits(st, msg) <=> ShareMatches(secshare, tweaked, st.idx)
  BY Zenon DEF ShareFits
<1>6. next.ok
  BY DEF Advance
<1> HIDE DEF valid, unproven, decrypted, tweak, tweaked, secshare, sig, next
<1>7. CASE ~ valid.ok
  BY <1>7 DEF valid
<1>8. CASE valid.ok /\ unproven # {}
  <2>1. res = Err(Naming("FaultyParticipantOrCoordinator", Min(unproven)))
    BY <1>1, <1>8, Zenon
  <2> QED
    BY <1>8, <2>1, ErrIsNotOk, Zenon DEF unproven
<1>9. CASE valid.ok /\ unproven = {}
  <2>1. CASE ~ decrypted.ok \/ ~ tweak.ok
    <3>1. res = Err(Error("Runtime"))
      BY <1>1, <1>2, <1>3, <1>9, <2>1, Zenon
    <3> QED
      BY <3>1, ErrIsNotOk, Zenon
  <2>2. CASE decrypted.ok /\ tweak.ok
    <3>1. CASE ~ ShareMatches(secshare, tweaked, st.idx)
      <4>1. res = Err(Error("UnknownFaultyParticipantOrCoordinator"))
        BY <1>1, <1>9, <2>2, <3>1, Zenon
      <4>2. ~ ShareFits(st, msg)
        BY <1>5, <3>1
      <4> QED
        BY <2>2, <4>1, <4>2, ErrIsNotOk, Zenon DEF decrypted, tweak
    <3>2. CASE ShareMatches(secshare, tweaked, st.idx)
      <4>1. res = IF ~sig.ok THEN sig ELSE next
        BY <1>1, <1>9, <2>2, <3>2, Zenon
      <4>2. res = Err(Error("Runtime"))
        BY <1>4, <1>6, <4>1, Zenon
      <4> QED
        BY <4>2, ErrIsNotOk, Zenon
    <3> QED
      BY <3>1, <3>2
  <2> QED
    BY <2>1, <2>2
<1> QED
  BY <1>7, <1>8, <1>9

(***************************************************************************)
(* A participant in its second step, and the message it is given.          *)
(***************************************************************************)
InSession(p, st, m, msg, order, msgs) ==
    /\ m \in pmsg1[p] /\ st = FirstState(p, m)
    /\ Valid(GivenParams)
    /\ msgs \in Collected(order, Msg1From) /\ Placed(order, msgs)
    /\ Aggregated(msg, msgs)

LEMMA EchoIsRight ==
    ASSUME OneAgreedSession, HashesAreScalars, OneStepEach, NEW p \in Honest,
           NEW st, NEW m, NEW msg, NEW order, NEW msgs, InSession(p, st, m, msg, order, msgs)
    PROVE  /\ PositionAmong(p) \in 1 .. Len(GivenParams.host_pubkeys)
           /\ order[PositionAmong(p)] = p
           /\ ValidateCoordinatorMsg1(st, msg).ok
<1> DEFINE n == Len(GivenParams.host_pubkeys)
           idx == PositionAmong(p)
<1>1. HonestMsg1(p, m) /\ pmsg1[p] = {m} /\ m \in pmsg1[p] /\ st = FirstState(p, m)
      /\ Valid(GivenParams) /\ msgs \in Collected(order, Msg1From) /\ Placed(order, msgs)
  BY SentByThisCode DEF InSession
<1>2. idx \in 1 .. n /\ KeyAt(idx) = HostKey(p) /\ n \in Nat /\ Len(msgs) = n
  BY <1>1, KeysApart DEF HonestMsg1, Placed
<1>3. order[idx] = p
  <2>1. HostKey(order[idx]) = KeyAt(idx) /\ order[idx] \in Parties /\ p \in Parties
    BY <1>1, <1>2, PlacedKeys, PartiesAssumption DEF Placed
  <2> QED
    BY <1>2, <2>1, SameParty
<1>4. msgs[idx] = m
  <2>1. msgs[idx] \in pmsg1[p]
    BY <1>1, <1>2, <1>3, HonestInPlace
  <2> QED
    BY <1>1, <2>1
<1>5. /\ Len(msg.coms_to_secrets) = n
      /\ Len(msg.sum_coms_to_nonconst_terms) = GivenParams.t - 1
      /\ Len(msg.pops) = n /\ Len(msg.pubnonces) = n /\ Len(msg.enc_secshares) = n
      /\ \A i \in 1 .. n : /\ ValidMsg1(msgs[i])
                           /\ msg.coms_to_secrets[i] = msgs[i].commitment[1]
                           /\ msg.pubnonces[i] = msgs[i].pubnonce
  BY DEF InSession, Aggregated
<1>6. /\ st.idx = idx /\ st.t = GivenParams.t /\ st.host_pubkeys = GivenParams.host_pubkeys
      /\ st.pubnonce = m.pubnonce /\ st.com_to_secret = m.commitment[1]
  BY <1>1 DEF FirstState
<1>7. GivenParams.t >= 1
  BY <1>1, KeysApart
<1>8. {i \in 1 .. n : msg.pubnonces[i] = Identity} = {}
  BY <1>5 DEF ValidMsg1
<1>9. msg.pubnonces[idx] = m.pubnonce /\ msg.coms_to_secrets[idx] = m.commitment[1]
  BY <1>2, <1>4, <1>5
<1> HIDE DEF n, idx
<1>10. ValidateCoordinatorMsg1(st, msg) = Ok(n)
  <2>1. Len(st.host_pubkeys) = n
    BY <1>6 DEF n
  <2>2. ~ \/ st.t < 1
          \/ Len(msg.coms_to_secrets) # n
          \/ Len(msg.sum_coms_to_nonconst_terms) # st.t - 1
          \/ Len(msg.pops) # n
          \/ Len(msg.pubnonces) # n
          \/ Len(msg.enc_secshares) # n
          \/ msg.pubnonces[st.idx] # st.pubnonce
    <3>1. ~ (st.t < 1)
      <4>1. GivenParams.t \in Nat
        BY GivenParamsType
      <4> QED
        BY <1>6, <1>7, <4>1
    <3> QED
      BY <1>5, <1>6, <1>9, <3>1, Zenon
  <2>3. ~ (msg.coms_to_secrets[st.idx] # st.com_to_secret)
    BY <1>6, <1>9
  <2> QED
    BY <1>8, <2>1, <2>2, <2>3, Zenon DEF ValidateCoordinatorMsg1
<1> QED
  BY <1>2, <1>3, <1>10, OkIsOk DEF n, idx

LEMMA UnprovenIsFaulty ==
    ASSUME OneAgreedSession, HashesAreScalars, OneStepEach, NEW p \in Honest,
           NEW st, NEW m, NEW msg, NEW order, NEW msgs, InSession(p, st, m, msg, order, msgs),
           Unproven(st, msg) # {}
    PROVE  IsFaultyIndex(Min(Unproven(st, msg)))
<1> DEFINE n == Len(GivenParams.host_pubkeys)
           i == Min(Unproven(st, msg))
<1>1. st.host_pubkeys = GivenParams.host_pubkeys
  BY DEF InSession, FirstState
<1>2. n \in Nat /\ Len(msgs) = n /\ Placed(order, msgs) /\ Valid(GivenParams)
      /\ msgs \in Collected(order, Msg1From)
  BY KeysApart DEF InSession, Placed
<1>3. i \in Unproven(st, msg)
  <2>1. Unproven(st, msg) \subseteq Nat
    BY DEF Unproven
  <2> QED
    BY <2>1, MinIsMember
<1> HIDE DEF i
<1>4. /\ i \in 1 .. n
      /\ \/ msg.coms_to_secrets[i] = Identity
         \/ ~ PopVerify(msg.coms_to_secrets[i], i, msg.pops[i])
  BY <1>1, <1>3 DEF Unproven
<1>5. ASSUME order[i] \in Honest PROVE FALSE
  <2>1. HonestMsg1(order[i], msgs[i]) /\ PositionAmong(order[i]) = i
    BY <1>2, <1>4, <1>5, HonestInPlace
  <2>2. msg.coms_to_secrets[i] = msgs[i].commitment[1] /\ msg.pops[i] = msgs[i].pop
    BY <1>4 DEF InSession, Aggregated
  <2>3. msgs[i].commitment[1] # Identity
    <3>1. 1 \in 1 .. GivenParams.t
      BY <1>2, KeysApart
    <3> QED
      BY <2>1, <3>1 DEF HonestMsg1
  <2>4. msgs[i].pop = Pop(XOnly(msgs[i].commitment[1]), i)
    BY <2>1 DEF HonestMsg1
  <2> QED
    BY <1>4, <2>2, <2>3, <2>4 DEF PopVerify
<1>6. IsFaultyIndex(i)
  BY <1>2, <1>4, <1>5, FaultyAtIndex
<1> QED
  BY <1>6 DEF i

LEMMA AllHonestShareFits ==
    ASSUME OneAgreedSession, HashesAreScalars, OneStepEach, NEW p \in Honest,
           NEW st, NEW m, NEW msg, NEW order, NEW msgs, InSession(p, st, m, msg, order, msgs),
           Faulty = {}, DecryptedShare(st, msg).ok
    PROVE  ShareFits(st, msg)
<1> DEFINE n == Len(GivenParams.host_pubkeys)
           t == GivenParams.t
           j == PositionAmong(p)
           who == [i \in 1 .. n |-> order[i]]
           S == CommitmentSum(msgs)
<1>1. /\ n \in Nat /\ t \in Nat /\ t >= 1 /\ Len(msgs) = n /\ Placed(order, msgs)
      /\ Valid(GivenParams) /\ msgs \in Collected(order, Msg1From) /\ Aggregated(msg, msgs)
  BY KeysApart, GivenParamsType DEF InSession, Placed
<1>2. j \in 1 .. n /\ order[j] = p
  BY EchoIsRight
<1>3. \A i \in 1 .. n : order[i] \in Honest
  BY <1>1 DEF Placed, Faulty
<1>4. AllHonest(msgs, who)
  <2>1. who \in [1 .. n -> Honest] /\ \A i \in 1 .. n : who[i] = order[i]
    BY <1>3
  <2>2. ASSUME NEW i \in 1 .. n
        PROVE  HonestMsg1(order[i], msgs[i]) /\ HostKey(order[i]) = KeyAt(i)
    <3>1. order[i] \in Honest /\ i \in 1 .. Len(msgs)
      BY <1>1, <1>3
    <3> QED
      BY <1>1, <3>1, HonestInPlace, PlacedKeys
  <2> HIDE DEF who
  <2> QED
    BY <2>1, <2>2 DEF AllHonest
<1>5. who[j] = p
  BY <1>2
<1> HIDE DEF who
<1>6. /\ S \in [1 .. t -> Scalar]
      /\ (msg.enc_secshares[j] + Neg(SumMod(TakenPads(who, msg, j)))) % Order
             = EvalPubShare(S, j)
  BY <1>1, <1>2, <1>4, SharesSum
<1>7. DecryptedShare(st, msg).val
          = (msg.enc_secshares[j] + Neg(SumMod(TakenPads(who, msg, j)))) % Order
  <2> DEFINE pads == [i \in 1 .. Len(msg.pubnonces) |->
                         IF i = j THEN SelfPad(HostSec[p], msg.pubnonces[i], ShareContext(j))
                         ELSE ReceivePad(HostSec[p], msg.pubnonces[i], ShareContext(j))]
             R == msg.pubnonces
             agg == msg.enc_secshares[j]
             context == EncContext(GivenParams.t, GivenParams.host_pubkeys)
  <2>1. pads = TakenPads(who, msg, j)
    BY <1>5 DEF TakenPads
  <2>2. DecryptedShare(st, msg) = Decrypt(HostSec[p], R, context, j, agg)
    <3>1. /\ st.s = HostSec[p] /\ st.t = GivenParams.t /\ st.idx = j
          /\ st.host_pubkeys = GivenParams.host_pubkeys
      BY DEF InSession, FirstState
    <3> QED
      BY <3>1, Zenon DEF DecryptedShare
  <2>3. ShareContext(j) = <<j, context>>
    BY DEF ShareContext
  <2>4. Decrypt(HostSec[p], R, context, j, agg)
            = IF j > Len(R) THEN Err(Error("Runtime"))
              ELSE Ok((agg + Neg(SumMod(pads))) % Order)
    BY <2>3, Zenon DEF Decrypt
  <2> HIDE DEF pads, R, agg, context
  <2>5. Decrypt(HostSec[p], R, context, j, agg) = Ok((agg + Neg(SumMod(pads))) % Order)
    BY <2>2, <2>4, ErrIsNotOk, Zenon
  <2> QED
    BY <2>1, <2>2, <2>5, OkIsOk DEF agg
<1>8. SumCommitment(msg) = S /\ TapTweakNoScript(S[1]).ok /\ st.idx = j
  BY DEF InSession, FirstState, Aggregated
<1> DEFINE share == DecryptedShare(st, msg).val
           w == TapTweakNoScript(S[1]).val
<1>9. share = EvalPubShare(S, j)
  BY <1>6, <1>7
<1>10. j \in Int
  BY <1>2
<1> HIDE DEF S, j, t, share
<1>11. ShareMatches((share + w) % Order, TweakCommitment(S, w), j)
  BY <1>1, <1>6, <1>8, <1>9, <1>10, TweakedShare
<1> QED
  BY <1>8, <1>11, Zenon DEF ShareFits, share

LEMMA Step1Justified ==
    ASSUME OneAgreedSession, HashesAreScalars, OneStepEach, NEW p \in Honest,
           NEW st, NEW m, NEW msg, NEW order, NEW msgs, InSession(p, st, m, msg, order, msgs),
           NEW res, res = Step1Next(st, msg), ~ res.ok
    PROVE  Justified(res.err)
<1>1. ValidateCoordinatorMsg1(st, msg).ok
  BY EchoIsRight
<1>2. CASE /\ Unproven(st, msg) # {}
           /\ res.err = Naming("FaultyParticipantOrCoordinator", Min(Unproven(st, msg)))
  <2>1. IsFaultyIndex(Min(Unproven(st, msg)))
    BY <1>2, UnprovenIsFaulty
  <2> QED
    BY <1>2, <2>1 DEF Justified, Naming
<1>3. CASE /\ DecryptedShare(st, msg).ok
           /\ ~ ShareFits(st, msg)
           /\ res.err = Error("UnknownFaultyParticipantOrCoordinator")
  <2>1. Faulty # {}
    BY <1>3, AllHonestShareFits
  <2> QED
    BY <1>3, <2>1 DEF Justified, Error
<1>4. CASE res.err = Error("Runtime")
  BY <1>4 DEF Justified, Error
<1> QED
  BY <1>1, <1>2, <1>3, <1>4, Step1NextErrors

-----------------------------------------------------------------------------
(* What a call may report. *)

CoordJustified(e) ==
    /\ e.kind # "FaultyCoordinator"
    /\ e.kind = "FaultyParticipant" => IsFaultyIndex(e.who)

(***************************************************************************)
(* Errors that blame nobody.                                               *)
(***************************************************************************)
Blameless == {"None", "Runtime", "Value", "ThresholdOrCount", "InvalidHostPubkey",
              "DuplicateHostPubkey", "HostSeckey"}

LEMMA BlamelessIsJustified ==
    ASSUME NEW e, e.kind \in Blameless
    PROVE  Justified(e) /\ CoordJustified(e)
BY DEF Blameless, Justified, CoordJustified

(***************************************************************************)
(* What the caller of a step sees.                                         *)
(***************************************************************************)
LEMMA TransitionErrors ==
    ASSUME NEW d, NEW expected, NEW res, NEW call, call = Transition(d, expected, res)
    PROVE  \/ ErrorOf(call.reply).kind \in Blameless
           \/ d.phase = expected /\ ~ res.ok /\ ErrorOf(call.reply) = res.err
<1>1. NoError.kind \in Blameless /\ Error("Runtime").kind \in Blameless
  BY DEF NoError, Error, Blameless
<1>2. \/ call.reply = Err(Error("Runtime"))
      \/ call.reply = Ok(res.out)
      \/ call.reply = Err(res.err) /\ d.phase = expected /\ ~ res.ok
  BY DEF Transition
<1>3. \A e : ErrorOf(Err(e)) = e
  BY ErrIsNotOk, Zenon DEF ErrorOf
<1>4. \A v : ErrorOf(Ok(v)) = NoError
  BY OkIsOk, Zenon DEF ErrorOf
<1>5. CASE call.reply = Err(Error("Runtime"))
  <2>1. ErrorOf(call.reply) = Error("Runtime")
    BY <1>3, <1>5, Zenon
  <2> QED
    BY <1>1, <2>1, Zenon
<1>6. CASE call.reply = Ok(res.out)
  <2>1. ErrorOf(call.reply) = NoError
    BY <1>4, <1>6, Zenon
  <2> QED
    BY <1>1, <2>1, Zenon
<1>7. CASE call.reply = Err(res.err) /\ d.phase = expected /\ ~ res.ok
  <2>1. ErrorOf(call.reply) = res.err
    BY <1>3, <1>7, Zenon
  <2> QED
    BY <1>7, <2>1, Zenon
<1> QED
  BY <1>2, <1>5, <1>6, <1>7, Zenon

LEMMA PublicParamsErrors ==
    ASSUME NEW keys, NEW t, NEW res, res = ValidatePublicSessionParams(keys, t), ~ res.ok
    PROVE  res.err.kind \in Blameless
<1> DEFINE n == Len(keys)
           repeat(i) == {j \in (i + 1) .. n : keys[i] = keys[j]}
           bad == {i \in 1 .. n : keys[i] = Identity \/ repeat(i) # {}}
<1>1. res = IF ~(1 <= t /\ t <= n) THEN Err(Error("ThresholdOrCount"))
            ELSE IF bad = {} THEN Ok(n)
            ELSE IF keys[Min(bad)] = Identity
            THEN Err(Naming("InvalidHostPubkey", Min(bad)))
            ELSE Err(NamingBoth("DuplicateHostPubkey", Min(bad), Min(repeat(Min(bad)))))
  BY Zenon DEF ValidatePublicSessionParams
<1>2. /\ Error("ThresholdOrCount").kind \in Blameless
      /\ \A i : /\ Naming("InvalidHostPubkey", i).kind \in Blameless
                /\ \A j : NamingBoth("DuplicateHostPubkey", i, j).kind \in Blameless
  BY DEF Error, Naming, NamingBoth, Blameless
<1>3. Ok(n).ok
  BY OkIsOk, Zenon
<1> HIDE DEF bad, repeat, n
<1>4. \/ res = Err(Error("ThresholdOrCount"))
      \/ res = Err(Naming("InvalidHostPubkey", Min(bad)))
      \/ res = Err(NamingBoth("DuplicateHostPubkey", Min(bad), Min(repeat(Min(bad)))))
  BY <1>1, <1>3, Zenon
<1>5. \A e : res = Err(e) => res.err = e
  BY ErrIsNotOk, Zenon
<1> QED
  BY <1>2, <1>4, <1>5, Zenon

LEMMA InitialNextErrors ==
    ASSUME NEW st, NEW params, NEW random,
           NEW res, res = InitialNext(st, params, random), ~ res.ok
    PROVE  res.err.kind \in Blameless
<1> DEFINE keys == params.host_pubkeys
           position == ValidateSessionParams(st.s, keys, params.t)
           public == ValidatePublicSessionParams(keys, params.t)
           coeffs == Coefficients(Seed(st.s, random, EncContext(params.t, keys)), params.t)
           pop == PopSign(coeffs[1], position.val)
<1>1. Error("HostSeckey").kind \in Blameless /\ Error("Runtime").kind \in Blameless
  BY DEF Error, Blameless
<1>2. ~ position.ok => position.err.kind \in Blameless
  <2>1. \/ position = public /\ ~ public.ok
        \/ position = Err(Error("HostSeckey"))
        \/ position.ok
    BY OkIsOk, Zenon DEF ValidateSessionParams
  <2> QED
    BY <1>1, <2>1, ErrIsNotOk, PublicParamsErrors
<1>3. ~ pop.ok => pop.err.kind \in Blameless
  BY <1>1, OkIsOk, ErrIsNotOk, Zenon DEF PopSign
<1>4. \/ ~ position.ok /\ res = position
      \/ ~ pop.ok /\ res = pop
      \/ res = Err(Error("Runtime"))
  BY Zenon DEF InitialNext, Advance
<1> QED
  BY <1>1, <1>2, <1>3, <1>4, ErrIsNotOk, Zenon

LEMMA CoordinatorNewErrors ==
    ASSUME NEW params, NEW res, res = CoordinatorNew(params), ~ res.ok
    PROVE  res.err.kind \in Blameless
BY PublicParamsErrors DEF CoordinatorNew, Advance

(***************************************************************************)
(* The transcript that a participant keeps is that of the message.         *)
(***************************************************************************)
LEMMA Step1NextTranscript ==
    ASSUME NEW st, NEW msg, NEW res, res = Step1Next(st, msg), res.ok
    PROVE  res.st.transcript = Transcript(st.t, SumCommitment(msg), st.host_pubkeys,
                                          msg.pubnonces, msg.enc_secshares)
<1> DEFINE sum == SumCommitment(msg)
           tweak == TapTweakNoScript(sum[1])
           tweaked == TweakCommitment(sum, tweak.val)
           decrypted == Decrypt(st.s, msg.pubnonces, EncContext(st.t, st.host_pubkeys),
                                st.idx, msg.enc_secshares[st.idx])
           secshare == (decrypted.val + tweak.val) % Order
           transcript == Transcript(st.t, sum, st.host_pubkeys, msg.pubnonces,
                                    msg.enc_secshares)
           sig == CertEqSign(st.s, transcript, st.idx)
           pubshares == [i \in 1 .. Len(st.host_pubkeys) |-> EvalPubShare(tweaked, i)]
           dkg_output == [idx |-> st.idx, t |-> st.t, secshare |-> secshare,
                          threshold_pubkey |-> tweaked[1], pubshares |-> pubshares]
<1>1. res = Advance("Step2", [transcript |-> transcript, dkg_output |-> dkg_output], sig.val)
  BY ErrIsNotOk, Zenon DEF Step1Next
<1> HIDE DEF transcript, dkg_output, sig
<1>2. res.st.transcript = transcript
  BY <1>1 DEF Advance
<1> QED
  BY <1>2 DEF transcript

LEMMA CoordinatorInitialNextErrors ==
    ASSUME NEW st, NEW msgs, NEW res, res = CoordinatorInitialNext(st, msgs), ~ res.ok
    PROVE  \/ res = ValidateParticipantMsg1(st, msgs)
           \/ res.err.kind \in Blameless
<1> DEFINE n == Len(st.host_pubkeys)
           sum == [k \in 1 .. st.t |-> SumMod([i \in 1 .. n |-> msgs[i].commitment[k]])]
           tweak == TapTweakNoScript(sum[1])
<1>1. Error("Runtime").kind \in Blameless
  BY DEF Error, Blameless
<1>2. tweak.ok \/ tweak = Err(Error("Runtime"))
  BY OkIsOk, Zenon DEF TapTweakNoScript
<1>3. res = ValidateParticipantMsg1(st, msgs) \/ res = tweak
  BY Zenon DEF CoordinatorInitialNext, Advance
<1> QED
  BY <1>1, <1>2, <1>3, ErrIsNotOk, Zenon

(***************************************************************************)
(* A certificate of the right length fails for a signature in it.          *)
(***************************************************************************)
LEMMA CoordinatorStep1NextErrors ==
    ASSUME NEW st, NEW sigs, NEW res, res = CoordinatorStep1Next(st, sigs), ~ res.ok,
           st.transcript.host_pubkeys = st.host_pubkeys, Len(st.host_pubkeys) \in Nat
    PROVE  \/ res.err.kind \in Blameless
           \/ /\ Len(sigs) = Len(st.host_pubkeys)
              /\ \E i \in 1 .. Len(st.host_pubkeys) :
                    /\ res.err = Naming("FaultyParticipant", i)
                    /\ ~ CertEqVerify(st.host_pubkeys[i], st.transcript, i, sigs[i])
<1> DEFINE keys == st.transcript.host_pubkeys
           bad == {i \in 1 .. Len(keys) : ~ CertEqVerify(keys[i], st.transcript, i, sigs[i])}
           verified == VerifyCertificate(st.transcript, sigs)
<1>1. verified = IF Len(sigs) # Len(keys) THEN Err(Error("InvalidCertificate"))
                 ELSE IF bad # {} THEN Err(Naming("InvalidCertificateSignature", Min(bad)))
                 ELSE Ok(Len(keys))
  BY Zenon DEF VerifyCertificate
<1>2. res = IF Len(sigs) # Len(st.host_pubkeys) THEN Err(Error("Value"))
            ELSE IF ~verified.ok
            THEN IF verified.err.kind = "InvalidCertificateSignature"
                 THEN Err(Naming("FaultyParticipant", verified.err.who))
                 ELSE Err(FromCryptoError(verified.err))
            ELSE res
  BY Zenon DEF CoordinatorStep1Next
<1>3. ~ (Len(sigs) # Len(st.host_pubkeys)) /\ verified.ok => res.ok
  BY Zenon DEF CoordinatorStep1Next, Finish, Advance
<1>4. CASE Len(sigs) # Len(st.host_pubkeys)
  <2>1. res = Err(Error("Value"))
    BY <1>2, <1>4, Zenon
  <2> QED
    BY <2>1, ErrIsNotOk DEF Error, Blameless
<1>5. CASE Len(sigs) = Len(st.host_pubkeys)
  <2>1. ~ verified.ok
    BY <1>3, <1>5
  <2> HIDE DEF bad, verified
  <2>2. bad # {} /\ verified = Err(Naming("InvalidCertificateSignature", Min(bad)))
    BY <1>1, <1>5, <2>1, OkIsOk, Zenon
  <2>3. bad \subseteq Nat /\ \A i \in bad :
            /\ i \in 1 .. Len(st.host_pubkeys)
            /\ ~ CertEqVerify(st.host_pubkeys[i], st.transcript, i, sigs[i])
    BY DEF bad
  <2>4. Min(bad) \in bad
    BY <2>2, <2>3, MinIsMember
  <2>5. /\ verified.err.kind = "InvalidCertificateSignature"
        /\ verified.err.who = Min(bad)
    BY <2>2, ErrIsNotOk DEF Naming
  <2>6. res.err = Naming("FaultyParticipant", Min(bad))
    BY <1>2, <1>5, <2>1, <2>5, ErrIsNotOk, Zenon
  <2> QED
    BY <1>5, <2>3, <2>4, <2>6
<1> QED
  BY <1>4, <1>5

-----------------------------------------------------------------------------
(* A session as it goes on. *)

(***************************************************************************)
(* The place of a party is that of its key.                                *)
(***************************************************************************)
LEMMA PlaceOf ==
    ASSUME OneAgreedSession, Valid(GivenParams), NEW p \in Parties,
           NEW i \in 1 .. Len(GivenParams.host_pubkeys), HostKey(p) = KeyAt(i)
    PROVE  PositionAmong(p) = i
<1> DEFINE keys == GivenParams.host_pubkeys
           s == HostSec[p]
           position == ValidateSessionParams(s, keys, GivenParams.t)
           public == ValidatePublicSessionParams(keys, GivenParams.t)
           mine == {k \in 1 .. Len(keys) : keys[k] = MulG(s)}
<1>1. public.ok
  BY DEF Valid
<1>2. i \in mine
  BY DEF HostKey, KeyAt
<1>3. position = IF ~public.ok THEN public
                 ELSE IF mine = {} THEN Err(Error("HostSeckey"))
                 ELSE Ok(Min(mine))
  BY Zenon DEF ValidateSessionParams
<1> HIDE DEF mine, public
<1>4. position = Ok(Min(mine))
  BY <1>1, <1>2, <1>3, Zenon
<1>5. mine \subseteq Nat /\ \A k \in mine : k \in 1 .. Len(keys) /\ keys[k] = HostKey(p)
  BY DEF mine, HostKey
<1>6. Min(mine) \in mine
  BY <1>2, <1>5, MinIsMember
<1>7. Min(mine) = i
  BY <1>5, <1>6, KeysApart DEF KeyAt
<1>8. PositionAmong(p) = position.val
  BY DEF PositionAmong
<1> HIDE DEF position
<1>9. position.val = Min(mine)
  BY <1>4, OkIsOk, Zenon
<1>10. QED
  BY <1>7, <1>8, <1>9, Zenon

(***************************************************************************)
(* More messages only make for more lists.                                 *)
(***************************************************************************)
LEMMA CollectedGrows ==
    ASSUME NEW order \in Orders, NEW from, NEW later,
           \A q \in Parties : from[q] \subseteq later[q]
    PROVE  Collected(order, from) \subseteq Collected(order, later)
<1> SUFFICES ASSUME NEW ms \in Collected(order, from) PROVE ms \in Collected(order, later)
  OBVIOUS
<1>1. \A i \in DOMAIN order : order[i] \in Parties
  BY OrdersAssumption, LenProperties, ElementOfSeq
<1>2. /\ ms \in [DOMAIN order -> UNION {from[order[i]] : i \in DOMAIN order}]
      /\ \A i \in DOMAIN order : ms[i] \in from[order[i]]
  BY DEF Collected
<1>3. \A i \in DOMAIN order : ms[i] \in later[order[i]]
  BY <1>1, <1>2
<1>4. ms \in [DOMAIN order -> UNION {later[order[i]] : i \in DOMAIN order}]
  BY <1>2, <1>3
<1> QED
  BY <1>3, <1>4 DEF Collected

LEMMA OneAggregateKept ==
    ASSUME OneAggregate, UNCHANGED <<cst, cmsg1, csessions>>,
           \A q \in Honest : pmsg1[q] \subseteq pmsg1'[q]
    PROVE  OneAggregate'
<1>1. \A q \in Parties : Msg1From[q] \subseteq Msg1From'[q]
  BY DEF Msg1From
<1>2. ASSUME NEW m, NEW order, NEW msgs, Aggregates(m, order, msgs)
      PROVE  Aggregates(m, order, msgs)'
  <2>1. msgs \in Collected(order, Msg1From')
    BY <1>1, <1>2, CollectedGrows DEF Aggregates
  <2> QED
    BY <1>2, <2>1 DEF Aggregates
<1>3. ASSUME NEW m \in cmsg1'
      PROVE  /\ cmsg1' = {m} /\ Valid(GivenParams)
             /\ \E order, msgs : Aggregates(m, order, msgs)'
  <2>1. cmsg1 = {m} /\ Valid(GivenParams) /\ \E order, msgs : Aggregates(m, order, msgs)
    BY <1>3 DEF OneAggregate
  <2> QED
    BY <1>2, <2>1
<1>4. \A m \in cmsg1' : /\ cmsg1' = {m} /\ Valid(GivenParams)
                        /\ \E order, msgs : Aggregates(m, order, msgs)'
  BY <1>3
<1> QED
  BY <1>4 DEF OneAggregate

(***************************************************************************)
(* What has been broadcast puts together messages sent in this session.    *)
(***************************************************************************)
LEMMA BroadcastIsAggregate ==
    ASSUME OneAgreedSession, OneAggregate, NEW msg \in cmsg1
    PROVE  \E order, msgs : /\ msgs \in Collected(order, Msg1From)
                            /\ Placed(order, msgs)
                            /\ Aggregated(msg, msgs)
<1>1. Valid(GivenParams) /\ \E order, msgs : Aggregates(msg, order, msgs)
  BY DEF OneAggregate
<1>2. PICK order, msgs : Aggregates(msg, order, msgs)
  BY <1>1
<1>3. order \in Orders /\ msgs \in Collected(order, Msg1From)
  BY <1>2 DEF Aggregates
<1>4. Len(msgs) \in Nat /\ DOMAIN order = 1 .. Len(msgs)
      /\ \A i \in 1 .. Len(msgs) : order[i] \in Parties
  BY <1>3, CollectedParts
<1>5. Aggregated(msg, msgs)
  <2>1. /\ CoordinatorInitialNext(GivenParams, msgs).ok
        /\ CoordinatorInitialNext(GivenParams, msgs).out = msg
    BY <1>2 DEF Aggregates
  <2> QED
    BY <1>1, <1>4, <2>1, AggregateParts
<1>6. Placed(order, msgs)
  BY <1>3, <1>4, <1>5 DEF Placed, Aggregated
<1> QED
  BY <1>3, <1>5, <1>6

(***************************************************************************)
(* A new phase of p's driver, and what it has sent, change nothing for the *)
(* others.                                                                 *)
(***************************************************************************)
LEMMA OneStepKept ==
    ASSUME OneStepEach, TypeOK, NEW p \in Honest, NEW d, pst' = [pst EXCEPT ![p] = d],
           NEW sent, pmsg1'[p] = sent, OneStep(p, d, sent),
           \A q \in Honest \ {p} : pmsg1'[q] = pmsg1[q]
    PROVE  OneStepEach'
<1>1. DOMAIN pst = Honest
  BY DEF TypeOK
<1>2. ASSUME NEW q \in Honest PROVE OneStep(q, pst'[q], pmsg1'[q])
  <2>1. CASE q = p
    <3>1. pst'[q] = d /\ pmsg1'[q] = sent
      BY <1>1, <2>1
    <3> QED
      BY <2>1, <3>1
  <2>2. CASE q # p
    <3>1. pst'[q] = pst[q] /\ pmsg1'[q] = pmsg1[q]
      BY <1>1, <2>2
    <3> QED
      BY <3>1 DEF OneStepEach
  <2> QED
    BY <2>1, <2>2
<1> QED
  BY <1>2 DEF OneStepEach

LEMMA FirstStepKeeps ==
    ASSUME OneAgreedSession, HashesAreScalars, TypeOK, SessionInv,
           NEW p \in Honest, ParticipantStep1(p)
    PROVE  SessionInv' /\ perr' = [perr EXCEPT ![p] = perr'[p]] /\ Justified(perr'[p])
<1>1. ParamChoices[p] = {GivenParams}
  BY DEF OneAgreedSession
<1>2. PICK random \in Randoms :
         LET call == Transition(pst[p], "Initial",
                                InitialNext(pst[p].st, GivenParams, random))
         IN  /\ pst' = [pst EXCEPT ![p] = call.state]
             /\ perr' = [perr EXCEPT ![p] = ErrorOf(call.reply)]
             /\ pmsg1' = [pmsg1 EXCEPT ![p] =
                             IF call.reply.ok THEN @ \cup {call.reply.val} ELSE @]
  BY <1>1, Zenon DEF ParticipantStep1
<1>3. UNCHANGED <<cst, cmsg1, certs, csessions, pmsg2>>
  BY DEF ParticipantStep1, cvars
<1> DEFINE d == pst[p]
           res == InitialNext(pst[p].st, GivenParams, random)
           call == Transition(pst[p], "Initial", res)
           sent == IF call.reply.ok THEN pmsg1[p] \cup {call.reply.val} ELSE pmsg1[p]
<1>4. DOMAIN pst = Honest /\ DOMAIN pmsg1 = Honest /\ DOMAIN perr = Honest
      /\ ParticipantDriver(p, pst[p])
  BY DEF TypeOK
<1>5. /\ pst' = [pst EXCEPT ![p] = call.state]
      /\ perr' = [perr EXCEPT ![p] = ErrorOf(call.reply)]
      /\ pmsg1' = [pmsg1 EXCEPT ![p] = sent]
  BY <1>2
<1>6. \/ /\ call.reply.ok /\ d.phase = "Initial" /\ res.ok
         /\ call.state = Driver(res.phase, res.st) /\ call.reply.val = res.out
      \/ ~ call.reply.ok /\ (call.state = d \/ call.state.phase = "Failed")
  BY TransitionCases
<1>7. ErrorOf(call.reply).kind \in Blameless
  <2>1. ~ res.ok => res.err.kind \in Blameless
    BY InitialNextErrors
  <2>2. \/ ErrorOf(call.reply).kind \in Blameless
        \/ d.phase = "Initial" /\ ~ res.ok /\ ErrorOf(call.reply) = res.err
    BY TransitionErrors
  <2> HIDE DEF call, res
  <2> QED
    BY <2>1, <2>2
<1>8. d.phase = "Initial" => res = FirstStep(p, random)
  <2>1. d.phase = "Initial" => d.st = [s |-> HostSec[p]]
    BY <1>4 DEF ParticipantDriver, NewParticipant, Driver
  <2> QED
    BY <2>1 DEF FirstStep
<1>9. OneStep(p, d, pmsg1[p])
  BY <1>4 DEF SessionInv, OneStepEach
<1> HIDE DEF call, res
<1>12. OneStep(p, call.state, sent) /\ pmsg1[p] \subseteq sent
  <2>1. CASE call.reply.ok
    <3>1. /\ d.phase = "Initial" /\ res.ok /\ call.state = Driver(res.phase, res.st)
          /\ call.reply.val = res.out
      BY <1>6, <2>1
    <3>2. res = FirstStep(p, random) /\ res.phase = "Step1"
      BY <1>8, <3>1, FirstStepMsg
    <3>3. sent = {res.out} /\ pmsg1[p] \subseteq sent
      BY <1>9, <2>1, <3>1 DEF OneStep
    <3>4. call.state.phase = "Step1" /\ call.state.st = res.st
      BY <3>1, <3>2 DEF Driver
    <3>5. OneStep(p, call.state, sent)
      BY <3>1, <3>2, <3>3, <3>4 DEF OneStep
    <3> QED
      BY <3>3, <3>5
  <2>2. CASE ~ call.reply.ok
    <3>1. sent = pmsg1[p]
      BY <2>2
    <3>2. OneStep(p, call.state, sent)
      BY <1>6, <1>9, <2>2, <3>1 DEF OneStep
    <3> QED
      BY <3>1, <3>2
  <2> QED
    BY <2>1, <2>2
<1>13. call.state.phase = "Step2" => call.state = d
  <2>1. res.ok => d.phase # "Initial" \/ res.phase = "Step1"
    BY <1>8, FirstStepMsg
  <2> QED
    BY <1>6, <2>1 DEF Driver
<1> HIDE DEF sent
<1>14. OneStepEach'
  <2>1. pmsg1'[p] = sent /\ \A q \in Honest \ {p} : pmsg1'[q] = pmsg1[q]
    BY <1>4, <1>5
  <2> QED
    BY <1>5, <1>12, <2>1, OneStepKept DEF SessionInv
<1>15. OneAggregate'
  <2>1. \A q \in Honest : pmsg1[q] \subseteq pmsg1'[q]
    BY <1>4, <1>5, <1>12
  <2> QED
    BY <1>3, <2>1, OneAggregateKept DEF SessionInv
<1>16. OneTranscript'
  <2>1. \A q \in Honest : pst'[q].phase = "Step2" => pst'[q] = pst[q]
    BY <1>4, <1>5, <1>13
  <2> QED
    BY <1>3, <2>1 DEF SessionInv, OneTranscript
<1>17. perr'[p] = ErrorOf(call.reply)
  BY <1>4, <1>5
<1>18. Justified(perr'[p])
  BY <1>7, <1>17, BlamelessIsJustified
<1> QED
  BY <1>5, <1>14, <1>15, <1>16, <1>17, <1>18 DEF SessionInv

LEMMA OneTranscriptKept ==
    ASSUME OneTranscript, TypeOK, UNCHANGED <<cmsg1, certs>>,
           NEW p \in Honest, NEW d, pst' = [pst EXCEPT ![p] = d],
           \A q \in Honest \ {p} : pmsg2'[q] = pmsg2[q],
           d.phase = "Step2" => \E m \in cmsg1 : d.st.transcript = TranscriptFrom(m),
           \A sig \in pmsg2'[p] :
               \E m \in cmsg1 :
                   sig = Sig(XOnly(HostKey(p)), PositionAmong(p), TranscriptFrom(m))
    PROVE  OneTranscript'
<1>1. DOMAIN pst = Honest
  BY DEF TypeOK
<1>2. ASSUME NEW q \in Honest
      PROVE  /\ pst'[q].phase = "Step2" =>
                   \E m \in cmsg1 : pst'[q].st.transcript = TranscriptFrom(m)
             /\ \A sig \in pmsg2'[q] :
                   \E m \in cmsg1 :
                       sig = Sig(XOnly(HostKey(q)), PositionAmong(q), TranscriptFrom(m))
  <2>1. CASE q = p
    <3>1. pst'[q] = d
      BY <1>1, <2>1
    <3> QED
      BY <2>1, <3>1
  <2>2. CASE q # p
    <3>1. pst'[q] = pst[q] /\ pmsg2'[q] = pmsg2[q]
      BY <1>1, <2>2
    <3> QED
      BY <3>1 DEF OneTranscript
  <2> QED
    BY <2>1, <2>2
<1> QED
  BY <1>2 DEF OneTranscript

LEMMA SecondStepKeeps ==
    ASSUME OneAgreedSession, HashesAreScalars, CoordHonest, TypeOK, SessionInv,
           NEW p \in Honest, ParticipantStep2(p)
    PROVE  SessionInv' /\ perr' = [perr EXCEPT ![p] = perr'[p]] /\ Justified(perr'[p])
<1>1. PICK msg \in cmsg1 :
         LET call == Transition(pst[p], "Step1", Step1Next(pst[p].st, msg))
         IN  /\ pst' = [pst EXCEPT ![p] = call.state]
             /\ perr' = [perr EXCEPT ![p] = ErrorOf(call.reply)]
             /\ pmsg2' = [pmsg2 EXCEPT ![p] =
                             IF call.reply.ok THEN @ \cup {call.reply.val} ELSE @]
  BY Zenon DEF ParticipantStep2, DeliverableCmsg1
<1>2. UNCHANGED <<cst, cmsg1, certs, csessions, pmsg1>>
  BY DEF ParticipantStep2, cvars
<1> DEFINE d == pst[p]
           res == Step1Next(pst[p].st, msg)
           call == Transition(pst[p], "Step1", res)
           sigs == IF call.reply.ok THEN pmsg2[p] \cup {call.reply.val} ELSE pmsg2[p]
<1>3. /\ pst' = [pst EXCEPT ![p] = call.state]
      /\ perr' = [perr EXCEPT ![p] = ErrorOf(call.reply)]
      /\ pmsg2' = [pmsg2 EXCEPT ![p] = sigs]
  BY <1>1
<1>4. DOMAIN pst = Honest /\ DOMAIN pmsg2 = Honest /\ DOMAIN perr = Honest
  BY DEF TypeOK
<1>5. \/ /\ call.reply.ok /\ d.phase = "Step1" /\ res.ok
         /\ call.state = Driver(res.phase, res.st) /\ call.reply.val = res.out
      \/ ~ call.reply.ok /\ (call.state = d \/ call.state.phase = "Failed")
  BY TransitionCases
<1>6. \/ ErrorOf(call.reply).kind \in Blameless
      \/ d.phase = "Step1" /\ ~ res.ok /\ ErrorOf(call.reply) = res.err
  BY TransitionErrors
<1>7. PICK order, msgs : /\ msgs \in Collected(order, Msg1From)
                         /\ Placed(order, msgs)
                         /\ Aggregated(msg, msgs)
  BY BroadcastIsAggregate DEF SessionInv
<1>8. Valid(GivenParams)
  BY DEF SessionInv, OneAggregate
<1>9. OneStep(p, d, pmsg1[p])
  BY DEF SessionInv, OneStepEach
<1>10. ASSUME d.phase = "Step1"
       PROVE  \E m : InSession(p, d.st, m, msg, order, msgs)
  <2>1. PICK random \in Randoms : /\ FirstStep(p, random).ok
                                  /\ d.st = FirstStep(p, random).st
                                  /\ FirstStep(p, random).out \in pmsg1[p]
    BY <1>9, <1>10 DEF OneStep
  <2>2. d.st = FirstState(p, FirstStep(p, random).out)
    BY <2>1, FirstStepMsg
  <2>3. InSession(p, d.st, FirstStep(p, random).out, msg, order, msgs)
    BY <1>7, <1>8, <2>1, <2>2 DEF InSession
  <2> QED
    BY <2>3
<1> HIDE DEF call, res
<1>11. d.phase = "Step1" /\ ~ res.ok => Justified(res.err)
  <2>1. res = Step1Next(d.st, msg)
    BY DEF res
  <2> QED
    BY <1>10, <2>1, Step1Justified DEF SessionInv
<1>12. ASSUME d.phase = "Step1", res.ok
       PROVE  /\ res.phase = "Step2"
              /\ res.st.transcript = TranscriptFrom(msg)
              /\ res.out = Sig(XOnly(HostKey(p)), PositionAmong(p), TranscriptFrom(msg))
  <2>1. PICK m : InSession(p, d.st, m, msg, order, msgs)
    BY <1>10, <1>12
  <2>2. d.st = FirstState(p, m)
    BY <2>1 DEF InSession
  <2>3. /\ d.st.t = GivenParams.t /\ d.st.host_pubkeys = GivenParams.host_pubkeys
        /\ d.st.s = HostSec[p] /\ d.st.idx = PositionAmong(p)
    BY <2>2 DEF FirstState
  <2>4. res = Step1Next(d.st, msg) /\ d.st.host_pubkeys \in Seq(Scalar)
    BY <2>3, GivenParamsType DEF res
  <2>5. res.st.transcript = TranscriptFrom(msg)
    BY <1>12, <2>3, <2>4, Step1NextTranscript DEF TranscriptFrom
  <2>6. /\ res.phase = "Step2"
        /\ res.out = Sig(XOnly(MulG(d.st.s)), d.st.idx, res.st.transcript)
    BY <1>12, <2>4, Step1NextOk
  <2> QED
    BY <2>3, <2>5, <2>6 DEF HostKey
<1>13. Justified(ErrorOf(call.reply))
  BY <1>6, <1>11, BlamelessIsJustified
<1>14. OneStep(p, call.state, pmsg1[p])
  <2>1. call.state = d \/ call.state.phase \in {"Step2", "Failed"}
    BY <1>5, <1>12 DEF Driver
  <2> QED
    BY <1>9, <2>1 DEF OneStep
<1>15. call.state.phase = "Step2" =>
           \E m \in cmsg1 : call.state.st.transcript = TranscriptFrom(m)
  <2>1. d.phase = "Step2" => \E m \in cmsg1 : d.st.transcript = TranscriptFrom(m)
    BY DEF SessionInv, OneTranscript
  <2>2. call.reply.ok => call.state.st.transcript = TranscriptFrom(msg)
    BY <1>5, <1>12 DEF Driver
  <2> QED
    BY <1>5, <2>1, <2>2
<1>16. \A sig \in sigs :
          \E m \in cmsg1 :
              sig = Sig(XOnly(HostKey(p)), PositionAmong(p), TranscriptFrom(m))
  <2>1. \A sig \in pmsg2[p] :
           \E m \in cmsg1 :
               sig = Sig(XOnly(HostKey(p)), PositionAmong(p), TranscriptFrom(m))
    BY DEF SessionInv, OneTranscript
  <2>2. call.reply.ok =>
           call.reply.val = Sig(XOnly(HostKey(p)), PositionAmong(p), TranscriptFrom(msg))
    BY <1>5, <1>12
  <2> QED
    BY <2>1, <2>2
<1> HIDE DEF sigs, d
<1>17. OneStepEach'
  BY <1>2, <1>3, <1>14, OneStepKept DEF SessionInv
<1>18. OneAggregate'
  BY <1>2, OneAggregateKept DEF SessionInv
<1>19. OneTranscript'
  <2>1. pmsg2'[p] = sigs /\ \A q \in Honest \ {p} : pmsg2'[q] = pmsg2[q]
    BY <1>3, <1>4
  <2>2. \A sig \in pmsg2'[p] :
            \E m \in cmsg1 :
                sig = Sig(XOnly(HostKey(p)), PositionAmong(p), TranscriptFrom(m))
    BY <1>16, <2>1
  <2> QED
    BY <1>2, <1>3, <1>15, <2>1, <2>2, OneTranscriptKept DEF SessionInv
<1>20. perr'[p] = ErrorOf(call.reply)
  BY <1>3, <1>4
<1> QED
  BY <1>3, <1>13, <1>17, <1>18, <1>19, <1>20 DEF SessionInv

LEMMA FinalizeKeeps ==
    ASSUME OneAgreedSession, CoordHonest, TypeOK, SessionInv,
           NEW p \in Honest, ParticipantFinalize(p)
    PROVE  SessionInv' /\ perr' = [perr EXCEPT ![p] = perr'[p]] /\ Justified(perr'[p])
<1>1. PICK cert \in certs :
         LET call == Transition(pst[p], "Step2", Step2Next(pst[p].st, cert))
         IN  /\ pst' = [pst EXCEPT ![p] = call.state]
             /\ perr' = [perr EXCEPT ![p] = ErrorOf(call.reply)]
  BY Zenon DEF ParticipantFinalize, DeliverableCerts
<1>2. UNCHANGED <<cst, cmsg1, certs, csessions, pmsg1, pmsg2>>
  BY DEF ParticipantFinalize, cvars
<1> DEFINE d == pst[p]
           res == Step2Next(pst[p].st, cert)
           call == Transition(pst[p], "Step2", res)
<1>3. /\ pst' = [pst EXCEPT ![p] = call.state]
      /\ perr' = [perr EXCEPT ![p] = ErrorOf(call.reply)]
  BY <1>1
<1>4. DOMAIN pst = Honest /\ DOMAIN perr = Honest
  BY DEF TypeOK
<1>5. \/ /\ call.reply.ok /\ res.ok /\ call.state = Driver(res.phase, res.st)
      \/ call.state = d \/ call.state.phase = "Failed"
  BY TransitionCases
<1>6. \/ ErrorOf(call.reply).kind \in Blameless
      \/ d.phase = "Step2" /\ ~ res.ok
  BY TransitionErrors
<1>7. d.phase = "Step2" => res.ok
  <2>1. PICK m \in cmsg1 : VerifyCertificate(TranscriptFrom(m), cert).ok
    BY DEF SessionInv, OneTranscript
  <2>2. cmsg1 = {m}
    BY DEF SessionInv, OneAggregate
  <2>3. d.phase = "Step2" => d.st.transcript = TranscriptFrom(m)
    BY <2>2 DEF SessionInv, OneTranscript
  <2>4. VerifyCertificate(d.st.transcript, cert).ok => res.ok
    BY Zenon DEF Step2Next, Finish, Advance
  <2> QED
    BY <2>1, <2>3, <2>4
<1>8. res.ok => res.phase = "Successful"
  BY Step2NextOk
<1>9. OneStep(p, d, pmsg1[p])
  BY DEF SessionInv, OneStepEach
<1> HIDE DEF call, res
<1>10. call.state = d \/ call.state.phase \in {"Successful", "Failed"}
  BY <1>5, <1>8 DEF Driver
<1>11. OneStep(p, call.state, pmsg1[p])
  BY <1>9, <1>10 DEF OneStep
<1>12. Justified(ErrorOf(call.reply))
  BY <1>6, <1>7, BlamelessIsJustified
<1>13. call.state.phase = "Step2" =>
           \E m \in cmsg1 : call.state.st.transcript = TranscriptFrom(m)
  BY <1>10 DEF SessionInv, OneTranscript
<1>14. \A sig \in pmsg2'[p] :
          \E m \in cmsg1 :
              sig = Sig(XOnly(HostKey(p)), PositionAmong(p), TranscriptFrom(m))
  BY <1>2 DEF SessionInv, OneTranscript
<1> HIDE DEF d
<1>16. OneStepEach'
  BY <1>2, <1>3, <1>11, OneStepKept DEF SessionInv
<1>17. OneAggregate'
  BY <1>2, OneAggregateKept DEF SessionInv
<1>18. OneTranscript'
  BY <1>2, <1>3, <1>13, <1>14, OneTranscriptKept DEF SessionInv
<1>19. perr'[p] = ErrorOf(call.reply)
  BY <1>3, <1>4
<1> QED
  BY <1>3, <1>12, <1>16, <1>17, <1>18, <1>19 DEF SessionInv

LEMMA CreateKeeps ==
    ASSUME OneAgreedSession, TypeOK, SessionInv, CoordinatorCreate
    PROVE  SessionInv' /\ perr' = perr /\ CoordJustified(cerr')
<1>1. /\ csessions < 1 /\ csessions' = csessions + 1
      /\ \E params \in CoordParams :
            LET res == CoordinatorNew(params)
            IN  /\ cst' = IF res.ok THEN Driver(res.phase, res.st) ELSE Absent
                /\ cerr' = IF res.ok THEN NoError ELSE res.err
      /\ UNCHANGED <<cmsg1, certs, pst, perr, pmsg1, pmsg2>>
  BY DEF CoordinatorCreate, OneAgreedSession, pvars
<1> DEFINE res == CoordinatorNew(GivenParams)
<1>2. /\ cst' = IF res.ok THEN Driver(res.phase, res.st) ELSE Absent
      /\ cerr' = IF res.ok THEN NoError ELSE res.err
  BY <1>1 DEF OneAgreedSession
<1>3. csessions = 0 /\ csessions' # 0 /\ cmsg1 = {}
  <2>1. csessions = 0
    BY <1>1 DEF TypeOK
  <2> QED
    BY <1>1, <2>1 DEF SessionInv, OneAggregate, Absent, Driver
<1>4. res.ok => /\ res.phase = "Initial" /\ res.st = GivenParams
                /\ Valid(GivenParams)
  <2>1. GivenParams \in [host_pubkeys : Seq(Scalar), t : Nat]
    BY GivenParamsType DEF Params
  <2>2. res.ok => ValidatePublicSessionParams(GivenParams.host_pubkeys, GivenParams.t).ok
    BY DEF CoordinatorNew
  <2> QED
    BY <2>1, <2>2, CoordinatorNewOk DEF Valid
<1>5. cerr'.kind \in Blameless
  <2>1. ~ res.ok => res.err.kind \in Blameless
    BY CoordinatorNewErrors
  <2>2. NoError.kind \in Blameless
    BY DEF NoError, Error, Blameless
  <2> HIDE DEF res
  <2> QED
    BY <1>2, <2>1, <2>2
<1> HIDE DEF res
<1>6. /\ cst'.phase \in {"Absent", "Initial"}
      /\ cst'.phase = "Initial" => cst'.st = GivenParams /\ Valid(GivenParams)
  BY <1>2, <1>4 DEF Driver, Absent
<1>7. cmsg1' = {}
  BY <1>1, <1>3
<1>8. OneAggregate'
  BY <1>3, <1>6, <1>7 DEF OneAggregate
<1>9. OneStepEach' /\ OneTranscript'
  BY <1>1 DEF SessionInv, OneStepEach, OneTranscript
<1> QED
  BY <1>1, <1>5, <1>8, <1>9, BlamelessIsJustified DEF SessionInv

(***************************************************************************)
(* The coordinator blames no honest party for its first message.           *)
(***************************************************************************)
LEMMA Msg1Blame ==
    ASSUME OneAgreedSession, HashesAreScalars, OneStepEach, Valid(GivenParams),
           NEW order \in Orders, NEW msgs \in Collected(order, Msg1From),
           NEW res, res = CoordinatorInitialNext(GivenParams, msgs), ~ res.ok
    PROVE  CoordJustified(res.err)
<1> DEFINE n == Len(GivenParams.host_pubkeys)
           valid == ValidateParticipantMsg1(GivenParams, msgs)
<1>1. Len(msgs) \in Nat /\ DOMAIN order = 1 .. Len(msgs)
      /\ \A i \in 1 .. Len(msgs) : order[i] \in Parties
  BY CollectedParts
<1>2. res = valid \/ res.err.kind \in Blameless
  BY CoordinatorInitialNextErrors
<1>3. CASE res = valid
  <2>1. \/ valid.err.kind = "Value"
        \/ /\ valid.err.kind = "FaultyParticipant"
           /\ Len(msgs) = n /\ valid.err.who \in 1 .. n /\ ~ ValidMsg1(msgs[valid.err.who])
    BY <1>1, <1>3, Msg1Validated
  <2>2. CASE valid.err.kind = "Value"
    BY <1>3, <2>2, BlamelessIsJustified DEF Blameless
  <2>3. CASE /\ valid.err.kind = "FaultyParticipant"
             /\ Len(msgs) = n /\ valid.err.who \in 1 .. n
             /\ ~ ValidMsg1(msgs[valid.err.who])
    <3> DEFINE i == valid.err.who
    <3>1. Placed(order, msgs)
      BY <1>1, <2>3 DEF Placed
    <3>2. order[i] \notin Honest
      <4> SUFFICES ASSUME order[i] \in Honest PROVE FALSE
        OBVIOUS
      <4>1. HonestMsg1(order[i], msgs[i])
        BY <2>3, <3>1, HonestInPlace
      <4> QED
        BY <2>3, <4>1, HonestMsg1IsValid, GivenParamsType
    <3>3. IsFaultyIndex(i)
      BY <1>1, <2>3, <3>1, <3>2, FaultyAtIndex
    <3> QED
      BY <1>3, <2>3, <3>3 DEF CoordJustified
  <2> QED
    BY <2>1, <2>2, <2>3
<1>4. CASE res.err.kind \in Blameless
  BY <1>4, BlamelessIsJustified
<1> QED
  BY <1>2, <1>3, <1>4

LEMMA AggregateKeeps ==
    ASSUME OneAgreedSession, HashesAreScalars, TypeOK, SessionInv, CoordinatorStep1
    PROVE  SessionInv' /\ perr' = perr /\ CoordJustified(cerr')
<1>1. PICK order \in Orders : \E msgs \in Collected(order, Msg1From) :
         LET call == Transition(cst, "Initial", CoordinatorInitialNext(cst.st, msgs))
         IN  /\ cst' = call.state
             /\ cerr' = ErrorOf(call.reply)
             /\ cmsg1' = IF call.reply.ok THEN cmsg1 \cup {call.reply.val} ELSE cmsg1
  BY DEF CoordinatorStep1
<1>2. PICK msgs \in Collected(order, Msg1From) :
         LET call == Transition(cst, "Initial", CoordinatorInitialNext(cst.st, msgs))
         IN  /\ cst' = call.state
             /\ cerr' = ErrorOf(call.reply)
             /\ cmsg1' = IF call.reply.ok THEN cmsg1 \cup {call.reply.val} ELSE cmsg1
  BY <1>1, Zenon
<1>3. UNCHANGED <<certs, csessions, pst, perr, pmsg1, pmsg2>> /\ cst.phase # "Absent"
  BY DEF CoordinatorStep1, pvars
<1> DEFINE res == CoordinatorInitialNext(cst.st, msgs)
           call == Transition(cst, "Initial", res)
<1>4. /\ cst' = call.state /\ cerr' = ErrorOf(call.reply)
      /\ cmsg1' = IF call.reply.ok THEN cmsg1 \cup {call.reply.val} ELSE cmsg1
  BY <1>2
<1>5. \/ /\ call.reply.ok /\ cst.phase = "Initial" /\ res.ok
         /\ call.state = Driver(res.phase, res.st) /\ call.reply.val = res.out
      \/ ~ call.reply.ok /\ (call.state = cst \/ call.state.phase = "Failed")
  BY TransitionCases
<1>6. \/ ErrorOf(call.reply).kind \in Blameless
      \/ cst.phase = "Initial" /\ ~ res.ok /\ ErrorOf(call.reply) = res.err
  BY TransitionErrors
<1>7. cst.phase = "Initial" => /\ Valid(GivenParams) /\ cmsg1 = {}
                               /\ res = CoordinatorInitialNext(GivenParams, msgs)
  BY DEF SessionInv, OneAggregate
<1> HIDE DEF call, res
<1>8. CoordJustified(cerr')
  <2>1. cst.phase = "Initial" /\ ~ res.ok => CoordJustified(res.err)
    BY <1>7, Msg1Blame DEF SessionInv
  <2> QED
    BY <1>4, <1>6, <2>1, BlamelessIsJustified
<1>9. csessions' # 0
  BY <1>3 DEF SessionInv, OneAggregate, Absent, Driver
<1>10. OneAggregate'
  <2>1. CASE call.reply.ok
    <3>1. /\ cst.phase = "Initial" /\ res.ok /\ call.state = Driver(res.phase, res.st)
          /\ cmsg1' = {res.out}
      BY <1>4, <1>5, <1>7, <2>1
    <3>2. Len(msgs) \in Nat
      BY CollectedParts
    <3>3. /\ res.phase = "Step1" /\ res.st.host_pubkeys = GivenParams.host_pubkeys
          /\ res.st.transcript = TranscriptFrom(res.out)
      BY <1>7, <3>1, <3>2, AggregateParts
    <3>4. cst'.phase = "Step1" /\ cst'.st = res.st
      BY <1>4, <3>1, <3>3 DEF Driver
    <3>5. PICK m : m = res.out
      OBVIOUS
    <3>6. \E o, ms : Aggregates(m, o, ms)'
      <4>1. Aggregates(m, order, msgs)
        BY <1>7, <3>1, <3>5 DEF Aggregates
      <4> QED
        BY <1>3, <4>1 DEF Aggregates, Msg1From
    <3>7. /\ cmsg1' = {m} /\ cst'.st.host_pubkeys = GivenParams.host_pubkeys
          /\ cst'.st.transcript = TranscriptFrom(m)
      BY <3>1, <3>3, <3>4, <3>5
    <3> QED
      BY <1>7, <1>9, <3>1, <3>4, <3>6, <3>7 DEF OneAggregate
  <2>2. CASE ~ call.reply.ok
    <3>1. cmsg1' = cmsg1 /\ (cst' = cst \/ cst'.phase = "Failed")
      BY <1>4, <1>5, <2>2
    <3>2. ASSUME NEW m \in cmsg1'
          PROVE  /\ cmsg1' = {m} /\ Valid(GivenParams)
                 /\ \E o, ms : Aggregates(m, o, ms)'
      <4>1. /\ cmsg1 = {m} /\ Valid(GivenParams)
            /\ \E o, ms : Aggregates(m, o, ms)
        BY <3>1, <3>2 DEF SessionInv, OneAggregate
      <4> QED
        BY <1>3, <3>1, <4>1 DEF Aggregates, Msg1From
    <3>3. \A m \in cmsg1' : /\ cmsg1' = {m} /\ Valid(GivenParams)
                            /\ \E order_1, msgs_1 : Aggregates(m, order_1, msgs_1)'
      BY <3>2
    <3>4. /\ cst'.phase \in {"Absent", "Initial"} => cmsg1' = {}
          /\ cst'.phase = "Initial" => cst'.st = GivenParams /\ Valid(GivenParams)
          /\ cst'.phase = "Step1" =>
                \E m \in cmsg1' : /\ cst'.st.host_pubkeys = GivenParams.host_pubkeys
                                  /\ cst'.st.transcript = TranscriptFrom(m)
      BY <3>1 DEF SessionInv, OneAggregate
    <3> QED
      BY <1>9, <3>3, <3>4 DEF OneAggregate
  <2> QED
    BY <2>1, <2>2
<1>11. OneStepEach'
  BY <1>3 DEF SessionInv, OneStepEach
<1>12. OneTranscript'
  <2>1. cmsg1 \subseteq cmsg1'
    BY <1>4
  <2> QED
    BY <1>3, <2>1 DEF SessionInv, OneTranscript
<1> QED
  BY <1>3, <1>8, <1>10, <1>11, <1>12 DEF SessionInv

(***************************************************************************)
(* At the place of an honest party stands a signature that verifies.       *)
(***************************************************************************)
LEMMA SignatureBlame ==
    ASSUME OneAgreedSession, SessionInv, NEW m, cmsg1 = {m},
           NEW order \in Orders, NEW sigs \in Collected(order, SigsFrom),
           Len(sigs) = Len(GivenParams.host_pubkeys),
           NEW i \in 1 .. Len(GivenParams.host_pubkeys),
           ~ CertEqVerify(KeyAt(i), TranscriptFrom(m), i, sigs[i])
    PROVE  IsFaultyIndex(i)
<1>1. Len(sigs) \in Nat /\ DOMAIN order = 1 .. Len(sigs)
      /\ \A k \in 1 .. Len(sigs) : order[k] \in Parties /\ sigs[k] \in SigsFrom[order[k]]
  BY CollectedParts
<1>2. Placed(order, sigs)
  BY <1>1 DEF Placed
<1>3. order[i] \notin Honest
  <2> SUFFICES ASSUME order[i] \in Honest PROVE FALSE
    OBVIOUS
  <2>1. Valid(GivenParams)
    BY DEF SessionInv, OneAggregate
  <2>2. order[i] \in Parties /\ sigs[i] \in pmsg2[order[i]]
    BY <1>1 DEF SigsFrom
  <2>3. HostKey(order[i]) = KeyAt(i)
    BY <1>1, <1>2, PlacedKeys
  <2>4. PositionAmong(order[i]) = i
    BY <2>1, <2>2, <2>3, PlaceOf
  <2>5. sigs[i] = Sig(XOnly(KeyAt(i)), i, TranscriptFrom(m))
    BY <2>2, <2>3, <2>4 DEF SessionInv, OneTranscript
  <2>6. KeyAt(i) # Identity
    BY <2>1, KeysApart DEF KeyAt
  <2> QED
    BY <2>5, <2>6 DEF CertEqVerify
<1> QED
  BY <1>1, <1>2, <1>3, FaultyAtIndex

LEMMA CertifyKeeps ==
    ASSUME OneAgreedSession, TypeOK, SessionInv, CoordinatorStep2
    PROVE  SessionInv' /\ perr' = perr /\ CoordJustified(cerr')
<1>1. PICK order \in Orders : \E sigs \in Collected(order, SigsFrom) :
         LET call == Transition(cst, "Step1", CoordinatorStep1Next(cst.st, sigs))
         IN  /\ cst' = call.state
             /\ cerr' = ErrorOf(call.reply)
             /\ IF call.reply.ok THEN certs' = certs \cup {call.reply.val.cert}
                                 ELSE certs' = certs
  BY DEF CoordinatorStep2
<1>2. PICK sigs \in Collected(order, SigsFrom) :
         LET call == Transition(cst, "Step1", CoordinatorStep1Next(cst.st, sigs))
         IN  /\ cst' = call.state
             /\ cerr' = ErrorOf(call.reply)
             /\ IF call.reply.ok THEN certs' = certs \cup {call.reply.val.cert}
                                 ELSE certs' = certs
  BY <1>1, Zenon
<1>3. UNCHANGED <<cmsg1, csessions, pst, perr, pmsg1, pmsg2>> /\ cst.phase # "Absent"
  BY DEF CoordinatorStep2, pvars
<1> DEFINE res == CoordinatorStep1Next(cst.st, sigs)
           call == Transition(cst, "Step1", res)
<1>4. /\ cst' = call.state /\ cerr' = ErrorOf(call.reply)
      /\ IF call.reply.ok THEN certs' = certs \cup {call.reply.val.cert}
                          ELSE certs' = certs
  BY <1>2
<1>5. \/ /\ call.reply.ok /\ cst.phase = "Step1" /\ res.ok
         /\ call.state = Driver(res.phase, res.st) /\ call.reply.val = res.out
      \/ ~ call.reply.ok /\ (call.state = cst \/ call.state.phase = "Failed")
  BY TransitionCases
<1>6. \/ ErrorOf(call.reply).kind \in Blameless
      \/ cst.phase = "Step1" /\ ~ res.ok /\ ErrorOf(call.reply) = res.err
  BY TransitionErrors
<1>7. res.ok => /\ res.phase = "Successful" /\ res.out.cert = sigs
                /\ VerifyCertificate(cst.st.transcript, sigs).ok
  BY CoordinatorStep1NextOk
<1>8. ASSUME cst.phase = "Step1"
      PROVE  \E m \in cmsg1 : /\ cmsg1 = {m}
                              /\ cst.st.host_pubkeys = GivenParams.host_pubkeys
                              /\ cst.st.transcript = TranscriptFrom(m)
  BY <1>8 DEF SessionInv, OneAggregate
<1>9. ASSUME cst.phase = "Step1", ~ res.ok PROVE CoordJustified(res.err)
  <2>1. PICK m \in cmsg1 : /\ cmsg1 = {m}
                           /\ cst.st.host_pubkeys = GivenParams.host_pubkeys
                           /\ cst.st.transcript = TranscriptFrom(m)
    BY <1>8, <1>9
  <2>2. cst.st.transcript.host_pubkeys = cst.st.host_pubkeys
    BY <2>1 DEF TranscriptFrom, Transcript
  <2>3. Len(cst.st.host_pubkeys) \in Nat
    BY <2>1, GivenParamsType, LenProperties
  <2>4. \/ res.err.kind \in Blameless
        \/ /\ Len(sigs) = Len(cst.st.host_pubkeys)
           /\ \E i \in 1 .. Len(cst.st.host_pubkeys) :
                 /\ res.err = Naming("FaultyParticipant", i)
                 /\ ~ CertEqVerify(cst.st.host_pubkeys[i], cst.st.transcript, i, sigs[i])
    BY <1>9, <2>2, <2>3, CoordinatorStep1NextErrors
  <2> HIDE DEF res
  <2>5. CASE res.err.kind \in Blameless
    BY <2>5, BlamelessIsJustified
  <2>6. ASSUME Len(sigs) = Len(GivenParams.host_pubkeys),
               NEW i \in 1 .. Len(GivenParams.host_pubkeys),
               res.err = Naming("FaultyParticipant", i),
               ~ CertEqVerify(KeyAt(i), TranscriptFrom(m), i, sigs[i])
        PROVE  CoordJustified(res.err)
    <3>1. IsFaultyIndex(i)
      BY <2>1, <2>6, SignatureBlame
    <3> QED
      BY <2>6, <3>1 DEF CoordJustified, Naming
  <2> QED
    BY <2>1, <2>4, <2>5, <2>6 DEF KeyAt
<1> HIDE DEF call, res
<1>10. CoordJustified(cerr')
  BY <1>4, <1>6, <1>9, BlamelessIsJustified
<1>11. csessions' # 0
  BY <1>3 DEF SessionInv, OneAggregate, Absent, Driver
<1>12. OneAggregate'
  <2>1. cst' = cst \/ cst'.phase \in {"Failed", "Successful"}
    BY <1>4, <1>5, <1>7 DEF Driver
  <2>2. ASSUME NEW m \in cmsg1'
        PROVE  /\ cmsg1' = {m} /\ Valid(GivenParams)
               /\ \E order_1, msgs : Aggregates(m, order_1, msgs)'
    <3>1. /\ cmsg1 = {m} /\ Valid(GivenParams)
          /\ \E order_1, msgs : Aggregates(m, order_1, msgs)
      BY <1>3, <2>2 DEF SessionInv, OneAggregate
    <3> QED
      BY <1>3, <3>1 DEF Aggregates, Msg1From
  <2>3. \A m \in cmsg1' : /\ cmsg1' = {m} /\ Valid(GivenParams)
                          /\ \E order_1, msgs : Aggregates(m, order_1, msgs)'
    BY <2>2
  <2>4. /\ cst'.phase \in {"Absent", "Initial"} => cmsg1' = {}
        /\ cst'.phase = "Initial" => cst'.st = GivenParams /\ Valid(GivenParams)
        /\ cst'.phase = "Step1" =>
              \E m \in cmsg1' : /\ cst'.st.host_pubkeys = GivenParams.host_pubkeys
                                /\ cst'.st.transcript = TranscriptFrom(m)
    BY <1>3, <2>1 DEF SessionInv, OneAggregate
  <2> QED
    BY <1>11, <2>3, <2>4 DEF OneAggregate
<1>13. \A cert \in certs' : \E m \in cmsg1 : VerifyCertificate(TranscriptFrom(m), cert).ok
  <2>1. \A cert \in certs : \E m \in cmsg1 : VerifyCertificate(TranscriptFrom(m), cert).ok
    BY DEF SessionInv, OneTranscript
  <2>2. call.reply.ok => /\ certs' = certs \cup {sigs}
                         /\ \E m \in cmsg1 : VerifyCertificate(TranscriptFrom(m), sigs).ok
    BY <1>4, <1>5, <1>7, <1>8
  <2> QED
    BY <1>4, <2>1, <2>2
<1>14. OneStepEach'
  BY <1>3 DEF SessionInv, OneStepEach
<1>15. OneTranscript'
  BY <1>3, <1>13 DEF SessionInv, OneTranscript
<1> QED
  BY <1>3, <1>10, <1>12, <1>14, <1>15 DEF SessionInv

-----------------------------------------------------------------------------
(***************************************************************************)
(* What makes blame sound: with an honest coordinator the session is one   *)
(* of one aggregate; one that does not run this code creates no driver.    *)
(***************************************************************************)
BlameInv ==
    /\ CoordHonest => SessionInv
    /\ ~ CoordHonest => cst.phase = "Absent"
    /\ BlameSound

LEMMA BlameInvInit == Init => BlameInv
<1> SUFFICES ASSUME Init PROVE BlameInv
  OBVIOUS
<1>1. /\ \A p \in Honest : /\ pst[p].phase = "Initial" /\ pmsg1[p] = {} /\ pmsg2[p] = {}
                           /\ perr[p] = NoError
      /\ cst = Absent /\ cerr = NoError /\ cmsg1 = {} /\ certs = {}
  BY DEF Init, NewParticipant, Driver
<1>2. SessionInv
  BY <1>1 DEF SessionInv, OneStepEach, OneStep, OneAggregate, OneTranscript, Absent, Driver
<1>3. BlameSound
  BY <1>1 DEF BlameSound, NoError, Error
<1> QED
  BY <1>1, <1>2, <1>3 DEF BlameInv, Absent, Driver

LEMMA SessionKept ==
    ASSUME SessionInv, UNCHANGED <<pst, pmsg1, pmsg2, cst, cmsg1, certs, csessions>>
    PROVE  SessionInv'
<1>1. OneAggregate'
  BY OneAggregateKept DEF SessionInv
<1> QED
  BY <1>1 DEF SessionInv, OneStepEach, OneTranscript

LEMMA BlameKept ==
    ASSUME BlameSound, cerr' = cerr \/ CoordJustified(cerr'),
           CoordHonest => \A q \in Honest : perr'[q] = perr[q] \/ Justified(perr'[q])
    PROVE  BlameSound'
BY DEF BlameSound, Justified, CoordJustified

LEMMA HonestCoordinatorStep ==
    ASSUME OneAgreedSession, HashesAreScalars, CoordHonest, TypeOK, SessionInv, BlameSound,
           [Next]_vars
    PROVE  SessionInv' /\ BlameSound'
<1>1. ASSUME NEW p \in Honest,
             ParticipantStep1(p) \/ ParticipantStep2(p) \/ ParticipantFinalize(p)
      PROVE  SessionInv' /\ BlameSound'
  <2>1. SessionInv' /\ perr' = [perr EXCEPT ![p] = perr'[p]] /\ Justified(perr'[p])
    BY <1>1, FirstStepKeeps, SecondStepKeeps, FinalizeKeeps
  <2>2. \A q \in Honest : perr'[q] = perr[q] \/ Justified(perr'[q])
    BY <2>1 DEF TypeOK
  <2>3. cerr' = cerr
    BY <1>1 DEF ParticipantStep1, ParticipantStep2, ParticipantFinalize, cvars
  <2> QED
    BY <2>1, <2>2, <2>3, BlameKept
<1>2. CASE CoordinatorCreate \/ CoordinatorStep1 \/ CoordinatorStep2
  <2>1. SessionInv' /\ perr' = perr /\ CoordJustified(cerr')
    BY <1>2, CreateKeeps, AggregateKeeps, CertifyKeeps
  <2> QED
    BY <2>1, BlameKept
<1>3. ASSUME NEW p \in Honest, ParticipantRestart(p) PROVE FALSE
  BY <1>3 DEF ParticipantRestart, TypeOK, OneAgreedSession
<1>4. ASSUME UNCHANGED <<pst, pmsg1, pmsg2, cst, cmsg1, certs, csessions, cerr, perr>>
      PROVE  SessionInv' /\ BlameSound'
  <2>1. SessionInv'
    BY <1>4, SessionKept
  <2>2. BlameSound'
    BY <1>4, BlameKept
  <2> QED
    BY <2>1, <2>2
<1>5. ASSUME NEW p \in Honest, ParticipantRecover(p) \/ ParticipantClone(p)
      PROVE  SessionInv' /\ BlameSound'
  BY <1>4, <1>5 DEF ParticipantRecover, ParticipantClone, cvars
<1>6. CASE CoordinatorRecovers
  BY <1>4, <1>6 DEF CoordinatorRecovers, pvars
<1>7. CASE UNCHANGED vars
  BY <1>4, <1>7 DEF vars
<1> QED
  BY <1>1, <1>2, <1>3, <1>5, <1>6, <1>7
     DEF Next, Progress, ParticipantCall, CoordinatorCall

LEMMA FaultyCoordinatorStep ==
    ASSUME ~ CoordHonest, cst.phase = "Absent", BlameSound, [Next]_vars
    PROVE  cst'.phase = "Absent" /\ BlameSound'
<1>1. cst' = cst /\ cerr' = cerr
  BY DEF Next, Progress, ParticipantCall, CoordinatorCall, ParticipantStep1,
         ParticipantStep2, ParticipantFinalize, ParticipantRecover, ParticipantClone,
         ParticipantRestart, CoordinatorCreate, CoordinatorStep1, CoordinatorStep2,
         CoordinatorRecovers, vars, cvars
<1>2. BlameSound'
  BY <1>1, BlameKept
<1> QED
  BY <1>1, <1>2

LEMMA BlameInvStep ==
    ASSUME OneAgreedSession, HashesAreScalars
    PROVE  TypeOK /\ BlameInv /\ [Next]_vars => BlameInv'
<1> SUFFICES ASSUME TypeOK, BlameInv, [Next]_vars PROVE BlameInv'
  OBVIOUS
<1>1. CASE CoordHonest
  BY <1>1, HonestCoordinatorStep DEF BlameInv
<1>2. CASE ~ CoordHonest
  BY <1>2, FaultyCoordinatorStep DEF BlameInv
<1> QED
  BY <1>1, <1>2

(***************************************************************************)
(* Blame falls on no honest party, for every choice of faulty parties and  *)
(* whatever they send: in a session of agreed parameters an honest         *)
(* coordinator names only faulty participants, and honest participants     *)
(* with an honest coordinator name only faulty ones, and nobody when there *)
(* are none (src/dkg/errors.rs).  For a share that does not match, this is *)
(* the algebra of the whole session: when all dealers are honest, the pads *)
(* cancel and the sum of the shares lies on the sum of the polynomials.    *)
(***************************************************************************)
THEOREM BlameIsSound ==
    ASSUME OneAgreedSession, HashesAreScalars
    PROVE  Spec => []BlameSound
<1>1. Init => TypeOK /\ BlameInv
  BY TypeOKInit, BlameInvInit
<1>2. TypeOK /\ BlameInv /\ [Next]_vars => (TypeOK /\ BlameInv)'
  BY TypeOKStep, BlameInvStep
<1>3. BlameInv => BlameSound
  BY DEF BlameInv
<1> QED
  BY <1>1, <1>2, <1>3, PTL DEF Spec
=============================================================================
