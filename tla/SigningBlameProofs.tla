------------------------- MODULE SigningBlameProofs ------------------------
(***************************************************************************)
(* The theorem that an honest coordinator blames nobody but faulty signers *)
(* (AbortNamesFaulty).                                                     *)
(***************************************************************************)
EXTENDS SigningViewProofs

(***************************************************************************)
(* The sessions that the property is about: an honest coordinator, callers *)
(* that ask for the same and keep to the protocol, and no second driver.   *)
(***************************************************************************)
OneAgreedSession == CoordHonest /\ CallersAgree /\ ~AllowMisuse /\ MaxSessions = 1

(***************************************************************************)
(* A signer makes one nonce, for the request that all callers ask for or   *)
(* for any.                                                                *)
(***************************************************************************)
OneNonceInv ==
    \A p \in Honest :
        /\ sst[p].phase = "Initial" => nonces[p] = {}
        /\ \A m1, m2 \in nonces[p] : m1 = m2
        /\ sst[p].phase = "Step1" => /\ sst[p].st.msg \in {{}, {request.msg}}
                                     /\ sst[p].st.tweaks \in {{}, {request.tweaks}}

AgreedInv ==
    \A p \in Honest : \A x \in psigs[p] :
        x.msg = request.msg /\ x.tweaks = request.tweaks

(***************************************************************************)
(* The coordinator relays one list, with nonces that honest members sent.  *)
(***************************************************************************)
OneListInv ==
    /\ ksessions = 0 => kst.phase = "Absent"
    /\ kst.phase \in {"Absent", "Initial"} => relayed = {}
    /\ \A l1, l2 \in relayed : l1 = l2
    /\ \A l \in relayed : \A k \in DOMAIN l :
          l[k].id \in Honest => \E m \in nonces[l[k].id] : l[k].nonce = m.nonce

BlameInv == OneNonceInv /\ AgreedInv /\ OneListInv /\ AbortNamesFaulty

LEMMA BlameInvInit == Init => BlameInv
BY DEF Init, BlameInv, OneNonceInv, AgreedInv, OneListInv, AbortNamesFaulty, Absent,
       NewSigner, Driver

-----------------------------------------------------------------------------
(* The steps of the signers. *)

LEMMA SampledOk ==
    ASSUME NEW p, NEW random, NEW msg, NEW tweaks, SampledNonce(p, random, msg, tweaks).ok
    PROVE  LET key == NonceKey(Key.threshold_pubkey, tweaks)
               k   == SampledNonce(p, random, msg, tweaks)
           IN  /\ key.ok
               /\ k = SampleNonce(random, SecShare[p], p, MulG(SecShare[p]), key.val, msg)
               /\ k.val.k1 # 0 /\ k.val.k2 # 0
<1> DEFINE key == NonceKey(Key.threshold_pubkey, tweaks)
           s   == SampleNonce(random, SecShare[p], p, MulG(SecShare[p]), key.val, msg)
           k   == SampledNonce(p, random, msg, tweaks)
<1>1. k = IF ~key.ok THEN key ELSE s
  BY Zenon DEF SampledNonce
<1> HIDE DEF key
<1>2. key.ok /\ k = s
  <2> HIDE DEF k, s
  <2> QED
    BY <1>1 DEF k
<1>3. s.val.k1 # 0 /\ s.val.k2 # 0
  <2>1. s.ok
    BY <1>2
  <2> DEFINE h == [k1 |-> FrostNonceHash(<<random, SecShare[p]>>, p, MulG(SecShare[p]),
                                         XOnly(key.val), msg, 0),
                   k2 |-> FrostNonceHash(<<random, SecShare[p]>>, p, MulG(SecShare[p]),
                                         XOnly(key.val), msg, 1)]
  <2>2. s = IF h.k1 = 0 \/ h.k2 = 0 THEN Err(Error("Runtime")) ELSE Ok(h)
    BY Zenon DEF SampleNonce
  <2> HIDE DEF s, h
  <2> QED
    BY <2>1, <2>2, ErrorIsNotOk, OkIsNoError
<1> QED
  BY <1>2, <1>3 DEF key

LEMMA SentIsNoIdentity ==
    ASSUME SignTypeOK, NoncesInv, NEW p \in Honest, NEW m \in nonces[p]
    PROVE  ~IsIdentity(m.nonce)
<1>1. PICK random \in Randoms : Made(p, m, random)
  BY DEF NoncesInv, SignTypeOK
<1> DEFINE k == SampledNonce(p, random, m.msg, m.tweaks)
<1>2. k.ok /\ m.nonce = PubNonce(k.val) /\ k.val \in SecretNonces(p)
  BY <1>1, MadeIsSecret DEF Made
<1>3. k.val.k1 # 0 /\ k.val.k2 # 0
  BY <1>2, SampledOk
<1> HIDE DEF k
<1>4. PubNonce(k.val).R1 = k.val.k1 /\ PubNonce(k.val).R2 = k.val.k2
  BY <1>2, SecretNonceType, PubNonceType
<1> QED
  BY <1>2, <1>3, <1>4 DEF IsIdentity, Identity

(***************************************************************************)
(* Round 1 does not fail: the nonce is bound to what was asked for.        *)
(***************************************************************************)
LEMMA NonceIsMade ==
    ASSUME HashesDoNotFail, NEW p \in Honest, NEW random \in Randoms,
           NEW a \in NonceInputs, NEW st,
           st = SignerInitialState(p, Key.t, SecShare[p], Key.pubshares,
                                   Key.threshold_pubkey)
    PROVE  SignerInitialNext(st, a.msg, a.tweaks, random).ok
<1> DEFINE key == NonceKey(Key.threshold_pubkey, a.tweaks)
           k   == SampleNonce(random, SecShare[p], p, MulG(SecShare[p]), key.val, a.msg)
<1>1. key.ok /\ k.ok
  <2>1. SampledNonce(p, random, a.msg, a.tweaks).ok
    BY DEF HashesDoNotFail
  <2>2. /\ key.ok
        /\ SampledNonce(p, random, a.msg, a.tweaks) = k
    BY <2>1, SampledOk, Zenon
  <2> QED
    BY <2>1, <2>2
<1>2. p \in 1 .. Len(Key.pubshares)
  BY KeyAssumption, HonestAssumption
<1>3. /\ st.id = p /\ st.secshare = SecShare[p] /\ st.t = Key.t
      /\ st.threshold_pubkey = Key.threshold_pubkey /\ st.pubshares = Key.pubshares
  BY DEF SignerInitialState
<1> HIDE DEF key
<1>4. \E phase, next, out : SignerInitialNext(st, a.msg, a.tweaks, random)
                               = Advance(phase, next, out)
  BY <1>1, <1>2, <1>3, ZenonT(60) DEF SignerInitialNext, key
<1> QED
  BY <1>4 DEF Advance

LEMMA FirstNonce ==
    ASSUME OneAgreedSession, HashesDoNotFail, SessionInv, BlameInv,
           NEW p \in Honest, SignerStep1(p)
    PROVE  OneNonceInv' /\ serr'[p] = NoError /\ nonces[p] = {}
<1>1. PICK r \in Asked, binding \in Bindings,
           random \in IF FreshRandoms THEN Randoms \ drawn[p] ELSE Randoms :
         LET msg    == Optional(binding.msg, r.msg)
             tweaks == Optional(binding.tweaks, r.tweaks)
             call   == Transition(sst[p], "Initial",
                                  SignerInitialNext(sst[p].st, msg, tweaks, random))
         IN  /\ sst' = [sst EXCEPT ![p] = call.state]
             /\ serr' = [serr EXCEPT ![p] = ErrorOf(call.reply)]
             /\ nonces' = [nonces EXCEPT ![p] =
                              IF call.reply.ok
                              THEN @ \cup {[nonce |-> call.reply.val.nonce,
                                            msg |-> msg, tweaks |-> tweaks]}
                              ELSE @]
  BY ZenonT(60) DEF SignerStep1
<1> DEFINE msg    == Optional(binding.msg, r.msg)
           tweaks == Optional(binding.tweaks, r.tweaks)
           a      == [msg |-> msg, tweaks |-> tweaks]
           res    == SignerInitialNext(sst[p].st, msg, tweaks, random)
           call   == Transition(sst[p], "Initial", res)
           new    == [nonce |-> call.reply.val.nonce, msg |-> msg, tweaks |-> tweaks]
<1>2. r = request /\ request' = request
  BY DEF Asked, OneAgreedSession, SignerStep1
<1>3. a \in NonceInputs
  BY DEF NonceInputs, Asked, SessionInv, SignTypeOK
<1>4. msg \in {{}, {request.msg}} /\ tweaks \in {{}, {request.tweaks}}
  BY <1>2 DEF Optional
<1>5. a.msg = msg /\ a.tweaks = tweaks
  OBVIOUS
<1> HIDE DEF msg, tweaks
<1>6. /\ sst' = [sst EXCEPT ![p] = call.state]
      /\ serr' = [serr EXCEPT ![p] = ErrorOf(call.reply)]
      /\ nonces' = [nonces EXCEPT ![p] = IF call.reply.ok THEN nonces[p] \cup {new}
                                                        ELSE nonces[p]]
  BY <1>1 DEF msg, tweaks
<1>7. sst[p].phase = "Initial"
  BY DEF SignerStep1, MayCall, OneAgreedSession
<1>8. sst[p].st = SignerInitialState(p, Key.t, SecShare[p], Key.pubshares,
                                     Key.threshold_pubkey)
  BY <1>7 DEF SessionInv, SignTypeOK, SignerDriver, NewSigner, Driver
<1> HIDE DEF a
<1>9. res.ok
  BY <1>3, <1>5, <1>8, NonceIsMade
<1>10. /\ res.phase = "Step1" /\ res.st.msg = msg /\ res.st.tweaks = tweaks
  BY <1>8, <1>9, SignerInitialNextOk
<1> HIDE DEF res
<1>11. call.state = Driver(res.phase, res.st) /\ call.reply = Ok(res.out)
  BY <1>7, <1>9 DEF Transition, IsActive
<1> HIDE DEF call
<1>12. call.reply.ok /\ ErrorOf(call.reply) = NoError
  BY <1>11, OkIsNoError DEF ErrorOf
<1>13. nonces[p] = {}
  BY <1>7 DEF BlameInv, OneNonceInv
<1> HIDE DEF new
<1>14. /\ sst'[p].phase = "Step1" /\ sst'[p].st.msg = msg /\ sst'[p].st.tweaks = tweaks
       /\ nonces'[p] = {new} /\ serr'[p] = NoError
       /\ \A q \in Honest \ {p} : sst'[q] = sst[q] /\ nonces'[q] = nonces[q]
  BY <1>6, <1>10, <1>11, <1>12, <1>13 DEF Driver, SessionInv, SignTypeOK
<1>15. OneNonceInv'
  <2>1. ASSUME NEW q \in Honest
        PROVE  /\ sst'[q].phase = "Initial" => nonces'[q] = {}
               /\ \A m1, m2 \in nonces'[q] : m1 = m2
               /\ sst'[q].phase = "Step1" =>
                     /\ sst'[q].st.msg \in {{}, {request.msg}}
                     /\ sst'[q].st.tweaks \in {{}, {request.tweaks}}
    <3>1. CASE q = p
      BY <1>4, <1>14, <3>1
    <3>2. CASE q # p
      BY <1>14, <3>2 DEF BlameInv, OneNonceInv
    <3> QED
      BY <3>1, <3>2
  <2> QED
    BY <1>2, <2>1 DEF OneNonceInv
<1> QED
  BY <1>13, <1>14, <1>15

(***************************************************************************)
(* Round 2 does not fail: the list is one that the coordinator relayed.    *)
(***************************************************************************)
LEMMA ListIsSigned ==
    ASSUME OneAgreedSession, HashesDoNotFail, SessionInv, BlameInv,
           NEW p \in Honest, SignerFinalize(p)
    PROVE  OneNonceInv' /\ AgreedInv' /\ serr'[p] = NoError
<1>1. PICK r \in Asked, list \in DeliverableLists :
         LET call == Transition(sst[p], "Step1",
                                SignerStep1Next(sst[p].st, list, r.msg, r.tweaks))
         IN  /\ ~AllowMisuse => p \in Range(IdsOf(list))
             /\ sst' = [sst EXCEPT ![p] = call.state]
             /\ serr' = [serr EXCEPT ![p] = ErrorOf(call.reply)]
             /\ psigs' = [psigs EXCEPT ![p] =
                             IF call.reply.ok
                             THEN @ \cup {[pubnonce |-> PubNonce(sst[p].st.secnonce),
                                           list |-> list, msg |-> r.msg,
                                           tweaks |-> r.tweaks,
                                           psig |-> call.reply.val.psig]}
                             ELSE @]
  BY DEF SignerFinalize
<1> DEFINE st   == sst[p].st
           k    == st.secnonce
           s    == PartialSign(st, list, r.msg, r.tweaks)
           res  == SignerStep1Next(st, list, r.msg, r.tweaks)
           call == Transition(sst[p], "Step1", res)
           new  == [pubnonce |-> PubNonce(k), list |-> list, msg |-> r.msg,
                    tweaks |-> r.tweaks, psig |-> call.reply.val.psig]
<1>2. r = request /\ request \in Requests /\ request' = request /\ nonces' = nonces
  BY DEF Asked, OneAgreedSession, SignerFinalize, SessionInv, SignTypeOK
<1>3. sst[p].phase = "Step1"
  BY DEF SignerFinalize, MayCall, OneAgreedSession
<1>4. st.msg \in {{}, {r.msg}} /\ st.tweaks \in {{}, {r.tweaks}}
  BY <1>2, <1>3 DEF BlameInv, OneNonceInv
<1>5. Relayable(list) /\ p \in Range(IdsOf(list))
  BY <1>1 DEF OneAgreedSession, DeliverableLists, SessionInv, RelayedInv
<1>6. k \in SecretNonces(p) /\ ~IsIdentity(PubNonce(k))
  <2>1. PICK m \in nonces[p] : m.nonce = PubNonce(k)
    BY <1>3 DEF SessionInv, SignTypeOK, SignerDriver, NewSigner, Driver
  <2>2. ~IsIdentity(PubNonce(k))
    BY <2>1, SentIsNoIdentity DEF SessionInv
  <2> QED
    BY <1>3, <2>2 DEF SessionInv, HeldInv
<1>7. s.ok
  <2> DEFINE v == SessionValues(Key.threshold_pubkey, list, r.msg, r.tweaks)
  <2>1. v.ok
    BY <1>2, <1>5 DEF HashesDoNotFail, Relayable
  <2>2. s = PartialSign(KeyMaterial(p, k), list, r.msg, r.tweaks)
    BY <1>3, AnswersWithKeyMaterial DEF SessionInv
  <2>3. \E answer : PartialSign(KeyMaterial(p, k), list, r.msg, r.tweaks) = Ok(answer)
    BY <1>2, <1>5, <1>6, <2>1, HolderAnswers
  <2> QED
    BY <2>2, <2>3, OkIsNoError
<1>8. /\ sst' = [sst EXCEPT ![p] = call.state]
      /\ serr' = [serr EXCEPT ![p] = ErrorOf(call.reply)]
      /\ psigs' = [psigs EXCEPT ![p] = IF call.reply.ok THEN psigs[p] \cup {new}
                                                      ELSE psigs[p]]
  BY <1>1
<1> HIDE DEF k
<1>9. res = Finish([id |-> st.id, psig |-> s.val])
  <2> HIDE DEF s
  <2>1. res = IF st.msg \notin {{}, {r.msg}} \/ st.tweaks \notin {{}, {r.tweaks}}
              THEN Err(Error("Value")) ELSE Answer(st.id, s)
    BY Zenon DEF SignerStep1Next, s
  <2> HIDE DEF res, st
  <2>2. res = Answer(st.id, s)
    BY <1>4, <2>1
  <2> QED
    BY <1>7, <2>2 DEF Answer
<1>10. res.ok /\ res.phase = "Successful"
  BY <1>9 DEF Finish, Advance
<1> HIDE DEF res, s
<1>11. call.state = Driver(res.phase, res.st) /\ call.reply = Ok(res.out)
  BY <1>3, <1>10 DEF Transition, IsActive
<1> HIDE DEF call
<1>12. call.reply.ok /\ ErrorOf(call.reply) = NoError
  BY <1>11, OkIsNoError DEF ErrorOf
<1>13. new.msg = r.msg /\ new.tweaks = r.tweaks
  OBVIOUS
<1> HIDE DEF new
<1>14. /\ sst'[p].phase = "Successful" /\ serr'[p] = NoError
       /\ psigs'[p] = psigs[p] \cup {new}
       /\ \A q \in Honest \ {p} : sst'[q] = sst[q] /\ psigs'[q] = psigs[q]
  BY <1>8, <1>10, <1>11, <1>12 DEF Driver, SessionInv, SignTypeOK
<1>15. OneNonceInv'
  BY <1>2, <1>14 DEF BlameInv, OneNonceInv
<1>16. AgreedInv'
  BY <1>2, <1>13, <1>14 DEF BlameInv, AgreedInv
<1> QED
  BY <1>14, <1>15, <1>16

(***************************************************************************)
(* The steps of the signers keep the invariant.                            *)
(***************************************************************************)
LEMMA SignersKeepBlameInv ==
    ASSUME OneAgreedSession, HashesDoNotFail, SessionInv, BlameInv,
           NEW p \in Honest, SignerCall(p) \/ SignerRestart(p)
    PROVE  BlameInv'
<1>1. /\ kst' = kst /\ kerr' = kerr /\ relayed' = relayed /\ ksessions' = ksessions
      /\ request' = request
  BY DEF SignerCall, SignerStep1, SignerFinalize, SignerRestart, kvars
<1>2. ~SignerRestart(p)
  <2>1. sessions[p] \in 1 .. MaxSessions
    BY DEF SessionInv, SignTypeOK
  <2> QED
    BY <2>1 DEF SignerRestart, OneAgreedSession
<1>3. /\ OneNonceInv' /\ AgreedInv' /\ serr'[p] = NoError
      /\ \A q \in Honest : nonces[q] \subseteq nonces'[q]
      /\ \A q \in Honest \ {p} : serr'[q] = serr[q]
  <2>1. CASE SignerStep1(p)
    <3>1. OneNonceInv' /\ serr'[p] = NoError /\ nonces[p] = {}
      BY <2>1, FirstNonce
    <3>2. /\ \E e : serr' = [serr EXCEPT ![p] = e]
          /\ \E new : nonces' = [nonces EXCEPT ![p] = new]
          /\ psigs' = psigs
      BY <2>1, ZenonT(60) DEF SignerStep1
    <3>3. AgreedInv'
      BY <1>1, <3>2 DEF BlameInv, AgreedInv
    <3> QED
      BY <3>1, <3>2, <3>3 DEF SessionInv, SignTypeOK
  <2>2. CASE SignerFinalize(p)
    <3>1. OneNonceInv' /\ AgreedInv' /\ serr'[p] = NoError
      BY <2>2, ListIsSigned
    <3>2. (\E e : serr' = [serr EXCEPT ![p] = e]) /\ nonces' = nonces
      BY <2>2 DEF SignerFinalize
    <3> QED
      BY <3>1, <3>2 DEF SessionInv, SignTypeOK
  <2> QED
    BY <1>2, <2>1, <2>2 DEF SignerCall
<1>4. OneListInv'
  <2>1. ASSUME NEW l \in relayed, NEW k \in DOMAIN l, l[k].id \in Honest
        PROVE  \E m \in nonces'[l[k].id] : l[k].nonce = m.nonce
    <3>1. \E m \in nonces[l[k].id] : l[k].nonce = m.nonce
      BY <2>1 DEF BlameInv, OneListInv
    <3> QED
      BY <1>3, <2>1, <3>1
  <2>2. /\ ksessions = 0 => kst.phase = "Absent"
        /\ kst.phase \in {"Absent", "Initial"} => relayed = {}
        /\ \A l1, l2 \in relayed : l1 = l2
    BY DEF BlameInv, OneListInv
  <2> QED
    BY <1>1, <2>1, <2>2 DEF OneListInv
<1>5. AbortNamesFaulty'
  BY <1>1, <1>3 DEF BlameInv, AbortNamesFaulty
<1> QED
  BY <1>3, <1>4, <1>5 DEF BlameInv

-----------------------------------------------------------------------------
(* Round 1 of the coordinator. *)

(***************************************************************************)
(* A list whose messages carry the ids they come for has the ids of its    *)
(* group, which may sign.                                                  *)
(***************************************************************************)
LEMMA GroupSigns ==
    ASSUME GroupsCanSign, NEW group \in Groups, NEW from, NEW list \in ListsOf(group, from),
           \A q \in Ids : \A m \in from[q] : m.id = q
    PROVE  /\ IdsOf(list) = group /\ Validated(list)
           /\ Len(list) \in Nat /\ IsList(list, Len(list)) /\ IsInjective(IdsOf(list))
           /\ \A k \in 1 .. Len(list) : /\ list[k].id \in Ids /\ list[k].id \in Parties
                                        /\ list[k] \in from[list[k].id]
<1> DEFINE n == Len(group)
<1>1. /\ n \in Nat /\ Len(list) = n /\ DOMAIN list = 1 .. n
      /\ \A k \in 1 .. n : /\ group[k] \in Ids /\ group[k] \in Nat
                           /\ list[k] \in from[group[k]]
  BY ListForGroup
<1>2. group = [k \in 1 .. n |-> group[k]]
  BY InputsAssumption
<1> HIDE DEF n
<1>3. \A k \in 1 .. n : list[k].id = group[k]
  BY <1>1
<1>4. IdsOf(list) = group
  BY <1>1, <1>2, <1>3 DEF IdsOf
<1>5. Validated(list)
  BY <1>4 DEF GroupsCanSign, Validated
<1>6. /\ IsInjective(IdsOf(list))
      /\ \A k \in DOMAIN IdsOf(list) : IdsOf(list)[k] \in Parties
  BY <1>5, ValidatedIds DEF Validated
<1>7. DOMAIN group = 1 .. n
  BY <1>2
<1> QED
  <2>1. \A k \in 1 .. n : /\ list[k].id \in Ids /\ list[k].id \in Nat
                            /\ list[k] \in from[list[k].id]
    BY <1>1, <1>3
  <2>2. \A k \in 1 .. n : list[k].id \in Parties
    BY <1>3, <1>4, <1>6, <1>7
  <2>3. IsList(list, n)
    BY <1>1, <2>1 DEF IsList
  <2> QED
    BY <1>1, <1>4, <1>5, <1>6, <2>1, <2>2, <2>3

LEMMA ContributionOf ==
    ASSUME NEW q \in Ids, NEW m \in ContributionsFrom[q]
    PROVE  /\ m.id = q
           /\ q \in Honest => \E s \in nonces[q] : m.nonce = s.nonce
<1>1. CASE q \in Honest
  BY <1>1 DEF ContributionsFrom, Contributions
<1>2. CASE q \notin Honest
  BY <1>2 DEF ContributionsFrom, FaultyContributions
<1> QED
  BY <1>1, <1>2

LEMMA MinIsMember ==
    ASSUME NEW S \in SUBSET Nat, S # {} PROVE Min(S) \in S
<1>1. \E x \in S : \A y \in S : x <= y
  BY LeastElement
<1> QED
  BY <1>1, Zenon DEF Min

(***************************************************************************)
(* Round 1 fails only for an identity that no honest signer sends.         *)
(***************************************************************************)
LEMMA ContributionsRelayed ==
    ASSUME GroupsCanSign, SignTypeOK, NoncesInv, NEW group \in Groups,
           NEW list \in ListsOf(group, ContributionsFrom),
           NEW st, st.t = Key.t, st.pubshares = Key.pubshares,
           st.threshold_pubkey = Key.threshold_pubkey,
           NEW res, res = SignCoordinatorInitialNext(st, list)
    PROVE  /\ \A k \in DOMAIN list :
                 list[k].id \in Honest => \E m \in nonces[list[k].id] : list[k].nonce = m.nonce
           /\ \/ res.ok /\ res.out = list
              \/ ~res.ok /\ \E i \in Faulty : res.err = Naming("InvalidContribution", i)
<1>0. \A q \in Ids : \A m \in ContributionsFrom[q] : m.id = q
  BY ContributionOf
<1> DEFINE n == Len(list)
<1>1. /\ Validated(list) /\ n \in Nat /\ DOMAIN list = 1 .. n
      /\ \A k \in 1 .. n : /\ list[k].id \in Ids /\ list[k].id \in Parties
                           /\ list[k] \in ContributionsFrom[list[k].id]
  BY <1>0, GroupSigns DEF IsList
<1> HIDE DEF n
<1>2. ASSUME NEW k \in DOMAIN list, list[k].id \in Honest
      PROVE  \E m \in nonces[list[k].id] : list[k].nonce = m.nonce
  BY <1>1, <1>2, ContributionOf
<1> DEFINE identity == {k \in DOMAIN list : IsIdentity(list[k].nonce)}
           who      == list[Min(identity)].id
           next     == [t |-> st.t, pubshares |-> st.pubshares,
                        threshold_pubkey |-> st.threshold_pubkey, pubnonces |-> ById(list)]
<1>3. res = IF identity # {} THEN Err(Naming("InvalidContribution", who))
            ELSE Advance("Step1", next, list)
  BY <1>1, Zenon DEF SignCoordinatorInitialNext, Validated
<1>4. CASE identity = {}
  <2> HIDE DEF identity, next
  <2>1. res = Advance("Step1", next, list)
    BY <1>3, <1>4
  <2> QED
    BY <1>2, <2>1 DEF Advance
<1>5. CASE identity # {}
  <2>1. identity \in SUBSET Nat
    BY <1>1
  <2>2. Min(identity) \in identity
    <3> HIDE DEF identity
    <3> QED
      BY <1>5, <2>1, MinIsMember
  <2>3. Min(identity) \in DOMAIN list /\ IsIdentity(list[Min(identity)].nonce)
    BY <2>2
  <2> HIDE DEF identity
  <2>4. who \in Parties
    BY <1>1, <2>3
  <2>5. who \notin Honest
    <3>1. ASSUME who \in Honest PROVE FALSE
      <4>1. PICK m \in nonces[who] : list[Min(identity)].nonce = m.nonce
        BY <1>2, <2>3, <3>1
      <4> HIDE DEF who
      <4>2. ~IsIdentity(m.nonce)
        BY <3>1, SentIsNoIdentity
      <4> QED
        BY <2>3, <4>1, <4>2
    <3> QED
      BY <3>1
  <2> HIDE DEF who, next
  <2>6. who \in Faulty /\ res = Err(Naming("InvalidContribution", who))
    BY <1>3, <1>5, <2>4, <2>5 DEF Faulty
  <2>7. ~res.ok /\ res.err = Naming("InvalidContribution", who)
    BY <2>6 DEF Err
  <2> QED
    BY <1>2, <2>6, <2>7
<1> QED
  BY <1>4, <1>5

LEMMA Round1KeepsBlameInv ==
    ASSUME OneAgreedSession, GroupsCanSign, SessionInv, BlameInv, CoordinatorStep1
    PROVE  BlameInv'
<1>1. PICK group \in Groups : \E list \in ListsOf(group, ContributionsFrom) :
         LET call == Transition(kst, "Initial", SignCoordinatorInitialNext(kst.st, list))
         IN  /\ kst' = call.state
             /\ kerr' = ErrorOf(call.reply)
             /\ relayed' = IF call.reply.ok THEN relayed \cup {call.reply.val} ELSE relayed
  BY DEF CoordinatorStep1
<1>2. PICK list \in ListsOf(group, ContributionsFrom) :
         LET call == Transition(kst, "Initial", SignCoordinatorInitialNext(kst.st, list))
         IN  /\ kst' = call.state
             /\ kerr' = ErrorOf(call.reply)
             /\ relayed' = IF call.reply.ok THEN relayed \cup {call.reply.val} ELSE relayed
  BY <1>1
<1> DEFINE res  == SignCoordinatorInitialNext(kst.st, list)
           call == Transition(kst, "Initial", res)
<1>3. /\ kst' = call.state /\ kerr' = ErrorOf(call.reply)
      /\ relayed' = IF call.reply.ok THEN relayed \cup {call.reply.val} ELSE relayed
  BY <1>2
<1>4. /\ UNCHANGED <<request, ksessions, svars>> /\ kst.phase = "Initial"
  BY DEF CoordinatorStep1, MayCall, OneAgreedSession
<1>5. kst = NewCoordinator
  BY <1>4 DEF SessionInv, SignTypeOK, SignCoordinatorDriver, Absent, Driver
<1>6. /\ kst.st.t = Key.t /\ kst.st.pubshares = Key.pubshares
      /\ kst.st.threshold_pubkey = Key.threshold_pubkey
  BY <1>5 DEF NewCoordinator, Driver, SignCoordinatorInitialState
<1>7. relayed = {} /\ ksessions # 0
  BY <1>4 DEF BlameInv, OneListInv
<1>8. /\ \A k \in DOMAIN list :
            list[k].id \in Honest => \E m \in nonces[list[k].id] : list[k].nonce = m.nonce
      /\ \/ res.ok /\ res.out = list
         \/ ~res.ok /\ \E i \in Faulty : res.err = Naming("InvalidContribution", i)
  BY <1>6, ContributionsRelayed DEF SessionInv
<1>9. res.ok => res.phase = "Step1"
  BY CoordinatorInitialNextOk
<1> HIDE DEF res
<1>10. \/ /\ call.reply = Ok(res.out) /\ call.state.phase = "Step1" /\ res.ok
       \/ /\ call.reply = Err(res.err) /\ call.state.phase = "Failed" /\ ~res.ok
  BY <1>4, <1>9 DEF Transition, IsActive, Failed, Driver
<1> HIDE DEF call
<1>11. kst'.phase \notin {"Absent", "Initial"}
  BY <1>3, <1>10
<1>12. /\ relayed' \subseteq {list}
       /\ \/ kerr' = NoError
          \/ \E i \in Faulty : kerr' = Naming("InvalidContribution", i)
  <2>1. CASE call.reply = Ok(res.out) /\ res.ok
    <3>1. call.reply.ok /\ call.reply.val = list
      BY <1>8, <2>1, OkIsNoError
    <3> QED
      BY <1>3, <1>7, <3>1 DEF ErrorOf
  <2>2. CASE call.reply = Err(res.err) /\ ~res.ok
    <3>1. ~call.reply.ok /\ call.reply.err = res.err
      BY <2>2 DEF Err
    <3> QED
      BY <1>3, <1>7, <1>8, <2>2, <3>1 DEF ErrorOf
  <2> QED
    BY <1>10, <2>1, <2>2
<1>13. OneListInv'
  BY <1>4, <1>7, <1>8, <1>11, <1>12 DEF OneListInv, svars
<1>14. OneNonceInv' /\ AgreedInv' /\ serr' = serr
  BY <1>4 DEF BlameInv, OneNonceInv, AgreedInv, svars
<1>15. AbortNamesFaulty'
  BY <1>12, <1>14 DEF BlameInv, AbortNamesFaulty, Naming
<1> QED
  BY <1>13, <1>14, <1>15 DEF BlameInv

-----------------------------------------------------------------------------
(* Round 2 of the coordinator. *)

(***************************************************************************)
(* The values of a relayed list, in the order of the ids.                  *)
(***************************************************************************)
LEMMA ValuesById ==
    ASSUME HashesDoNotFail, NEW l, Relayable(l), NEW r \in Requests,
           NEW w, w = SessionValues(Key.threshold_pubkey, l, r.msg, r.tweaks),
           NEW v, v = SessionValues(Key.threshold_pubkey, ById(l), r.msg, r.tweaks)
    PROVE  /\ w.ok /\ v.ok /\ SameValues(v.val, w.val)
           /\ v.val.ids = IdsOf(ById(l)) /\ w.val.ids = IdsOf(l)
           /\ v.val.b \in Scalar /\ v.val.e \in Scalar
           /\ Tracks(Key.threshold_pubkey, v.val.ctx) /\ v.val.ctx.gacc \in Sign
<1>1. /\ Range(IdsOf(ById(l))) = Range(IdsOf(l))
      /\ AggrPubnonces(NoncesOf(ById(l))) = AggrPubnonces(NoncesOf(l))
  BY RelayableFacts, Zenon
<1>2. w.ok
  BY DEF HashesDoNotFail, Relayable
<1>3. v.ok /\ SameValues(v.val, w.val)
  <2>1. /\ SessionValues(Key.threshold_pubkey, ById(l), r.msg, r.tweaks).ok
        /\ SameValues(SessionValues(Key.threshold_pubkey, l, r.msg, r.tweaks).val,
                      SessionValues(Key.threshold_pubkey, ById(l), r.msg, r.tweaks).val)
    BY <1>1, <1>2, SessionValuesSame
  <2> QED
    BY <2>1 DEF SameValues
<1>4. v.val.ids = IdsOf(ById(l))
  BY <1>3, SessionValuesOk
<1>5. /\ w.val.ids = IdsOf(l)
      /\ w.val.b \in Scalar /\ w.val.e \in Scalar
      /\ Tracks(Key.threshold_pubkey, w.val.ctx) /\ w.val.ctx.gacc \in Sign
  BY <1>2, ValuesOfPossible DEF Relayable
<1>6. /\ v.val.b \in Scalar /\ v.val.e \in Scalar
      /\ Tracks(Key.threshold_pubkey, v.val.ctx) /\ v.val.ctx.gacc \in Sign
  BY <1>3, <1>5 DEF SameValues
<1> QED
  BY <1>2, <1>3, <1>4, <1>5, <1>6

(***************************************************************************)
(* The answer of an honest signer passes verification.                     *)
(***************************************************************************)
LEMMA AnswerPasses ==
    ASSUME HashesDoNotFail, NEW q \in Honest, NEW k \in SecretNonces(q),
           ~IsIdentity(PubNonce(k)),
           NEW l, Relayable(l), q \in Range(IdsOf(l)), NEW r \in Requests,
           NEW v, v = SessionValues(Key.threshold_pubkey, ById(l), r.msg, r.tweaks)
    PROVE  PartialVerify(PartialSign(KeyMaterial(q, k), l, r.msg, r.tweaks).val, q,
                         PubNonce(k), Key.pubshares[q], v.val).ok
<1> DEFINE w  == SessionValues(Key.threshold_pubkey, l, r.msg, r.tweaks)
           a  == LagrangeInternal(IdsOf(l), q)
           st == KeyMaterial(q, k)
           s  == PartialSignature(st, a, w.val)
<1>1. /\ w.ok /\ v.ok /\ SameValues(v.val, w.val)
      /\ v.val.ids = IdsOf(ById(l)) /\ w.val.ids = IdsOf(l)
  BY ValuesById
<1>2. /\ w.val.b \in Scalar /\ w.val.e \in Scalar /\ w.val.ctx.gacc \in Sign
  BY <1>1, ValuesOfPossible DEF Relayable
<1>3. PartialSign(st, l, r.msg, r.tweaks) = Ok(s)
  BY <1>1, HolderAnswers
<1>4. /\ a \in Scalar /\ LagrangeCoefficient(IdsOf(l), q) = Ok(a)
      /\ LagrangeCoefficient(IdsOf(ById(l)), q) = Ok(a)
  BY CoefficientOfListed
<1>5. /\ k.k1 \in Scalar /\ k.k2 \in Scalar
      /\ SecShare[q] \in Scalar /\ MulG(SecShare[q]) = Key.pubshares[q]
  BY SecretNonceType, KeyAssumption, HonestAssumption
<1>6. st.secnonce = k /\ st.secshare = SecShare[q]
  BY DEF KeyMaterial
<1> HIDE DEF w, a, st
<1>7. s \in Scalar
  BY <1>2, <1>4, <1>5, <1>6, AnswerIsExpected
<1> HIDE DEF s
<1>8. PartialVerify(s, q, PubNonce(k), Key.pubshares[q], w.val).ok
  <2>1. LagrangeCoefficient(w.val.ids, q) = Ok(a)
    BY <1>1, <1>4
  <2>2. PartialVerify(s, q, PubNonce(st.secnonce), MulG(st.secshare), w.val).ok
           <=> /\ ~IsIdentity(PubNonce(st.secnonce))
               /\ s = PartialSignature(st, a, w.val)
    BY <1>2, <1>4, <1>5, <1>6, <1>7, <2>1, VerifiedIsAnswer
  <2> QED
    BY <1>5, <1>6, <2>2 DEF s
<1>9. PartialVerify(s, q, PubNonce(k), Key.pubshares[q], v.val)
         = PartialVerify(s, q, PubNonce(k), Key.pubshares[q], w.val)
  <2>1. LagrangeCoefficient(v.val.ids, q) = LagrangeCoefficient(w.val.ids, q)
    BY <1>1, <1>4
  <2> QED
    BY <1>1, <2>1, VerifySame
<1> QED
  BY <1>3, <1>8, <1>9, OkIsNoError DEF st

(***************************************************************************)
(* What a faulty signer answers is a scalar, too.                          *)
(***************************************************************************)
LEMMA FaultyPsigIsScalar ==
    ASSUME HashesDoNotFail, NEW q \in Parties, NEW l, Relayable(l), NEW ask \in Requests,
           NEW m \in FaultyPsigs(q, ById(l), {ask})
    PROVE  m.psig \in Scalar
<1> DEFINE L == ById(l)
           answers == {PartialSign(KeyMaterial(q, k), L, r.msg, r.tweaks) :
                          k \in FaultyNonces, r \in {ask}}
<1>1. PICK a \in answers, wrong \in {0, 1} :
          a.ok /\ m = [id |-> q, psig |-> (a.val + wrong) % Order]
  <2>1. m \in {[id |-> q, psig |-> (a.val + wrong) % Order] :
                  a \in {b \in answers : b.ok}, wrong \in {0, 1}}
    BY DEF FaultyPsigs
  <2> HIDE DEF answers
  <2>2. \E a \in {b \in answers : b.ok}, wrong \in {0, 1} :
           m = [id |-> q, psig |-> (a.val + wrong) % Order]
    BY <2>1
  <2> QED
    BY <2>2
<1>2. PICK k \in FaultyNonces : a = PartialSign(KeyMaterial(q, k), L, ask.msg, ask.tweaks)
  OBVIOUS
<1> DEFINE st == KeyMaterial(q, k)
           v  == SessionValues(Key.threshold_pubkey, L, ask.msg, ask.tweaks)
           c  == LagrangeCoefficient(IdsOf(L), q)
<1>3. /\ st.id = q /\ st.threshold_pubkey = Key.threshold_pubkey /\ st.secnonce = k
      /\ st.secshare = SecShare[q]
  BY DEF KeyMaterial
<1> HIDE DEF st, answers
<1>4. c.ok /\ PartialSign(st, L, ask.msg, ask.tweaks) = Ok(PartialSignature(st, c.val, v.val))
  <2>1. PartialSign(st, L, ask.msg, ask.tweaks).ok
    BY <1>1, <1>2 DEF st
  <2> QED
    BY <1>3, <2>1, PartialSignOk
<1>5. v.val.b \in Scalar /\ v.val.e \in Scalar /\ v.val.ctx.gacc \in Sign
  BY ValuesById
<1>6. c.val \in Scalar
  <2>1. q \in Range(IdsOf(L))
    BY <1>4, ErrorIsNotOk DEF LagrangeCoefficient
  <2>2. Range(IdsOf(L)) = Range(IdsOf(l))
    BY RelayableFacts, Zenon
  <2> QED
    BY <2>1, <2>2, CoefficientOfListed, OkIsNoError
<1>7. k.k1 \in Scalar /\ k.k2 \in Scalar /\ SecShare[q] \in Scalar
  BY InputsAssumption, KeyAssumption
<1> HIDE DEF v, c
<1>8. PartialSignature(st, c.val, v.val) \in Scalar
  BY <1>3, <1>5, <1>6, <1>7, AnswerIsExpected
<1>9. a.val \in Int /\ wrong \in Int
  BY <1>2, <1>4, <1>8, OkIsNoError, ScalarIsInt DEF st
<1> QED
  BY <1>1, <1>9, ModType

LEMMA PsigOf ==
    ASSUME HashesDoNotFail, CallersAgree, SessionInv, kst.phase = "Step1",
           NEW l, Relayable(l), kst.st.pubnonces = ById(l),
           NEW q \in Ids \cap Parties, NEW m \in PsigsFrom[q]
    PROVE  /\ m.psig \in Int
           /\ q \in Honest => \E x \in psigs[q] : m.psig = x.psig
           /\ q \notin Honest => m \in FaultyPsigs(q, ById(l), {request})
<1>1. request \in Requests
  BY DEF SessionInv, SignTypeOK
<1>2. CASE q \in Honest
  <2>1. PICK x \in psigs[q] : m.psig = x.psig
    BY <1>2, ResponseIsFrom
  <2>2. PICK k \in SecretNonces(q) : AnswersTo(q, x, k)
    BY <1>2 DEF SessionInv, AnsweredInv
  <2>3. PICK r \in Requests : x.msg = r.msg /\ x.tweaks = r.tweaks
    BY <1>2 DEF SessionInv, AnsweredInv
  <2>4. Relayable(x.list)
    BY <1>2 DEF SessionInv, AnsweredInv, RelayedInv
  <2>5. /\ PartialSign(KeyMaterial(q, k), x.list, r.msg, r.tweaks).ok
        /\ PartialSign(KeyMaterial(q, k), x.list, r.msg, r.tweaks).val = x.psig
    BY <2>2, <2>3 DEF AnswersTo
  <2>6. x.psig \in Int
    BY <1>2, <2>4, <2>5, AnswerIsScalar, ScalarIsInt
  <2> QED
    BY <1>2, <2>1, <2>6
<1>3. CASE q \notin Honest
  <2>1. m \in FaultyPsigs(q, ById(l), {request})
    BY <1>3 DEF PsigsFrom, Faulty, Asked
  <2>2. m.psig \in Int
    BY <1>1, <2>1, FaultyPsigIsScalar, ScalarIsInt
  <2> QED
    BY <1>3, <2>1, <2>2
<1> QED
  BY <1>2, <1>3

(***************************************************************************)
(* One response for each member of the list, in the same order.            *)
(***************************************************************************)
Matches(P, L, n) ==
    /\ DOMAIN P = 1 .. n
    /\ \A k \in 1 .. n : /\ P[k].id = L[k].id
                         /\ P[k].id \in Ids \cap Parties
                         /\ P[k] \in PsigsFrom[P[k].id]

LEMMA ResponsesMatch ==
    ASSUME GroupsCanSign, NEW l, Relayable(l),
           NEW group \in Groups, NEW list \in ListsOf(group, PsigsFrom),
           IdsOf(ById(list)) = IdsOf(ById(l))
    PROVE  /\ Matches(ById(list), ById(l), Len(l))
           /\ Len(list) = Len(ById(l))
<1> DEFINE n == Len(l)
           m == Len(list)
           L == ById(l)
           P == ById(list)
<1>1. /\ m \in Nat /\ IsList(list, m) /\ IsInjective(IdsOf(list))
      /\ \A k \in 1 .. m : /\ list[k].id \in Ids /\ list[k].id \in Parties
                           /\ list[k] \in PsigsFrom[list[k].id]
  BY GroupSigns, ResponseIsFrom
<1>2. n \in Nat /\ DOMAIN L = 1 .. n
  BY RelayableFacts, Zenon DEF IsNonceList, IsList
<1>0. IdsOf(P) = IdsOf(L)
  OBVIOUS
<1> HIDE DEF n, m, L, P
<1>3. IsList(P, m) /\ \A k \in 1 .. m : \E i \in 1 .. m : P[k] = list[i]
  <2>1. IsList(P, m)
    BY <1>1, ByIdPermutes DEF P
  <2>2. PICK pi \in [1 .. m -> 1 .. m] : \A k \in 1 .. m : P[k] = list[pi[k]]
    BY <1>1, ByIdPermutes DEF P
  <2> QED
    BY <2>1, <2>2
<1>4. DOMAIN IdsOf(P) = 1 .. m /\ DOMAIN IdsOf(L) = 1 .. n /\ IdsOf(P) = IdsOf(L)
  BY <1>0, <1>2, <1>3 DEF IdsOf, IsList
<1>5. m = n
  <2>1. 1 .. m = 1 .. n
    BY <1>4
  <2>2. m \in Nat /\ n \in Nat
    BY <1>1, <1>2
  <2>3. m > 0 => m \in 1 .. m
    BY <2>2
  <2>4. n > 0 => n \in 1 .. n
    BY <2>2
  <2> QED
    BY <2>1, <2>2, <2>3, <2>4
<1>6. \A k \in 1 .. n : P[k].id = L[k].id
  BY <1>2, <1>3, <1>4, <1>5 DEF IdsOf, IsList
<1>7. \A k \in 1 .. n : /\ P[k].id \in Ids \cap Parties
                        /\ P[k] \in PsigsFrom[P[k].id]
  BY <1>1, <1>3, <1>5
<1>8. Len(L) = n
  <2> DEFINE S == {L[k] : k \in 1 .. n}
  <2>1. L = [k \in 1 .. n |-> L[k]]
    BY <1>2 DEF L, ById
  <2>2. \A k \in 1 .. n : L[k] \in S
    OBVIOUS
  <2> HIDE DEF S
  <2>3. L \in [1 .. n -> S]
    BY <2>1, <2>2
  <2> QED
    BY <1>2, <2>3
<1> QED
  BY <1>3, <1>5, <1>6, <1>7, <1>8 DEF Matches, IsList, P, L, m, n

(***************************************************************************)
(* A response that does not pass is the fault of its sender.               *)
(***************************************************************************)
LEMMA CheckNames ==
    ASSUME NEW psig, NEW id, NEW pubnonce, NEW pubshare, NEW v,
           LagrangeCoefficient(v.ids, id).ok,
           NEW c, c = PartialVerify(psig, id, pubnonce, pubshare, v), ~c.ok
    PROVE  c.err = Naming("InvalidContribution", id)
<1> DEFINE sum  == (pubnonce.R1 + Times(pubnonce.R2, v.b)) % Order
           Re_s == IF HasEvenY(v.R) THEN sum ELSE Neg(sum)
           a    == LagrangeCoefficient(v.ids, id)
           g    == Times(EvenSign(v.ctx), v.ctx.gacc)
           sound == MulG(psig) = (Re_s + Times(Times(v.e, a.val), Times(g, pubshare))) % Order
<1>1. c = IF IsIdentity(pubnonce) THEN Err(Naming("InvalidContribution", id))
          ELSE IF ~a.ok THEN a
          ELSE IF ~sound THEN Err(Naming("InvalidContribution", id))
          ELSE Ok(id)
  BY Zenon DEF PartialVerify
<1>0. ~c.ok /\ a.ok
  OBVIOUS
<1> HIDE DEF sound, a
<1>2. c = Err(Naming("InvalidContribution", id))
  BY <1>0, <1>1, OkIsNoError
<1> QED
  BY <1>2 DEF Err

LEMMA HonestPasses ==
    ASSUME HashesDoNotFail, SessionInv, BlameInv,
           NEW l \in relayed, NEW k \in 1 .. Len(l),
           NEW m \in PsigsFrom[ById(l)[k].id], ById(l)[k].id \in Honest, ById(l)[k].id \in Ids,
           NEW v, v = SessionValues(Key.threshold_pubkey, ById(l), request.msg, request.tweaks)
    PROVE  PartialVerify(m.psig, ById(l)[k].id, ById(l)[k].nonce,
                         Key.pubshares[ById(l)[k].id], v.val).ok
<1> DEFINE L == ById(l)
           n == Len(l)
           q == L[k].id
<1>1. Relayable(l) /\ request \in Requests
  BY DEF SessionInv, RelayedInv, SignTypeOK
<1>2. /\ n \in Nat /\ IsNonceList(l, n) /\ IsNonceList(L, n)
      /\ \A i \in 1 .. n : \E j \in 1 .. n : L[i] = l[j]
  BY <1>1, RelayableFacts, Zenon
<1>3. PICK x \in psigs[q] : m.psig = x.psig
  BY ResponseIsFrom
<1>4. /\ x.list = l /\ x.msg = request.msg /\ x.tweaks = request.tweaks
  <2>1. x.list \in relayed
    BY DEF SessionInv, AnsweredInv
  <2> QED
    BY <2>1 DEF BlameInv, OneListInv, AgreedInv
<1>5. PICK secret \in SecretNonces(q) : AnswersTo(q, x, secret)
  BY DEF SessionInv, AnsweredInv
<1>6. L[k].nonce = PubNonce(secret)
  <2> HIDE DEF L
  <2>1. PICK j \in 1 .. n : L[k] = l[j]
    BY <1>2 DEF n
  <2>2. j \in DOMAIN l
    BY <1>2 DEF IsNonceList, IsList
  <2>3. PICK m1 \in nonces[q] : l[j].nonce = m1.nonce
    <3>1. l[j].id = q /\ q \in Honest
      BY <2>1 DEF L
    <3> QED
      BY <2>2, <3>1 DEF BlameInv, OneListInv
  <2>4. q \in Honest
    BY DEF L
  <2>5. PICK m2 \in nonces[q] : m2.nonce = x.pubnonce
    BY <2>4 DEF SessionInv, NoncesInv
  <2>6. m1 = m2
    BY <2>3, <2>4, <2>5 DEF BlameInv, OneNonceInv
  <2> QED
    BY <1>5, <2>1, <2>3, <2>5, <2>6 DEF AnswersTo
<1>7. ~IsIdentity(PubNonce(secret))
  <2>1. PICK m2 \in nonces[q] : m2.nonce = x.pubnonce
    BY DEF SessionInv, NoncesInv
  <2> QED
    BY <1>5, <2>1, SentIsNoIdentity DEF SessionInv, AnswersTo
<1>8. q \in Range(IdsOf(l))
  <2>1. PICK j \in 1 .. n : L[k] = l[j]
    BY <1>2
  <2> QED
    BY <1>2, <2>1 DEF IsNonceList, IsList, Range, IdsOf
<1>9. PartialSign(KeyMaterial(q, secret), l, request.msg, request.tweaks).val = x.psig
  BY <1>4, <1>5 DEF AnswersTo
<1>10. q \in Honest
  OBVIOUS
<1> HIDE DEF L, q
<1>11. PartialVerify(x.psig, q, PubNonce(secret), Key.pubshares[q], v.val).ok
  BY <1>1, <1>5, <1>7, <1>8, <1>9, <1>10, AnswerPasses
<1> QED
  BY <1>3, <1>6, <1>11 DEF q, L

-----------------------------------------------------------------------------
(* The signature. *)

(***************************************************************************)
(* The public shares and the coefficients of the members of a list.        *)
(***************************************************************************)
SharesOf(list) == [k \in DOMAIN list |-> Key.pubshares[list[k].id]]

CoefficientsOf(list) == [k \in DOMAIN list |-> LagrangeInternal(IdsOf(list), list[k].id)]

LEMMA MembersPermuted ==
    ASSUME NEW l, Relayable(l)
    PROVE  \E pi \in [1 .. Len(l) -> 1 .. Len(l)] :
              /\ \A i, j \in 1 .. Len(l) : pi[i] = pi[j] => i = j
              /\ \A k \in 1 .. Len(l) : ById(l)[k] = l[pi[k]]
<1> DEFINE n == Len(l)
<1>1. n \in Nat /\ IsNonceList(l, n) /\ IsInjective(IdsOf(l))
  BY RelayableFacts, Zenon
<1>2. IsList(l, n)
  BY <1>1 DEF IsNonceList
<1> HIDE DEF n
<1>3. \E pi \in [1 .. n -> 1 .. n] :
         /\ \A i, j \in 1 .. n : pi[i] = pi[j] => i = j
         /\ \A k \in 1 .. n : ById(l)[k] = l[pi[k]]
  BY <1>1, <1>2, ByIdPermutes
<1> QED
  BY <1>3 DEF n

(***************************************************************************)
(* The public shares of the members interpolate to the key.                *)
(***************************************************************************)
LEMMA SharesAddUp ==
    ASSUME NEW l, Relayable(l)
    PROVE  LET n == Len(l)
               L == ById(l)
               Y == SharesOf(L)
               a == CoefficientsOf(L)
           IN  /\ Y \in [1 .. n -> Int] /\ a \in [1 .. n -> Int]
               /\ \A k \in 1 .. n : LagrangeCoefficient(IdsOf(L), L[k].id) = Ok(a[k])
               /\ \A k \in 1 .. n : Y[k] = Key.pubshares[L[k].id]
               /\ SumMod([k \in 1 .. n |-> (Y[k] * a[k]) % Order]) = Key.threshold_pubkey
<1> DEFINE n == Len(l)
           L == ById(l)
           Y == SharesOf(L)
           a == CoefficientsOf(L)
           ids == IdsOf(l)
           shares == [k \in DOMAIN ids |-> Key.pubshares[ids[k]]]
           F == [k \in DOMAIN ids |-> (shares[k] * LagrangeInternal(ids, ids[k])) % Order]
           Part(q) == (Key.pubshares[q] * LagrangeInternal(ids, q)) % Order
           f == [k \in 1 .. n |-> Part(l[k].id)]
           z == [k \in 1 .. n |-> (Y[k] * a[k]) % Order]
<1>1. /\ n \in Nat /\ IsNonceList(l, n) /\ IsInjective(ids)
      /\ Range(IdsOf(L)) = Range(ids)
      /\ \A q \in Range(ids) : q \in Parties
  BY RelayableFacts, Zenon
<1>0. DOMAIN L = 1 .. n
  BY RelayableFacts, Zenon DEF IsNonceList, IsList
<1> HIDE DEF n, Y, a
<1>2. IsList(l, n) /\ IsInjective(IdsOf(l)) /\ n \in Nat /\ L = ById(l)
  BY <1>1 DEF IsNonceList
<1> HIDE DEF ids
<1>3. PICK pi \in [1 .. n -> 1 .. n] :
         /\ \A i, j \in 1 .. n : pi[i] = pi[j] => i = j
         /\ \A k \in 1 .. n : L[k] = l[pi[k]]
  BY MembersPermuted, Zenon DEF n
<1> HIDE DEF L
<1>4. DOMAIN ids = 1 .. n /\ \A k \in 1 .. n : ids[k] = l[k].id /\ l[k].id \in Range(ids)
  BY <1>2 DEF IsList, IdsOf, Range, ids
<1> USE DEF ids
<1>5. ASSUME NEW q \in Range(ids)
      PROVE  /\ Key.pubshares[q] \in Int /\ LagrangeInternal(ids, q) \in Int
             /\ LagrangeCoefficient(IdsOf(L), q) = Ok(LagrangeInternal(ids, q))
             /\ Part(q) \in Int
  <2>1. /\ LagrangeInternal(ids, q) \in Int
        /\ LagrangeCoefficient(IdsOf(L), q) = Ok(LagrangeInternal(ids, q))
    BY CoefficientOfListed, ScalarIsInt DEF L
  <2>2. Key.pubshares[q] \in Int
    <3>1. q \in 1 .. Len(Key.pubshares) /\ Key.pubshares \in Seq(Scalar)
      BY <1>1, KeyAssumption
    <3>2. Key.pubshares[q] \in Scalar
      <4> HIDE DEF Scalar
      <4> QED
        BY <3>1
    <3> QED
      BY <3>2, ScalarIsInt
  <2> DEFINE x == Key.pubshares[q]
             y == LagrangeInternal(ids, q)
  <2>3. x * y \in Int
    <3> HIDE DEF x, y
    <3>1. x \in Int /\ y \in Int
      BY <2>1, <2>2 DEF x, y
    <3> QED
      BY <3>1
  <2>4. (x * y) % Order \in Int
    <3> DEFINE p == x * y
    <3> HIDE DEF p
    <3>1. p % Order \in Scalar
      BY <2>3, ModType DEF p
    <3> QED
      BY <3>1, ScalarIsInt DEF p
  <2> QED
    BY <2>1, <2>2, <2>4
<1>6. SumMod(F) = Key.threshold_pubkey
  <2>1. InterpolatePubkey(ids, shares) = Ok(Key.threshold_pubkey)
    BY ValidatedIds DEF Relayable, Validated
  <2>2. InterpolatePubkey(ids, shares) = Ok(SumMod(F))
    <3>1. Ok(Key.threshold_pubkey).ok
      BY OkIsNoError
    <3>2. InterpolatePubkey(ids, shares)
             = IF \/ Len(ids) # Len(shares)
                  \/ ~IsInjective(ids)
                  \/ SumMod(F) = Identity
               THEN Err(Error("Value"))
               ELSE Ok(SumMod(F))
      BY Zenon DEF InterpolatePubkey
    <3> HIDE DEF F, shares, ids
    <3> QED
      BY <2>1, <3>1, <3>2, ErrorIsNotOk
  <2> HIDE DEF F, shares, ids
  <2> QED
    BY <2>1, <2>2, OkIsNoError
<1> HIDE DEF Part
<1>7. F = f
  <2>1. ASSUME NEW k \in 1 .. n PROVE F[k] = f[k]
    BY <1>4 DEF Part
  <2>2. F = [k \in 1 .. n |-> F[k]] /\ f = [k \in 1 .. n |-> f[k]]
    BY <1>4
  <2> HIDE DEF F, f
  <2> QED
    BY <2>1, <2>2
<1>8. f \in [1 .. n -> Int]
  BY <1>4, <1>5
<1>9. ASSUME NEW k \in 1 .. n
      PROVE  /\ L[k].id \in Range(ids) /\ z[k] = f[pi[k]] /\ Y[k] = Key.pubshares[L[k].id]
             /\ a[k] = LagrangeInternal(ids, L[k].id)
  <2>1. L[k].id = l[pi[k]].id /\ pi[k] \in 1 .. n
    BY <1>3
  <2>2. Y[k] = Key.pubshares[L[k].id] /\ a[k] = LagrangeInternal(ids, L[k].id)
    <3>1. LagrangeInternal(IdsOf(L), L[k].id) = LagrangeInternal(ids, L[k].id)
      BY <1>1, LagrangeIgnoresOrder
    <3> QED
      BY <1>0, <3>1 DEF Y, a, SharesOf, CoefficientsOf
  <2>3. z[k] = Part(L[k].id)
    BY <2>2 DEF Part
  <2> QED
    BY <1>4, <2>1, <2>2, <2>3
<1>10. SumMod(z) = SumMod(f)
  <2>1. z = [k \in 1 .. n |-> f[pi[k]]]
    BY <1>9
  <2>2. \A i, j \in 1 .. n : pi[i] = pi[j] => i = j
    BY <1>3
  <2>3. n \in Nat /\ pi \in [1 .. n -> 1 .. n]
    BY <1>1
  <2> HIDE DEF f, z
  <2>4. SumMod([k \in 1 .. n |-> f[pi[k]]]) = SumMod(f)
    BY ONLY <1>8, <2>2, <2>3, SumModPermute, Zenon
  <2> QED
    BY <2>1, <2>4
<1>11. Y \in [1 .. n -> Int] /\ a \in [1 .. n -> Int]
  <2>1. \A k \in 1 .. n : Y[k] \in Int /\ a[k] \in Int
    BY <1>5, <1>9
  <2>2. Y = [k \in 1 .. n |-> Y[k]]
    BY <1>0 DEF Y, SharesOf
  <2>3. a = [k \in 1 .. n |-> a[k]]
    BY <1>0 DEF a, CoefficientsOf
  <2>4. Y \in [1 .. n -> Int]
    BY <2>1, <2>2
  <2>5. a \in [1 .. n -> Int]
    BY <2>1, <2>3
  <2> QED
    BY <2>4, <2>5
<1>12. \A k \in 1 .. n : LagrangeCoefficient(IdsOf(L), L[k].id) = Ok(a[k])
  BY <1>5, <1>9, ZenonT(60)
<1> HIDE DEF F, f, ids
<1>13. SumMod(z) = Key.threshold_pubkey
  BY <1>6, <1>7, <1>10
<1> QED
  BY <1>9, <1>11, <1>12, <1>13 DEF n, L, Y, a

(***************************************************************************)
(* Partial signatures that all pass make a signature that verifies, unless *)
(* the nonces cancel.                                                      *)
(***************************************************************************)
LEMMA PassedMakeSignature ==
    ASSUME HashesDoNotFail, NEW l, Relayable(l), NEW r \in Requests,
           NEW n, n = Len(l), NEW L, L = ById(l),
           NEW v, v = SessionValues(Key.threshold_pubkey, L, r.msg, r.tweaks),
           ~NoncesCancel(L, v.val), NEW s \in [1 .. n -> Int],
           \A k \in 1 .. n :
               PartialVerify(s[k], L[k].id, L[k].nonce, Key.pubshares[L[k].id], v.val).ok
    PROVE  VerifySignature(Key.threshold_pubkey, Combine(s, v.val), r.msg, r.tweaks).ok
<1> DEFINE Y == SharesOf(L)
           a == CoefficientsOf(L)
           w == v.val
           F == FinalNonce(L, w)
<1>1. /\ n \in Nat /\ IsNonceList(L, n)
  BY RelayableFacts, Zenon
<1>2. /\ v.ok /\ w.ids = IdsOf(L) /\ w.b \in Scalar /\ w.e \in Scalar
      /\ Tracks(Key.threshold_pubkey, w.ctx)
  BY ValuesById
<1> DEFINE ctx == TweakApplyAll(TweakContext(Key.threshold_pubkey), r.tweaks)
<1>3. /\ ctx.ok /\ w.ctx = ctx.val
      /\ w.R = IF F = Identity THEN MulG(1) ELSE F
      /\ w.e = ChallengeHash(XOnly(w.R), XOnly(w.ctx.q), r.msg)
  <2> DEFINE agg == AggrPubnonces(NoncesOf(L))
  <2>1. /\ ctx.ok /\ w.ctx = ctx.val
        /\ w.R = LET R == (agg.R1 + Times(agg.R2, w.b)) % Order
                 IN  IF R = Identity THEN MulG(1) ELSE R
        /\ w.e = ChallengeHash(XOnly(w.R), XOnly(ctx.val.q), r.msg)
    BY <1>2, SessionValuesOk
  <2>2. w.R = IF F = Identity THEN MulG(1) ELSE F
    BY <2>1 DEF FinalNonce
  <2> HIDE DEF ctx, w
  <2> QED
    BY <2>1, <2>2
<1>4. F # Identity
  BY DEF NoncesCancel, FinalNonce
<1>5. F \in Scalar
  <2>1. NoncePart(L, w) \in [1 .. n -> Scalar] /\ SumMod(NoncePart(L, w)) = F
    BY <1>1, <1>2, NoncePartsAddUp
  <2>2. NoncePart(L, w) \in [1 .. n -> Int]
    <3> DEFINE N == NoncePart(L, w)
    <3> HIDE DEF N
    <3>1. N \in [1 .. n -> Scalar]
      BY <2>1 DEF N
    <3>2. N \in [1 .. n -> Int]
      BY <3>1, ScalarIsInt
    <3> QED
      BY <3>2 DEF N
  <2> HIDE DEF F
  <2> QED
    BY <1>1, <2>1, <2>2, SumModType
<1>6. w.R = F /\ SigningPubkey(Key.threshold_pubkey, r.tweaks) = Ok(w.ctx.q)
  <2>1. SigningPubkey(Key.threshold_pubkey, r.tweaks)
           = IF ctx.ok THEN Ok(ctx.val.q) ELSE ctx
    BY Zenon DEF SigningPubkey
  <2> HIDE DEF ctx, w, F
  <2> QED
    BY <1>3, <1>4, <2>1
<1>7. /\ Y \in [1 .. n -> Int] /\ a \in [1 .. n -> Int]
      /\ \A k \in 1 .. n : LagrangeCoefficient(IdsOf(L), L[k].id) = Ok(a[k])
      /\ SumMod([k \in 1 .. n |-> (Y[k] * a[k]) % Order]) = Key.threshold_pubkey
  BY SharesAddUp
<1>8. \A k \in 1 .. n : Y[k] = Key.pubshares[L[k].id]
  BY SharesAddUp
<1>9. Key.threshold_pubkey \in Scalar
  BY KeyAssumption
<1> HIDE DEF Y, a, w, F
<1>10. \A k \in 1 .. n : PartialVerify(s[k], L[k].id, L[k].nonce, Y[k], w).ok
  BY <1>8 DEF w
<1>11. \A k \in 1 .. n : LagrangeCoefficient(w.ids, L[k].id) = Ok(a[k])
  BY <1>2, <1>7
<1>12. Equiv(SumMod(s), EvenNonceSign(w.R) * FinalNonce(L, w)
                           + (w.e * (EvenSign(w.ctx) * w.ctx.gacc)) * Key.threshold_pubkey)
  <2>1. /\ n \in Nat /\ IsNonceList(L, n) /\ Key.threshold_pubkey \in Scalar
        /\ w.b \in Scalar /\ w.e \in Scalar /\ Tracks(Key.threshold_pubkey, w.ctx)
        /\ s \in [1 .. n -> Int] /\ Y \in [1 .. n -> Int] /\ a \in [1 .. n -> Int]
    BY <1>1, <1>2, <1>7, <1>9
  <2>2. SumMod([k \in 1 .. n |-> (Y[k] * a[k]) % Order]) = Key.threshold_pubkey
    BY <1>7
  <2> QED
    BY ONLY <1>10, <1>11, <2>1, <2>2, VerifiedAddUp
<1>13. Equiv(SumMod(s), EvenNonceSign(w.R) * w.R
                           + (w.e * (EvenSign(w.ctx) * w.ctx.gacc)) * Key.threshold_pubkey)
  BY <1>6, <1>12 DEF F
<1>14. SumMod(s) \in Scalar
  BY <1>1, SumModType
<1>15. w.e = ChallengeHash(XOnly(w.R), XOnly(w.ctx.q), r.msg)
  BY <1>3
<1>16. VerifySignature(Key.threshold_pubkey, Combine(s, w), r.msg, r.tweaks).ok
  BY <1>2, <1>4, <1>5, <1>6, <1>9, <1>13, <1>14, <1>15, CombinedPasses
<1> QED
  BY <1>16 DEF w

(***************************************************************************)
(* A response that fails verification was sent by a faulty signer.         *)
(***************************************************************************)
LEMMA BadIsFaulty ==
    ASSUME OneAgreedSession, HashesDoNotFail, SessionInv, BlameInv,
           NEW l \in relayed, NEW n, n = Len(l), NEW L, L = ById(l), NEW P, Matches(P, L, n),
           NEW v, v = SessionValues(Key.threshold_pubkey, L, request.msg, request.tweaks),
           NEW k \in 1 .. n, NEW c,
           c = PartialVerify(P[k].psig, P[k].id, L[k].nonce, Key.pubshares[P[k].id], v.val),
           ~c.ok
    PROVE  P[k].id \in Faulty /\ c.err = Naming("InvalidContribution", P[k].id)
<1>1. Relayable(l) /\ request \in Requests
  BY DEF SessionInv, RelayedInv, SignTypeOK
<1>2. P[k].id = L[k].id /\ P[k].id \in Ids /\ P[k].id \in Parties /\ P[k] \in PsigsFrom[P[k].id]
  BY DEF Matches
<1>3. v.val.ids = IdsOf(L)
  BY <1>1, ValuesById
<1>4. L[k].id \in Range(IdsOf(l))
  <2>1. /\ Range(IdsOf(ById(l))) = Range(IdsOf(l))
        /\ Len(l) \in Nat /\ IsNonceList(ById(l), Len(l))
    BY <1>1, RelayableFacts, Zenon
  <2>2. Range(IdsOf(L)) = Range(IdsOf(l)) /\ IsNonceList(L, n)
    BY <2>1
  <2> QED
    BY <2>2 DEF IsNonceList, IsList, Range, IdsOf
<1>5. LagrangeCoefficient(v.val.ids, P[k].id).ok
  <2>1. LagrangeCoefficient(IdsOf(L), L[k].id).ok
    BY <1>1, <1>4, CoefficientOfListed, OkIsNoError
  <2> QED
    BY <1>2, <1>3, <2>1
<1>6. c.err = Naming("InvalidContribution", P[k].id)
  BY <1>5, CheckNames
<1>7. ASSUME P[k].id \in Honest PROVE FALSE
  <2>1. PartialVerify(P[k].psig, L[k].id, L[k].nonce, Key.pubshares[L[k].id], v.val).ok
    BY <1>2, <1>7, HonestPasses
  <2> QED
    BY <1>2, <2>1
<1> QED
  BY <1>2, <1>6, <1>7 DEF Faulty

(***************************************************************************)
(* Where all responses pass, the nonces do not cancel: a faulty signer     *)
(* would have had to answer for a nonce whose secret it does not know.     *)
(***************************************************************************)
LEMMA PassedDoNotCancel ==
    ASSUME OneAgreedSession, HashesDoNotFail, CancelledUnanswered, SessionInv,
           kst.phase = "Step1", NEW l, Relayable(l), kst.st.pubnonces = ById(l),
           NEW n, n = Len(l), NEW L, L = ById(l), NEW P, Matches(P, L, n),
           NEW v, v = SessionValues(Key.threshold_pubkey, L, request.msg, request.tweaks),
           \A k \in 1 .. n :
               PartialVerify(P[k].psig, L[k].id, L[k].nonce, Key.pubshares[L[k].id], v.val).ok
    PROVE  ~NoncesCancel(L, v.val)
<1> SUFFICES ASSUME NoncesCancel(L, v.val) PROVE FALSE
  OBVIOUS
<1>1. request \in Requests /\ l \in PossibleLists
  BY DEF SessionInv, SignTypeOK, Relayable
<1>2. \E k \in DOMAIN L : Unanswered(L[k], L, request, v.val)
  BY <1>1 DEF CancelledUnanswered
<1>3. PICK k \in DOMAIN L : Unanswered(L[k], L, request, v.val)
  BY <1>2
<1>4. DOMAIN L = 1 .. n
  <2>1. IsNonceList(ById(l), Len(l))
    BY RelayableFacts, Zenon
  <2> QED
    BY <2>1 DEF IsNonceList, IsList
<1>5. /\ L[k].id \in Faulty
      /\ \A m \in FaultyPsigs(L[k].id, L, {request}) :
            ~PartialVerify(m.psig, L[k].id, L[k].nonce, Key.pubshares[L[k].id], v.val).ok
  BY <1>3 DEF Unanswered
<1>6. P[k].id = L[k].id /\ P[k].id \in Ids \cap Parties /\ P[k] \in PsigsFrom[P[k].id]
  BY <1>4 DEF Matches
<1>7. P[k] \in FaultyPsigs(L[k].id, L, {request})
  <2>1. P[k].id \notin Honest
    BY <1>5, <1>6 DEF Faulty
  <2>2. P[k] \in FaultyPsigs(P[k].id, ById(l), {request})
    BY <1>6, <2>1, PsigOf DEF OneAgreedSession
  <2> QED
    BY <1>6, <2>2
<1> QED
  BY <1>4, <1>5, <1>7

(***************************************************************************)
(* Round 2 makes a signature or names a faulty signer.                     *)
(***************************************************************************)
LEMMA ResponsesJudged ==
    ASSUME OneAgreedSession, GroupsCanSign, HashesDoNotFail, CancelledUnanswered,
           SessionInv, BlameInv, kst.phase = "Step1",
           NEW l \in relayed, kst.st.pubnonces = ById(l),
           kst.st.pubshares = Key.pubshares, kst.st.threshold_pubkey = Key.threshold_pubkey,
           NEW group \in Groups, NEW list \in ListsOf(group, PsigsFrom),
           IdsOf(ById(list)) = IdsOf(ById(l)),
           NEW res, res = SignCoordinatorStep1Next(kst.st, list, request.msg, request.tweaks)
    PROVE  \/ res.ok
           \/ ~res.ok /\ \E i \in Faulty : res.err = Naming("InvalidContribution", i)
<1> DEFINE n == Len(l)
           L == ById(l)
           P == ById(list)
           v == SessionValues(Key.threshold_pubkey, L, request.msg, request.tweaks)
           c(k) == PartialVerify(P[k].psig, P[k].id, L[k].nonce, Key.pubshares[P[k].id], v.val)
           checks == [k \in DOMAIN P |->
                         PartialVerify(P[k].psig, P[k].id, kst.st.pubnonces[k].nonce,
                                       kst.st.pubshares[P[k].id], v.val)]
           bad == {k \in DOMAIN checks : ~checks[k].ok}
           s   == [k \in DOMAIN P |-> P[k].psig]
           out == Combine(s, v.val)
<1>1. Relayable(l) /\ request \in Requests
  BY DEF SessionInv, RelayedInv, SignTypeOK
<1>2. Matches(P, L, n) /\ Len(list) = Len(L) /\ IdsOf(P) = IdsOf(L)
  BY <1>1, ResponsesMatch
<1>3. v.ok
  BY <1>1, ValuesById
<1>4. res = IF bad # {} THEN Err(checks[Min(bad)].err)
            ELSE Checked(Key.threshold_pubkey, out, request.msg, request.tweaks)
  <2>1. kst.st.pubnonces = L
    OBVIOUS
  <2>2. res = VerifiedAndCombined(kst.st, P, v.val, request.msg, request.tweaks)
    <3> HIDE DEF n, checks, bad, s, out
    <3>1. res = LET w == SessionValues(kst.st.threshold_pubkey, kst.st.pubnonces,
                                       request.msg, request.tweaks)
                IN  IF \/ Len(list) # Len(kst.st.pubnonces)
                       \/ IdsOf(P) # IdsOf(kst.st.pubnonces)
                    THEN Err(Error("Value"))
                    ELSE IF ~w.ok THEN w
                    ELSE VerifiedAndCombined(kst.st, P, w.val, request.msg, request.tweaks)
      BY Zenon DEF SignCoordinatorStep1Next
    <3>2. SessionValues(kst.st.threshold_pubkey, kst.st.pubnonces,
                        request.msg, request.tweaks) = v
      OBVIOUS
    <3> HIDE DEF L, P, v
    <3> QED
      BY <1>2, <1>3, <2>1, <3>1, <3>2
  <2> HIDE DEF n, L, P, v
  <2> QED
    BY <2>2, Zenon DEF VerifiedAndCombined
<1>5. n \in Nat /\ DOMAIN P = 1 .. n /\ DOMAIN checks = 1 .. n
  BY <1>1, <1>2, RelayableFacts DEF Matches
<1>6. \A k \in 1 .. n : checks[k] = c(k)
  BY <1>5
<1> HIDE DEF n, L, P, v, s
<1>7. CASE bad # {}
  <2> DEFINE k == Min(bad)
  <2>1. bad \in SUBSET Nat
    BY <1>5
  <2>2. k \in bad
    <3> HIDE DEF bad
    <3> QED
      BY <1>7, <2>1, MinIsMember
  <2> HIDE DEF k
  <2>3. k \in 1 .. n /\ ~c(k).ok
    BY <1>5, <1>6, <2>2
  <2>4. P[k].id \in Faulty /\ c(k).err = Naming("InvalidContribution", P[k].id)
    BY <1>2, <2>3, BadIsFaulty DEF n, L, v
  <2>5. res = Err(c(k).err)
    <3> HIDE DEF bad, checks
    <3> QED
      BY <1>4, <1>6, <1>7, <2>3 DEF k
  <2> QED
    BY <2>4, <2>5 DEF Err
<1>8. CASE bad = {}
  <2>1. \A k \in 1 .. n : c(k).ok
    BY <1>5, <1>6, <1>8
  <2>2. \A k \in 1 .. n : P[k].id = L[k].id
    BY <1>2 DEF Matches
  <2>3. \A k \in 1 .. n :
           PartialVerify(P[k].psig, L[k].id, L[k].nonce, Key.pubshares[L[k].id], v.val).ok
    BY <2>1, <2>2
  <2>4. ~NoncesCancel(L, v.val)
    BY <1>1, <1>2, <2>3, PassedDoNotCancel DEF n, L, v
  <2>5. s \in [1 .. n -> Int] /\ \A k \in 1 .. n : s[k] = P[k].psig
    <3>1. ASSUME NEW k \in 1 .. n PROVE P[k].psig \in Int
      <4>1. P[k].id \in Ids \cap Parties /\ P[k] \in PsigsFrom[P[k].id]
        BY <1>2 DEF Matches
      <4> QED
        BY <1>1, <4>1, PsigOf DEF OneAgreedSession
    <3> QED
      BY <1>5, <3>1 DEF s
  <2>6. \A k \in 1 .. n :
           PartialVerify(s[k], L[k].id, L[k].nonce, Key.pubshares[L[k].id], v.val).ok
    BY <2>3, <2>5
  <2>7. VerifySignature(Key.threshold_pubkey, Combine(s, v.val), request.msg,
                        request.tweaks).ok
    BY <1>1, <2>4, <2>5, <2>6, PassedMakeSignature DEF n, L, v
  <2>8. res = Checked(Key.threshold_pubkey, out, request.msg, request.tweaks)
    BY <1>4, <1>8
  <2>9. res = Finish(out)
    <3> HIDE DEF bad, checks
    <3> QED
      BY <2>7, <2>8, Zenon DEF Checked
  <2> QED
    BY <2>9 DEF Finish, Advance
<1> QED
  BY <1>7, <1>8

LEMMA Round2KeepsBlameInv ==
    ASSUME OneAgreedSession, GroupsCanSign, HashesDoNotFail, CancelledUnanswered,
           SessionInv, BlameInv, CoordinatorStep2
    PROVE  BlameInv'
<1>1. PICK group \in Groups, r \in Asked : \E list \in ListsOf(group, PsigsFrom) :
         LET call == Transition(kst, "Step1",
                                SignCoordinatorStep1Next(kst.st, list, r.msg, r.tweaks))
         IN  /\ ~AllowMisuse => IdsOf(ById(list)) = IdsOf(kst.st.pubnonces)
             /\ kst' = call.state
             /\ kerr' = ErrorOf(call.reply)
  BY DEF CoordinatorStep2
<1>2. PICK list \in ListsOf(group, PsigsFrom) :
         LET call == Transition(kst, "Step1",
                                SignCoordinatorStep1Next(kst.st, list, r.msg, r.tweaks))
         IN  /\ ~AllowMisuse => IdsOf(ById(list)) = IdsOf(kst.st.pubnonces)
             /\ kst' = call.state
             /\ kerr' = ErrorOf(call.reply)
  BY <1>1
<1>3. r = request
  BY DEF Asked, OneAgreedSession
<1> DEFINE res  == SignCoordinatorStep1Next(kst.st, list, request.msg, request.tweaks)
           call == Transition(kst, "Step1", res)
<1>4. /\ kst' = call.state /\ kerr' = ErrorOf(call.reply)
      /\ IdsOf(ById(list)) = IdsOf(kst.st.pubnonces)
  BY <1>2, <1>3 DEF OneAgreedSession
<1>5. UNCHANGED <<request, relayed, ksessions, svars>> /\ kst.phase = "Step1"
  BY DEF CoordinatorStep2, MayCall, OneAgreedSession
<1>6. PICK l \in relayed : kst.st.pubnonces = ById(l)
  BY <1>5 DEF SessionInv, RelayedInv
<1>7. kst.st.threshold_pubkey = Key.threshold_pubkey /\ kst.st.pubshares = Key.pubshares
  BY <1>5 DEF SessionInv, SignTypeOK, SignCoordinatorDriver, Absent, NewCoordinator, Driver
<1>8. \/ res.ok
      \/ ~res.ok /\ \E i \in Faulty : res.err = Naming("InvalidContribution", i)
  BY <1>4, <1>5, <1>6, <1>7, ResponsesJudged
<1>9. res.ok => res.phase = "Successful"
  <2>1. SignCoordinatorStep1Next(kst.st, list, request.msg, request.tweaks).ok
           => SignCoordinatorStep1Next(kst.st, list, request.msg,
                                       request.tweaks).phase = "Successful"
    BY CoordinatorStep1NextOk
  <2> QED
    BY <2>1
<1> HIDE DEF res
<1>10. \/ /\ call.reply = Ok(res.out) /\ call.state.phase = "Successful" /\ res.ok
       \/ /\ call.reply = Err(res.err) /\ call.state.phase = "Failed" /\ ~res.ok
  BY <1>5, <1>9 DEF Transition, IsActive, Failed, Driver
<1> HIDE DEF call
<1>11. kst'.phase \notin {"Absent", "Initial"}
  BY <1>4, <1>10
<1>12. \/ kerr' = NoError
       \/ \E i \in Faulty : kerr' = Naming("InvalidContribution", i)
  <2>1. CASE call.reply = Ok(res.out) /\ res.ok
    BY <1>4, <2>1, OkIsNoError DEF ErrorOf
  <2>2. CASE call.reply = Err(res.err) /\ ~res.ok
    <3>1. ~call.reply.ok /\ call.reply.err = res.err
      BY <2>2 DEF Err
    <3> QED
      BY <1>4, <1>8, <2>2, <3>1 DEF ErrorOf
  <2> QED
    BY <1>10, <2>1, <2>2
<1>13. ksessions # 0
  BY <1>5 DEF BlameInv, OneListInv
<1>14. OneListInv'
  BY <1>5, <1>11, <1>13 DEF BlameInv, OneListInv, svars
<1>15. OneNonceInv' /\ AgreedInv' /\ serr' = serr
  BY <1>5 DEF BlameInv, OneNonceInv, AgreedInv, svars
<1>16. AbortNamesFaulty'
  BY <1>12, <1>15 DEF BlameInv, AbortNamesFaulty, Naming
<1> QED
  BY <1>14, <1>15, <1>16 DEF BlameInv

LEMMA CreateKeepsBlameInv ==
    ASSUME OneAgreedSession, SessionInv, BlameInv, CoordinatorCreate PROVE BlameInv'
<1>1. /\ UNCHANGED <<request, relayed, svars>> /\ kst' = NewCoordinator
      /\ kerr' = NoError /\ ksessions' = ksessions + 1 /\ ksessions < 1
  BY DEF CoordinatorCreate, OneAgreedSession
<1>2. ksessions = 0 /\ ksessions' # 0
  BY <1>1 DEF SessionInv, SignTypeOK
<1>3. relayed' = {}
  BY <1>1, <1>2 DEF BlameInv, OneListInv
<1>4. OneListInv'
  BY <1>2, <1>3 DEF OneListInv
<1>5. OneNonceInv' /\ AgreedInv' /\ serr' = serr
  BY <1>1 DEF BlameInv, OneNonceInv, AgreedInv, svars
<1>6. AbortNamesFaulty'
  BY <1>1, <1>5 DEF BlameInv, AbortNamesFaulty
<1> QED
  BY <1>4, <1>5, <1>6 DEF BlameInv

LEMMA BlameInvStep ==
    ASSUME OneAgreedSession, GroupsCanSign, HashesDoNotFail, CancelledUnanswered
    PROVE  SessionInv /\ BlameInv /\ [Next]_vars => BlameInv'
<1> SUFFICES ASSUME SessionInv, BlameInv, [Next]_vars PROVE BlameInv'
  OBVIOUS
<1>1. ASSUME NEW p \in Honest, SignerCall(p) \/ SignerRestart(p) PROVE BlameInv'
  BY <1>1, SignersKeepBlameInv
<1>2. CASE CoordinatorCreate
  BY <1>2, CreateKeepsBlameInv
<1>3. CASE CoordinatorStep1
  BY <1>3, Round1KeepsBlameInv
<1>4. CASE CoordinatorStep2
  BY <1>4, Round2KeepsBlameInv
<1>5. CASE UNCHANGED vars
  BY <1>5 DEF vars, BlameInv, OneNonceInv, AgreedInv, OneListInv, AbortNamesFaulty
<1> QED
  BY <1>1, <1>2, <1>3, <1>4, <1>5 DEF Next, Progress, CoordinatorCall

(***************************************************************************)
(* AbortNamesFaulty for every key, request and choice of faulty parties:   *)
(* in a session of agreeing callers no signer's call fails, and the        *)
(* coordinator fails only with InvalidContribution and the id of a faulty  *)
(* signer, whatever the faulty signers send.                               *)
(***************************************************************************)
THEOREM OnlyFaultyAreNamed ==
    ASSUME OneAgreedSession, GroupsCanSign, HashesDoNotFail, CancelledUnanswered
    PROVE  Spec => []AbortNamesFaulty
<1>1. Init => BlameInv
  BY BlameInvInit
<1>2. SessionInv /\ BlameInv /\ [Next]_vars => BlameInv'
  BY BlameInvStep
<1>3. Spec => []SessionInv
  BY SessionInvariant DEF OneAgreedSession
<1>4. BlameInv => AbortNamesFaulty
  BY DEF BlameInv
<1> QED
  BY <1>1, <1>2, <1>3, <1>4, PTL DEF Spec
=============================================================================
