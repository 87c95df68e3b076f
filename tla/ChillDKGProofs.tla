--------------------------- MODULE ChillDKGProofs --------------------------
(***************************************************************************)
(* Theorems about a ChillDKG session, for any parties, keys, parameters,   *)
(* randomness and hash functions.                                          *)
(***************************************************************************)
EXTENDS ChillDKGProperties, SequenceTheorems, WellFoundedInduction,
        FiniteSetTheorems, TLAPS

-----------------------------------------------------------------------------
(* What the functions of a session return. *)

(***************************************************************************)
(* "Less than" is well founded on the naturals, written out as a set.      *)
(***************************************************************************)
LEMMA LessThanWellFounded ==
    IsWellFoundedOn({ss \in Nat \X Nat : ss[1] < ss[2]}, Nat)
BY ONLY NatLessThanWellFounded, Zenon DEF OpToRel

(***************************************************************************)
(* The position that a validation reports is one of those that it found.   *)
(***************************************************************************)
LEMMA MinIsMember ==
    ASSUME NEW S, S \subseteq Nat, S # {}
    PROVE  Min(S) \in S
<1> DEFINE R == {ss \in Nat \X Nat : ss[1] < ss[2]}
<1>1. IsWellFoundedOn(R, Nat)
  BY LessThanWellFounded
<1> HIDE DEF R
<1>2. \E x \in S : \A y \in S : <<y, x>> \notin R
  BY <1>1, WFMin, Zenon
<1>3. ASSUME NEW x \in S, \A y \in S : <<y, x>> \notin R
      PROVE  \A y \in S : x =< y
  <2> SUFFICES ASSUME NEW y \in S PROVE x =< y
    OBVIOUS
  <2>1. x \in Nat /\ y \in Nat /\ <<y, x>> \notin R
    BY <1>3
  <2>2. y < x => <<y, x>> \in {ss \in Nat \X Nat : ss[1] < ss[2]}
    BY <2>1, SMT
  <2>3. ~ (y < x)
    BY <2>1, <2>2 DEF R
  <2> QED
    BY <2>1, <2>3
<1>4. \E x \in S : \A y \in S : x =< y
  BY <1>2, <1>3, Zenon
<1> QED
  BY <1>4, Zenon DEF Min

(***************************************************************************)
(* A result is Ok or Err.                                                  *)
(***************************************************************************)
LEMMA OkIsOk == ASSUME NEW v PROVE Ok(v).ok /\ Ok(v).val = v
BY DEF Ok

LEMMA ErrIsNotOk == ASSUME NEW e PROVE ~ Err(e).ok /\ Err(e).err = e
BY DEF Err

(***************************************************************************)
(* Validated parameters have a threshold within range.                     *)
(***************************************************************************)
LEMMA ValidPublicParams ==
    ASSUME NEW keys \in Seq(Scalar), NEW t \in Nat,
           ValidatePublicSessionParams(keys, t).ok
    PROVE  t \in 1 .. Len(keys)
BY ErrIsNotOk, LenProperties DEF ValidatePublicSessionParams

(***************************************************************************)
(* A caller that passes the validation stands in the list of keys, at the  *)
(* position that the validation returns.                                   *)
(***************************************************************************)
LEMMA ValidParams ==
    ASSUME NEW s, NEW keys \in Seq(Scalar), NEW t \in Nat,
           ValidateSessionParams(s, keys, t).ok
    PROVE  /\ t \in 1 .. Len(keys)
           /\ ValidateSessionParams(s, keys, t).val \in DOMAIN keys
           /\ keys[ValidateSessionParams(s, keys, t).val] = MulG(s)
<1> DEFINE mine == {i \in 1 .. Len(keys) : keys[i] = MulG(s)}
<1>1. ValidatePublicSessionParams(keys, t).ok /\ mine # {}
  BY ErrIsNotOk DEF ValidateSessionParams
<1>2. ValidateSessionParams(s, keys, t).val = Min(mine)
  BY <1>1, OkIsOk DEF ValidateSessionParams
<1>3. Min(mine) \in mine
  <2>1. mine \subseteq Nat
    OBVIOUS
  <2> QED
    BY <1>1, <2>1, MinIsMember
<1>4. DOMAIN keys = 1 .. Len(keys)
  BY LenProperties
<1> QED
  BY <1>1, <1>2, <1>3, <1>4, ValidPublicParams

(***************************************************************************)
(* The first step of a participant leads to Step1, with the caller's key   *)
(* and its position in the parameters of the call.                         *)
(***************************************************************************)
LEMMA InitialNextOk ==
    ASSUME NEW st, NEW params \in [host_pubkeys : Seq(Scalar), t : Nat], NEW random,
           NEW res, res = InitialNext(st, params, random), res.ok
    PROVE  /\ res.phase = "Step1"
           /\ res.st.s = st.s
           /\ res.st.host_pubkeys = params.host_pubkeys
           /\ res.st.t = params.t
           /\ res.st.t \in 1 .. Len(params.host_pubkeys)
           /\ res.st.idx \in DOMAIN params.host_pubkeys
           /\ params.host_pubkeys[res.st.idx] = MulG(st.s)
<1> DEFINE position == ValidateSessionParams(st.s, params.host_pubkeys, params.t)
<1>1. position.ok
  BY DEF InitialNext
<1>2. /\ res.phase = "Step1"
      /\ res.st.s = st.s
      /\ res.st.host_pubkeys = params.host_pubkeys
      /\ res.st.t = params.t
      /\ res.st.idx = position.val
  BY <1>1, ErrIsNotOk DEF InitialNext, Advance
<1>3. params.host_pubkeys \in Seq(Scalar) /\ params.t \in Nat
  OBVIOUS
<1> HIDE DEF position
<1> QED
  BY <1>1, <1>2, <1>3, ValidParams DEF position

(***************************************************************************)
(* The second step leads to Step2, and signs the transcript that it keeps. *)
(***************************************************************************)
LEMMA Step1NextOk ==
    ASSUME NEW st, st.host_pubkeys \in Seq(Scalar), NEW msg,
           NEW res, res = Step1Next(st, msg), res.ok
    PROVE  /\ res.phase = "Step2"
           /\ res.st.transcript.host_pubkeys = st.host_pubkeys
           /\ res.st.transcript.t = st.t
           /\ res.st.dkg_output.idx = st.idx
           /\ res.st.dkg_output.t = st.t
           /\ Len(res.st.dkg_output.pubshares) = Len(st.host_pubkeys)
           /\ res.out = Sig(XOnly(MulG(st.s)), st.idx, res.st.transcript)
<1> DEFINE sum == SumCommitment(msg)
           tweak == TapTweakNoScript(sum[1])
           tweaked == TweakCommitment(sum, tweak.val)
           decrypted == Decrypt(st.s, msg.pubnonces, EncContext(st.t, st.host_pubkeys),
                                st.idx, msg.enc_secshares[st.idx])
           secshare == (decrypted.val + tweak.val) % Order
           transcript == Transcript(st.t, sum, st.host_pubkeys, msg.pubnonces,
                                    msg.enc_secshares)
           sig == CertEqSign(st.s, transcript, st.idx)
           pubshares == [i \in 1 .. Len(st.host_pubkeys) |-> EvalPubShare(tweaked, i)]
<1>1. /\ sig.ok
      /\ res = Advance("Step2",
                  [transcript |-> transcript,
                   dkg_output |-> [idx |-> st.idx, t |-> st.t, secshare |-> secshare,
                                   threshold_pubkey |-> tweaked[1],
                                   pubshares |-> pubshares]],
                  sig.val)
  BY ErrIsNotOk, Zenon DEF Step1Next
<1>2. sig.val = Sig(XOnly(MulG(st.s)), st.idx, transcript)
  BY <1>1, ErrIsNotOk, OkIsOk DEF CertEqSign
<1>3. transcript.host_pubkeys = st.host_pubkeys /\ transcript.t = st.t
  BY DEF Transcript
<1>4. Len(pubshares) = Len(st.host_pubkeys)
  BY LenProperties
<1> HIDE DEF transcript, sig, pubshares, secshare, tweaked, decrypted, tweak, sum
<1> QED
  BY <1>1, <1>2, <1>3, <1>4 DEF Advance

(***************************************************************************)
(* A finished participant keeps a certificate that verifies.               *)
(***************************************************************************)
LEMMA Step2NextOk ==
    ASSUME NEW st, NEW cert, NEW res, res = Step2Next(st, cert), res.ok
    PROVE  /\ res.phase = "Successful"
           /\ res.out.recovery.transcript = st.transcript
           /\ res.out.recovery.cert = cert
           /\ VerifyCertificate(st.transcript, cert).ok
BY ErrIsNotOk DEF Step2Next, Finish, Advance

(***************************************************************************)
(* A recovered output comes from a certificate that verifies.              *)
(***************************************************************************)
LEMMA PartyRecoverOk ==
    ASSUME NEW s, NEW recovery, PartyRecover(s, recovery).ok
    PROVE  VerifyCertificate(recovery.transcript, recovery.cert).ok
BY ErrIsNotOk, Zenon DEF PartyRecover

LEMMA CoordinatorRecoverOk ==
    ASSUME NEW recovery, CoordinatorRecover(recovery).ok
    PROVE  VerifyCertificate(recovery.transcript, recovery.cert).ok
BY ErrIsNotOk, Zenon DEF CoordinatorRecover

(***************************************************************************)
(* A coordinator is created with valid parameters.                         *)
(***************************************************************************)
LEMMA CoordinatorNewOk ==
    ASSUME NEW params \in [host_pubkeys : Seq(Scalar), t : Nat],
           NEW res, res = CoordinatorNew(params), res.ok
    PROVE  /\ res.phase = "Initial"
           /\ res.st = params
           /\ params.t \in 1 .. Len(params.host_pubkeys)
<1>1. ValidatePublicSessionParams(params.host_pubkeys, params.t).ok
  BY DEF CoordinatorNew
<1>2. params.host_pubkeys \in Seq(Scalar) /\ params.t \in Nat
  OBVIOUS
<1> QED
  BY <1>1, <1>2, ValidPublicParams DEF CoordinatorNew, Advance

(***************************************************************************)
(* Its first step leads to Step1, with the transcript of its parameters.   *)
(***************************************************************************)
LEMMA CoordinatorInitialNextOk ==
    ASSUME NEW st, st.host_pubkeys \in Seq(Scalar), NEW msgs,
           NEW res, res = CoordinatorInitialNext(st, msgs), res.ok
    PROVE  /\ res.phase = "Step1"
           /\ res.st.host_pubkeys = st.host_pubkeys
           /\ res.st.t = st.t
           /\ res.st.transcript.host_pubkeys = st.host_pubkeys
           /\ res.st.transcript.t = st.t
           /\ Len(res.st.dkg_output.pubshares) = Len(st.host_pubkeys)
<1> DEFINE n == Len(st.host_pubkeys)
           sum == [k \in 1 .. st.t |-> SumMod([i \in 1 .. n |-> msgs[i].commitment[k]])]
           pubnonces == [i \in 1 .. n |-> msgs[i].pubnonce]
           secshares == [j \in 1 .. n |-> SumMod([i \in 1 .. n |-> msgs[i].enc_shares[j]])]
           out == [coms_to_secrets |-> [i \in 1 .. n |-> msgs[i].commitment[1]],
                   sum_coms_to_nonconst_terms |-> Tail(sum),
                   pops |-> [i \in 1 .. n |-> msgs[i].pop],
                   pubnonces |-> pubnonces,
                   enc_secshares |-> secshares]
           tweak == TapTweakNoScript(sum[1])
           tweaked == TweakCommitment(sum, tweak.val)
           transcript == Transcript(st.t, sum, st.host_pubkeys, out.pubnonces,
                                    out.enc_secshares)
           pubshares == [i \in 1 .. n |-> EvalPubShare(tweaked, i)]
<1>1. res = Advance("Step1",
                [t |-> st.t, host_pubkeys |-> st.host_pubkeys, transcript |-> transcript,
                 dkg_output |-> [t |-> st.t, threshold_pubkey |-> tweaked[1],
                                 pubshares |-> pubshares]],
                out)
  BY ErrIsNotOk, Zenon DEF CoordinatorInitialNext
<1>2. transcript.host_pubkeys = st.host_pubkeys /\ transcript.t = st.t
  BY DEF Transcript
<1>3. Len(pubshares) = Len(st.host_pubkeys)
  BY LenProperties
<1> HIDE DEF transcript, pubshares, tweaked, tweak, out, sum, pubnonces, secshares
<1> QED
  BY <1>1, <1>2, <1>3 DEF Advance

(***************************************************************************)
(* A finished coordinator keeps a certificate that verifies.               *)
(***************************************************************************)
LEMMA CoordinatorStep1NextOk ==
    ASSUME NEW st, NEW sigs, NEW res, res = CoordinatorStep1Next(st, sigs), res.ok
    PROVE  /\ res.phase = "Successful"
           /\ res.out.cert = sigs
           /\ res.out.recovery.transcript = st.transcript
           /\ res.out.recovery.cert = sigs
           /\ VerifyCertificate(st.transcript, sigs).ok
BY ErrIsNotOk DEF CoordinatorStep1Next, Finish, Advance

(***************************************************************************)
(* A call that succeeds was made in its phase and moves the driver to the  *)
(* next one; a call that fails leaves the driver alone or fails it.        *)
(***************************************************************************)
LEMMA TransitionCases ==
    ASSUME NEW d, NEW expected, NEW res,
           NEW call, call = Transition(d, expected, res)
    PROVE  \/ /\ call.reply.ok
              /\ d.phase = expected
              /\ res.ok
              /\ call.state = Driver(res.phase, res.st)
              /\ call.reply.val = res.out
           \/ /\ ~ call.reply.ok
              /\ call.state = d \/ call.state.phase = "Failed"
BY OkIsOk, ErrIsNotOk DEF Transition, Failed, Driver

(***************************************************************************)
(* A certificate that verifies holds, at the place of each key, that key's *)
(* signature of the transcript.                                            *)
(***************************************************************************)
LEMMA VerifiedCertificate ==
    ASSUME NEW T, NEW cert, VerifyCertificate(T, cert).ok
    PROVE  /\ Len(cert) = Len(T.host_pubkeys)
           /\ \A i \in 1 .. Len(T.host_pubkeys) :
                 cert[i] = Sig(XOnly(T.host_pubkeys[i]), i, T)
BY ErrIsNotOk, Zenon DEF VerifyCertificate, CertEqVerify

-----------------------------------------------------------------------------
(* Types. *)

LEMMA TypeOKInit == Init => TypeOK
BY SwitchesAssumption DEF Init, TypeOK, ParticipantDriver, CoordinatorDriver

-----------------------------------------------------------------------------
(* The drivers keep their types, call by call. *)

LEMMA Step1DriverType ==
    ASSUME NEW p \in Honest, ParticipantDriver(p, pst[p]),
           NEW params \in ParamChoices[p], NEW random,
           NEW call, call = Transition(pst[p], "Initial",
                                       InitialNext(pst[p].st, params, random))
    PROVE  ParticipantDriver(p, call.state)
<1> DEFINE res == InitialNext(pst[p].st, params, random)
<1>1. params \in [host_pubkeys : Seq(Scalar), t : Nat]
  BY ParamsAssumption DEF Params
<1>2. CASE call.state = pst[p] \/ call.state.phase = "Failed"
  BY <1>2 DEF ParticipantDriver
<1>3. CASE /\ pst[p].phase = "Initial"
           /\ res.ok
           /\ call.state = Driver(res.phase, res.st)
  <2>1. pst[p].st.s = HostSec[p]
    BY <1>3 DEF ParticipantDriver, NewParticipant, Driver
  <2>2. /\ res.phase = "Step1"
        /\ res.st.s = HostSec[p]
        /\ res.st.host_pubkeys = params.host_pubkeys
        /\ res.st.t \in 1 .. Len(params.host_pubkeys)
        /\ res.st.idx \in DOMAIN params.host_pubkeys
        /\ params.host_pubkeys[res.st.idx] = HostKey(p)
    BY <1>1, <1>3, <2>1, InitialNextOk DEF HostKey
  <2>3. call.state.phase = "Step1" /\ call.state.st = res.st
    BY <1>3, <2>2 DEF Driver
  <2>4. params.host_pubkeys \in Seq(Scalar)
    BY <1>1
  <2> HIDE DEF res
  <2> QED
    BY <2>2, <2>3, <2>4 DEF ParticipantDriver
<1> HIDE DEF res
<1> QED
  BY <1>2, <1>3, TransitionCases DEF res

LEMMA Step2DriverType ==
    ASSUME NEW p \in Honest, ParticipantDriver(p, pst[p]), NEW msg,
           NEW call, call = Transition(pst[p], "Step1", Step1Next(pst[p].st, msg))
    PROVE  ParticipantDriver(p, call.state)
<1> DEFINE st == pst[p].st
           res == Step1Next(st, msg)
<1>1. CASE call.state = pst[p] \/ call.state.phase = "Failed"
  BY <1>1 DEF ParticipantDriver
<1>2. CASE /\ pst[p].phase = "Step1"
           /\ res.ok
           /\ call.state = Driver(res.phase, res.st)
  <2>1. /\ st.host_pubkeys \in Seq(Scalar)
        /\ st.idx \in DOMAIN st.host_pubkeys
        /\ st.host_pubkeys[st.idx] = HostKey(p)
    BY <1>2 DEF ParticipantDriver, NewParticipant, Driver
  <2>2. /\ res.phase = "Step2"
        /\ res.st.transcript.host_pubkeys = st.host_pubkeys
        /\ res.st.transcript.t = st.t
        /\ res.st.dkg_output.idx = st.idx
        /\ res.st.dkg_output.t = st.t
        /\ Len(res.st.dkg_output.pubshares) = Len(st.host_pubkeys)
    BY <1>2, <2>1, Step1NextOk
  <2>3. call.state.phase = "Step2" /\ call.state.st = res.st
    BY <1>2, <2>2 DEF Driver
  <2> HIDE DEF res, st
  <2> QED
    BY <2>1, <2>2, <2>3 DEF ParticipantDriver
<1> HIDE DEF res
<1> QED
  BY <1>1, <1>2, TransitionCases DEF res

LEMMA FinalizeDriverType ==
    ASSUME NEW p \in Honest, ParticipantDriver(p, pst[p]), NEW cert,
           NEW call, call = Transition(pst[p], "Step2", Step2Next(pst[p].st, cert))
    PROVE  ParticipantDriver(p, call.state)
<1> DEFINE res == Step2Next(pst[p].st, cert)
<1>1. \/ call.state = pst[p] \/ call.state.phase = "Failed"
      \/ res.ok /\ call.state = Driver(res.phase, res.st)
  BY TransitionCases
<1>2. res.ok => res.phase = "Successful"
  BY Step2NextOk
<1> HIDE DEF res
<1>3. call.state = pst[p] \/ call.state.phase \in {"Failed", "Successful"}
  BY <1>1, <1>2 DEF Driver
<1> QED
  BY <1>3 DEF ParticipantDriver

LEMMA CoordinatorCreateType ==
    ASSUME NEW params \in CoordParams, NEW res, res = CoordinatorNew(params), res.ok
    PROVE  CoordinatorDriver(Driver(res.phase, res.st))
<1>1. params \in [host_pubkeys : Seq(Scalar), t : Nat]
  BY ParamsAssumption DEF Params
<1> QED
  BY <1>1, CoordinatorNewOk DEF CoordinatorDriver, Driver

LEMMA CoordinatorStep1Type ==
    ASSUME CoordinatorDriver(cst), NEW msgs,
           NEW call, call = Transition(cst, "Initial", CoordinatorInitialNext(cst.st, msgs))
    PROVE  CoordinatorDriver(call.state)
<1> DEFINE st == cst.st
           res == CoordinatorInitialNext(st, msgs)
<1>1. CASE call.state = cst \/ call.state.phase = "Failed"
  BY <1>1 DEF CoordinatorDriver
<1>2. CASE /\ cst.phase = "Initial"
           /\ res.ok
           /\ call.state = Driver(res.phase, res.st)
  <2>1. st.host_pubkeys \in Seq(Scalar)
    BY <1>2 DEF CoordinatorDriver, Absent, Driver
  <2>2. /\ res.phase = "Step1"
        /\ res.st.host_pubkeys = st.host_pubkeys
        /\ res.st.t = st.t
        /\ res.st.transcript.host_pubkeys = st.host_pubkeys
        /\ res.st.transcript.t = st.t
        /\ Len(res.st.dkg_output.pubshares) = Len(st.host_pubkeys)
    BY <1>2, <2>1, CoordinatorInitialNextOk
  <2> HIDE DEF res, st
  <2> QED
    BY <1>2, <2>1, <2>2 DEF CoordinatorDriver, Driver
<1> HIDE DEF res
<1> QED
  BY <1>1, <1>2, TransitionCases DEF res

LEMMA CoordinatorStep2Type ==
    ASSUME CoordinatorDriver(cst), NEW sigs,
           NEW call, call = Transition(cst, "Step1", CoordinatorStep1Next(cst.st, sigs))
    PROVE  CoordinatorDriver(call.state)
<1> DEFINE res == CoordinatorStep1Next(cst.st, sigs)
<1>1. \/ call.state = cst \/ call.state.phase = "Failed"
      \/ res.ok /\ call.state = Driver(res.phase, res.st)
  BY TransitionCases
<1>2. res.ok => res.phase = "Successful"
  BY CoordinatorStep1NextOk
<1> HIDE DEF res
<1> QED
  BY <1>1, <1>2 DEF CoordinatorDriver, Driver

-----------------------------------------------------------------------------
LEMMA OwnDriverTyped ==
    ASSUME TypeOK, NEW p \in Honest
    PROVE  ParticipantDriver(p, pst[p])
BY DEF TypeOK

(***************************************************************************)
(* A call replaces the driver of one party and leaves the clones alone.    *)
(***************************************************************************)
LEMMA DriversTyped ==
    ASSUME TypeOK, NEW p \in Honest, NEW driver, ParticipantDriver(p, driver),
           pst' = [pst EXCEPT ![p] = driver], copies' = copies
    PROVE  /\ DOMAIN pst' = Honest
           /\ DOMAIN copies' = Honest
           /\ \A q \in Honest : \A d \in {pst'[q]} \cup copies'[q] : ParticipantDriver(q, d)
<1>1. DOMAIN pst = Honest /\ DOMAIN copies = Honest
  BY DEF TypeOK
<1>2. DOMAIN pst' = Honest /\ DOMAIN copies' = Honest
  BY <1>1
<1>3. ASSUME NEW q \in Honest, NEW d \in {pst'[q]} \cup copies'[q]
      PROVE  ParticipantDriver(q, d)
  <2>1. CASE d \in copies[q]
    BY <2>1 DEF TypeOK
  <2>2. CASE d = pst'[q] /\ q # p
    <3>1. d = pst[q]
      BY <1>1, <2>2
    <3> QED
      BY <3>1, OwnDriverTyped
  <2>3. CASE d = pst'[q] /\ q = p
    <3>1. d = driver
      BY <1>1, <2>3
    <3> QED
      BY <2>3, <3>1
  <2> QED
    BY <1>3, <2>1, <2>2, <2>3
<1> QED
  BY <1>2, <1>3

LEMMA TypeOKStep == TypeOK /\ [Next]_vars => TypeOK'
<1> SUFFICES ASSUME TypeOK, [Next]_vars PROVE TypeOK'
  OBVIOUS
<1>1. ASSUME NEW p \in Honest, ParticipantStep1(p) PROVE TypeOK'
  <2>1. PICK params \in ParamChoices[p], random \in Randoms :
           pst' = [pst EXCEPT ![p] =
                     Transition(pst[p], "Initial",
                                InitialNext(pst[p].st, params, random)).state]
    BY <1>1 DEF ParticipantStep1
  <2> DEFINE call == Transition(pst[p], "Initial",
                                InitialNext(pst[p].st, params, random))
  <2>2. ParticipantDriver(p, call.state)
    BY OwnDriverTyped, Step1DriverType
  <2>3. DOMAIN perr' = Honest /\ DOMAIN pmsg1' = Honest
    BY <1>1 DEF ParticipantStep1, TypeOK
  <2> HIDE DEF call
  <2> QED
    BY <1>1, <2>1, <2>2, <2>3, DriversTyped DEF TypeOK, ParticipantStep1, cvars, call
<1>2. ASSUME NEW p \in Honest, ParticipantStep2(p) PROVE TypeOK'
  <2>1. PICK msg \in DeliverableCmsg1 :
           pst' = [pst EXCEPT ![p] =
                     Transition(pst[p], "Step1", Step1Next(pst[p].st, msg)).state]
    BY <1>2 DEF ParticipantStep2
  <2> DEFINE call == Transition(pst[p], "Step1", Step1Next(pst[p].st, msg))
  <2>2. ParticipantDriver(p, call.state)
    BY OwnDriverTyped, Step2DriverType
  <2>3. DOMAIN perr' = Honest /\ DOMAIN pmsg2' = Honest
    BY <1>2 DEF ParticipantStep2, TypeOK
  <2> HIDE DEF call
  <2> QED
    BY <1>2, <2>1, <2>2, <2>3, DriversTyped DEF TypeOK, ParticipantStep2, cvars, call
<1>3. ASSUME NEW p \in Honest, ParticipantFinalize(p) PROVE TypeOK'
  <2>1. PICK cert \in DeliverableCerts :
           pst' = [pst EXCEPT ![p] =
                     Transition(pst[p], "Step2", Step2Next(pst[p].st, cert)).state]
    BY <1>3 DEF ParticipantFinalize
  <2> DEFINE call == Transition(pst[p], "Step2", Step2Next(pst[p].st, cert))
  <2>2. ParticipantDriver(p, call.state)
    BY OwnDriverTyped, FinalizeDriverType
  <2>3. DOMAIN perr' = Honest /\ DOMAIN output' = Honest
    BY <1>3 DEF ParticipantFinalize, TypeOK
  <2> HIDE DEF call
  <2> QED
    BY <1>3, <2>1, <2>2, <2>3, DriversTyped DEF TypeOK, ParticipantFinalize, cvars, call
<1>4. ASSUME NEW p \in Honest, ParticipantRecover(p) PROVE TypeOK'
  <2>1. DOMAIN output' = Honest
    BY <1>4 DEF ParticipantRecover, TypeOK
  <2> QED
    BY <1>4, <2>1 DEF TypeOK, ParticipantRecover, cvars
<1>5. ASSUME NEW p \in Honest, ParticipantRestart(p) PROVE TypeOK'
  <2>1. PICK driver \in {NewParticipant(p)} \cup copies[p] :
           pst' = [pst EXCEPT ![p] = driver]
    BY <1>5 DEF ParticipantRestart
  <2>2. ParticipantDriver(p, driver)
    <3>1. driver = NewParticipant(p) => ParticipantDriver(p, driver)
      BY DEF ParticipantDriver
    <3>2. driver \in copies[p] => ParticipantDriver(p, driver)
      BY DEF TypeOK
    <3> QED
      BY <3>1, <3>2
  <2>3. sessions' \in [Honest -> 1 .. MaxSessions]
    BY <1>5, SwitchesAssumption DEF ParticipantRestart, TypeOK
  <2>4. DOMAIN perr' = Honest
    BY <1>5 DEF ParticipantRestart, TypeOK
  <2> QED
    BY <1>5, <2>1, <2>2, <2>3, <2>4, DriversTyped DEF TypeOK, ParticipantRestart, cvars
<1>6. ASSUME CoordinatorCreate PROVE TypeOK'
  <2>1. PICK params \in CoordParams :
           cst' = IF CoordinatorNew(params).ok
                  THEN Driver(CoordinatorNew(params).phase, CoordinatorNew(params).st)
                  ELSE Absent
    BY <1>6 DEF CoordinatorCreate
  <2>2. CoordinatorDriver(cst')
    BY <2>1, CoordinatorCreateType DEF CoordinatorDriver
  <2>3. csessions' \in 0 .. MaxSessions
    BY <1>6, SwitchesAssumption DEF CoordinatorCreate, TypeOK
  <2> QED
    BY <1>6, <2>2, <2>3 DEF TypeOK, CoordinatorCreate, pvars
<1>7. ASSUME CoordinatorStep1 PROVE TypeOK'
  <2>1. PICK order \in Orders : \E msgs \in Collected(order, Msg1From) :
           cst' = Transition(cst, "Initial", CoordinatorInitialNext(cst.st, msgs)).state
    BY <1>7 DEF CoordinatorStep1
  <2>2. CoordinatorDriver(cst')
    BY <2>1, CoordinatorStep1Type DEF TypeOK
  <2> QED
    BY <1>7, <2>2 DEF TypeOK, CoordinatorStep1, pvars
<1>8. ASSUME CoordinatorStep2 PROVE TypeOK'
  <2>1. PICK order \in Orders : \E sigs \in Collected(order, SigsFrom) :
           cst' = Transition(cst, "Step1", CoordinatorStep1Next(cst.st, sigs)).state
    BY <1>8 DEF CoordinatorStep2
  <2>2. CoordinatorDriver(cst')
    BY <2>1, CoordinatorStep2Type DEF TypeOK
  <2> QED
    BY <1>8, <2>2 DEF TypeOK, CoordinatorStep2, pvars
<1>9. ASSUME CoordinatorRecovers PROVE TypeOK'
  BY <1>9 DEF TypeOK, CoordinatorRecovers, pvars
<1>10. ASSUME NEW p \in Honest, ParticipantClone(p) PROVE TypeOK'
  <2>1. copies' = [copies EXCEPT ![p] = @ \cup {pst[p]}] /\ pst' = pst
    BY <1>10 DEF ParticipantClone
  <2>2. \A q \in Honest : \A d \in copies'[q] : d = pst[q] \/ d \in copies[q]
    BY <2>1 DEF TypeOK
  <2>3. \A q \in Honest : \A d \in {pst[q]} \cup copies'[q] : ParticipantDriver(q, d)
    BY <2>2 DEF TypeOK
  <2>4. DOMAIN copies' = Honest
    BY <2>1 DEF TypeOK
  <2> QED
    BY <1>10, <2>1, <2>3, <2>4 DEF TypeOK, ParticipantClone, cvars
<1>11. ASSUME UNCHANGED vars PROVE TypeOK'
  BY <1>11 DEF TypeOK, vars
<1> QED
  BY <1>1, <1>2, <1>3, <1>4, <1>5, <1>6, <1>7, <1>8, <1>9, <1>10, <1>11
     DEF Next, Progress, ParticipantCall, CoordinatorCall

(***************************************************************************)
(* In every reachable state the drivers hold what their phases promise:    *)
(* above all, the index of a participant is a position of its own host key *)
(* and the threshold is within range (party/mod.rs,                        *)
(* validate_session_params).                                               *)
(***************************************************************************)
THEOREM TypeCorrect == Spec => []TypeOK
BY TypeOKInit, TypeOKStep, PTL DEF Spec

-----------------------------------------------------------------------------
(* Certificates *)

(***************************************************************************)
(* A signature under an honest party's key was made by that party.  The    *)
(* invariant: this holds of every signature in a certificate that anybody  *)
(* holds, and held certificates verify.                                    *)
(***************************************************************************)
Authentic(sig) ==
    \A q \in Honest : sig.key = XOnly(HostKey(q)) => sig \in pmsg2[q]

AuthenticCert(cert) ==
    /\ Len(cert) \in Nat
    /\ DOMAIN cert = 1 .. Len(cert)
    /\ \A i \in DOMAIN cert : Authentic(cert[i])

Certified(recovery) ==
    /\ recovery.transcript.host_pubkeys \in Seq(Scalar)
    /\ AuthenticCert(recovery.cert)
    /\ VerifyCertificate(recovery.transcript, recovery.cert).ok

OwnSignatures ==
    \A q \in Honest : \A sig \in pmsg2[q] :
        /\ sig.key = XOnly(HostKey(q))
        /\ sig.transcript.host_pubkeys \in Seq(Scalar)

CertificateInv ==
    /\ OwnSignatures
    /\ \A cert \in certs : AuthenticCert(cert)
    /\ \A o \in Held : Certified(o.recovery)

LEMMA HonestKeyNotIdentity ==
    ASSUME NEW q \in Parties PROVE XOnly(HostKey(q)) # Identity
<1>1. HostSec[q] \in 1 .. (Order - 1)
  BY HostSecAssumption, OrderAssumption DEF Scalar
<1>2. HostSec[q] % Order = HostSec[q]
  BY <1>1, OrderAssumption
<1>3. (Order - HostSec[q]) % Order = Order - HostSec[q]
  BY <1>1, OrderAssumption
<1> QED
  BY <1>1, <1>2, <1>3, OrderAssumption DEF HostKey, MulG, XOnly, EvenYPoint, Neg, Identity

(***************************************************************************)
(* Faulty parties cannot sign for an honest one.                           *)
(***************************************************************************)
LEMMA KnownSigsAuthentic ==
    ASSUME OwnSignatures, NEW q \in Parties, NEW sig \in SigsFrom[q] \cup {NoSig}
    PROVE  Authentic(sig)
<1> SUFFICES ASSUME NEW p \in Honest, sig.key = XOnly(HostKey(p))
             PROVE  sig \in pmsg2[p]
  BY DEF Authentic
<1>1. p \in Parties
  BY PartiesAssumption
<1>2. sig # NoSig
  BY <1>1, HonestKeyNotIdentity DEF NoSig, Sig
<1>3. CASE q \in Honest
  <2>1. sig \in pmsg2[q]
    BY <1>2, <1>3 DEF SigsFrom
  <2>2. XOnly(HostKey(q)) = XOnly(HostKey(p))
    BY <1>3, <2>1 DEF OwnSignatures
  <2> QED
    BY <1>1, <2>1, <2>2, DistinctKeysAssumption
<1>4. CASE q \notin Honest
  <2>1. PICK T \in SeenTranscripts : sig \in SignedBy(q, T)
    BY <1>2, <1>4 DEF SigsFrom, FaultySigs
  <2>2. sig.key = XOnly(HostKey(q))
    BY <2>1 DEF SignedBy, Sig
  <2> QED
    BY <1>1, <1>4, <2>2, DistinctKeysAssumption
<1> QED
  BY <1>3, <1>4

LEMMA MadeUpCertsAuthentic ==
    ASSUME OwnSignatures, NEW order \in Orders, NEW cert,
           \/ cert \in [DOMAIN order -> KnownSigs]
           \/ cert \in Collected(order, SigsFrom)
    PROVE  AuthenticCert(cert)
<1>1. order \in Seq(Parties)
  BY OrdersAssumption
<1>2. Len(order) \in Nat /\ DOMAIN order = 1 .. Len(order)
  BY <1>1, LenProperties
<1>3. \A i \in DOMAIN order : order[i] \in Parties
  BY <1>1, <1>2, ElementOfSeq
<1>4. DOMAIN cert = 1 .. Len(order)
  BY <1>2 DEF Collected
<1>5. \A i \in DOMAIN cert : Authentic(cert[i])
  <2> SUFFICES ASSUME NEW i \in DOMAIN cert PROVE Authentic(cert[i])
    OBVIOUS
  <2>1. i \in DOMAIN order
    BY <1>2, <1>4
  <2>2. CASE cert \in [DOMAIN order -> KnownSigs]
    <3>1. order[i] \in Parties
      BY <1>3, <2>1
    <3>2. cert[i] \in KnownSigs
      BY <2>1, <2>2
    <3>3. cert[i] = NoSig \/ \E q \in Parties : cert[i] \in SigsFrom[q]
      BY <3>2 DEF KnownSigs
    <3>4. \E q \in Parties : cert[i] \in SigsFrom[q] \cup {NoSig}
      BY <3>1, <3>3
    <3> QED
      BY <3>4, KnownSigsAuthentic
  <2>3. CASE cert \in Collected(order, SigsFrom)
    <3>1. cert[i] \in SigsFrom[order[i]]
      BY <2>1, <2>3 DEF Collected
    <3> QED
      BY <1>3, <2>1, <3>1, KnownSigsAuthentic
  <2> QED
    BY <2>2, <2>3
<1>6. Len(cert) = Len(order)
  BY <1>2, <1>4
<1> QED
  BY <1>2, <1>4, <1>5, <1>6 DEF AuthenticCert

(***************************************************************************)
(* Whatever is delivered is authentic.                                     *)
(***************************************************************************)
LEMMA DeliverableCertsAuthentic ==
    ASSUME CertificateInv, NEW cert \in DeliverableCerts PROVE AuthenticCert(cert)
<1>1. CASE cert \in certs
  BY <1>1 DEF CertificateInv
<1>2. CASE cert \in FaultyCerts
  <2>1. PICK order \in Orders : cert \in [DOMAIN order -> KnownSigs]
    BY <1>2 DEF FaultyCerts
  <2> QED
    BY <2>1, MadeUpCertsAuthentic DEF CertificateInv
<1> QED
  BY <1>1, <1>2 DEF DeliverableCerts

LEMMA SeenTranscriptsTyped ==
    ASSUME TypeOK, OwnSignatures, NEW T \in SeenTranscripts
    PROVE  T.host_pubkeys \in Seq(Scalar)
<1>1. CASE \E p \in Honest : \E sig \in pmsg2[p] : T = sig.transcript
  BY <1>1 DEF OwnSignatures
<1>2. CASE cst.phase = "Step1" /\ T = cst.st.transcript
  BY <1>2 DEF TypeOK, CoordinatorDriver, Absent, Driver
<1> QED
  BY <1>1, <1>2, Zenon DEF SeenTranscripts

LEMMA DeliverableRecoveryAuthentic ==
    ASSUME TypeOK, CertificateInv, NEW recovery \in DeliverableRecovery,
           VerifyCertificate(recovery.transcript, recovery.cert).ok
    PROVE  Certified(recovery)
<1>1. CASE recovery \in PublishedRecovery
  BY <1>1 DEF PublishedRecovery, CertificateInv, Held
<1>2. CASE recovery \in {[transcript |-> T, cert |-> c] :
                             T \in SeenTranscripts, c \in FaultyCerts}
  <2>1. PICK T \in SeenTranscripts, c \in FaultyCerts :
           recovery = [transcript |-> T, cert |-> c]
    BY <1>2
  <2>2. PICK order \in Orders : c \in [DOMAIN order -> KnownSigs]
    BY <2>1 DEF FaultyCerts
  <2>3. AuthenticCert(c)
    BY <2>2, MadeUpCertsAuthentic DEF CertificateInv
  <2>4. T.host_pubkeys \in Seq(Scalar)
    BY SeenTranscriptsTyped DEF CertificateInv
  <2> QED
    BY <2>1, <2>3, <2>4 DEF Certified
<1>3. \/ recovery \in PublishedRecovery
      \/ recovery \in {[transcript |-> T, cert |-> c] :
                          T \in SeenTranscripts, c \in FaultyCerts}
  BY DEF DeliverableRecovery
<1> QED
  BY <1>1, <1>2, <1>3

-----------------------------------------------------------------------------
LEMMA CertificateInvInit == Init => CertificateInv
BY DEF Init, CertificateInv, OwnSignatures, Held

(***************************************************************************)
(* No signature is withdrawn, so that what is authentic stays so.          *)
(***************************************************************************)
LEMMA AuthenticStays ==
    ASSUME \A q \in Honest : pmsg2[q] \subseteq pmsg2'[q]
    PROVE  /\ \A cert : AuthenticCert(cert) => AuthenticCert(cert)'
           /\ \A recovery : Certified(recovery) => Certified(recovery)'
<1>1. \A sig : Authentic(sig) => Authentic(sig)'
  BY DEF Authentic
<1>2. \A cert : AuthenticCert(cert) => AuthenticCert(cert)'
  BY <1>1 DEF AuthenticCert
<1> QED
  BY <1>2 DEF Certified

(***************************************************************************)
(* The step of a party that adds at most one output or certificate.        *)
(***************************************************************************)
LEMMA CertificateInvKept ==
    ASSUME CertificateInv, OwnSignatures',
           \A q \in Honest : pmsg2[q] \subseteq pmsg2'[q],
           \A cert \in certs' : cert \in certs \/ AuthenticCert(cert),
           \A o \in Held' : o \in Held \/ Certified(o.recovery)
    PROVE  CertificateInv'
BY AuthenticStays DEF CertificateInv

LEMMA CertificateInvStep == TypeOK /\ CertificateInv /\ [Next]_vars => CertificateInv'
<1> SUFFICES ASSUME TypeOK, CertificateInv, [Next]_vars PROVE CertificateInv'
  OBVIOUS
<1>1. ASSUME \A q \in Honest : pmsg2'[q] = pmsg2[q] /\ output'[q] = output[q],
             certs' = certs /\ coutput' = coutput
      PROVE  CertificateInv'
  <2>1. \A o \in Held' : o \in Held
    BY <1>1 DEF Held
  <2>2. OwnSignatures'
    BY <1>1 DEF CertificateInv, OwnSignatures
  <2> QED
    BY <1>1, <2>1, <2>2, CertificateInvKept
<1>2. ASSUME NEW p \in Honest, ParticipantStep2(p) PROVE CertificateInv'
  <2>1. PICK msg \in DeliverableCmsg1 :
           pmsg2' = [pmsg2 EXCEPT ![p] =
             IF Transition(pst[p], "Step1", Step1Next(pst[p].st, msg)).reply.ok
             THEN @ \cup {Transition(pst[p], "Step1", Step1Next(pst[p].st, msg)).reply.val}
             ELSE @]
    BY <1>2 DEF ParticipantStep2
  <2> DEFINE st == pst[p].st
             res == Step1Next(st, msg)
             call == Transition(pst[p], "Step1", res)
  <2>2. CASE call.reply.ok
    <3>1. pst[p].phase = "Step1" /\ res.ok /\ call.reply.val = res.out
      BY <2>2, TransitionCases
    <3>2. st.s = HostSec[p] /\ st.host_pubkeys \in Seq(Scalar)
      BY <3>1 DEF TypeOK, ParticipantDriver, NewParticipant, Driver
    <3>3. /\ res.out = Sig(XOnly(HostKey(p)), st.idx, res.st.transcript)
          /\ res.st.transcript.host_pubkeys = st.host_pubkeys
      BY <3>1, <3>2, Step1NextOk DEF HostKey
    <3>4. /\ res.out.key = XOnly(HostKey(p))
          /\ res.out.transcript.host_pubkeys \in Seq(Scalar)
      BY <3>2, <3>3 DEF Sig
    <3>5. pmsg2' = [pmsg2 EXCEPT ![p] = @ \cup {res.out}]
      BY <2>1, <2>2, <3>1
    <3> HIDE DEF res
    <3>6. OwnSignatures'
      BY <3>4, <3>5 DEF CertificateInv, OwnSignatures, TypeOK
    <3>7. \A q \in Honest : pmsg2[q] \subseteq pmsg2'[q]
      BY <3>5 DEF TypeOK
    <3>8. certs' = certs /\ Held' = Held
      BY <1>2 DEF ParticipantStep2, cvars, Held
    <3> QED
      BY <3>6, <3>7, <3>8, CertificateInvKept
  <2>3. CASE ~ call.reply.ok
    <3>1. \A q \in Honest : pmsg2'[q] = pmsg2[q]
      BY <2>1, <2>3 DEF TypeOK
    <3> QED
      BY <1>1, <1>2, <3>1 DEF ParticipantStep2, cvars
  <2> QED
    BY <2>2, <2>3
<1>3. ASSUME NEW p \in Honest, ParticipantFinalize(p) PROVE CertificateInv'
  <2>1. PICK cert \in DeliverableCerts :
           output' = [output EXCEPT ![p] =
             IF Transition(pst[p], "Step2", Step2Next(pst[p].st, cert)).reply.ok
             THEN @ \cup {Transition(pst[p], "Step2", Step2Next(pst[p].st, cert)).reply.val}
             ELSE @]
    BY <1>3 DEF ParticipantFinalize
  <2> DEFINE st == pst[p].st
             res == Step2Next(st, cert)
             call == Transition(pst[p], "Step2", res)
  <2>2. CASE call.reply.ok
    <3>1. pst[p].phase = "Step2" /\ res.ok /\ call.reply.val = res.out
      BY <2>2, TransitionCases
    <3>2. st.transcript.host_pubkeys \in Seq(Scalar)
      BY <3>1 DEF TypeOK, ParticipantDriver, NewParticipant, Driver
    <3>3. /\ res.out.recovery.transcript = st.transcript
          /\ res.out.recovery.cert = cert
          /\ VerifyCertificate(st.transcript, cert).ok
      BY <3>1, Step2NextOk
    <3>4. Certified(res.out.recovery)
      BY <3>2, <3>3, DeliverableCertsAuthentic DEF Certified
    <3>5. output' = [output EXCEPT ![p] = @ \cup {res.out}]
      BY <2>1, <2>2, <3>1
    <3> HIDE DEF res
    <3>6. UNCHANGED <<pmsg2, certs, coutput>>
      BY <1>3 DEF ParticipantFinalize, cvars
    <3>7. \A o \in Held' : o \in Held \/ o = res.out
      BY <3>5, <3>6 DEF Held, TypeOK
    <3> QED
      BY <3>4, <3>6, <3>7, CertificateInvKept DEF CertificateInv, OwnSignatures
  <2>3. CASE ~ call.reply.ok
    <3>1. \A q \in Honest : output'[q] = output[q]
      BY <2>1, <2>3 DEF TypeOK
    <3> QED
      BY <1>1, <1>3, <3>1 DEF ParticipantFinalize, cvars
  <2> QED
    BY <2>2, <2>3
<1>4. ASSUME NEW p \in Honest, ParticipantRecover(p) PROVE CertificateInv'
  <2>1. PICK recovery \in DeliverableRecovery :
           /\ PartyRecover(HostSec[p], recovery).ok
           /\ output' = [output EXCEPT ![p] = @ \cup
                            {[output |-> PartyRecover(HostSec[p], recovery).val,
                              recovery |-> recovery]}]
    BY <1>4 DEF ParticipantRecover
  <2>2. Certified(recovery)
    BY <2>1, PartyRecoverOk, DeliverableRecoveryAuthentic
  <2>3. UNCHANGED <<pmsg2, certs, coutput>>
    BY <1>4 DEF ParticipantRecover, cvars
  <2>4. \A o \in Held' : o \in Held \/ o.recovery = recovery
    BY <2>1, <2>3 DEF Held, TypeOK
  <2> QED
    BY <2>2, <2>3, <2>4, CertificateInvKept DEF CertificateInv, OwnSignatures
<1>5. ASSUME CoordinatorStep2 PROVE CertificateInv'
  <2>1. PICK order \in Orders : \E sigs \in Collected(order, SigsFrom) :
           LET call == Transition(cst, "Step1", CoordinatorStep1Next(cst.st, sigs))
           IN  IF call.reply.ok
               THEN /\ certs' = certs \cup {call.reply.val.cert}
                    /\ coutput' = coutput \cup
                           {[output   |-> call.reply.val.output,
                             recovery |-> call.reply.val.recovery]}
               ELSE UNCHANGED <<certs, coutput>>
    BY <1>5 DEF CoordinatorStep2
  <2>2. PICK sigs \in Collected(order, SigsFrom) :
           LET call == Transition(cst, "Step1", CoordinatorStep1Next(cst.st, sigs))
           IN  IF call.reply.ok
               THEN /\ certs' = certs \cup {call.reply.val.cert}
                    /\ coutput' = coutput \cup
                           {[output   |-> call.reply.val.output,
                             recovery |-> call.reply.val.recovery]}
               ELSE UNCHANGED <<certs, coutput>>
    BY <2>1
  <2> DEFINE st == cst.st
             res == CoordinatorStep1Next(st, sigs)
             call == Transition(cst, "Step1", res)
  <2>3. UNCHANGED <<pmsg2, output>>
    BY <1>5 DEF CoordinatorStep2, pvars
  <2>4. CASE call.reply.ok
    <3>1. cst.phase = "Step1" /\ res.ok /\ call.reply.val = res.out
      BY <2>4, TransitionCases
    <3>2. st.transcript.host_pubkeys \in Seq(Scalar)
      BY <3>1 DEF TypeOK, CoordinatorDriver, Absent, Driver
    <3>3. /\ res.out.cert = sigs
          /\ res.out.recovery.transcript = st.transcript
          /\ res.out.recovery.cert = sigs
          /\ VerifyCertificate(st.transcript, sigs).ok
      BY <3>1, CoordinatorStep1NextOk
    <3>4. AuthenticCert(sigs)
      BY MadeUpCertsAuthentic DEF CertificateInv
    <3>5. Certified(res.out.recovery)
      BY <3>2, <3>3, <3>4 DEF Certified
    <3>6. /\ certs' = certs \cup {sigs}
          /\ coutput' = coutput \cup {[output |-> res.out.output,
                                       recovery |-> res.out.recovery]}
      BY <2>2, <2>4, <3>1, <3>3
    <3> HIDE DEF res
    <3>7. \A o \in Held' : o \in Held \/ o.recovery = res.out.recovery
      BY <2>3, <3>6 DEF Held
    <3> QED
      BY <2>3, <3>4, <3>5, <3>6, <3>7, CertificateInvKept
         DEF CertificateInv, OwnSignatures
  <2>5. CASE ~ call.reply.ok
    BY <1>1, <2>2, <2>3, <2>5
  <2> QED
    BY <2>4, <2>5
<1>6. ASSUME CoordinatorRecovers PROVE CertificateInv'
  <2>1. PICK recovery \in DeliverableRecovery :
           /\ CoordinatorRecover(recovery).ok
           /\ coutput' = coutput \cup {[output |-> CoordinatorRecover(recovery).val,
                                        recovery |-> recovery]}
    BY <1>6 DEF CoordinatorRecovers
  <2>2. Certified(recovery)
    BY <2>1, CoordinatorRecoverOk, DeliverableRecoveryAuthentic
  <2>3. UNCHANGED <<pmsg2, certs, output>>
    BY <1>6 DEF CoordinatorRecovers, pvars
  <2>4. \A o \in Held' : o \in Held \/ o.recovery = recovery
    BY <2>1, <2>3 DEF Held
  <2> QED
    BY <2>2, <2>3, <2>4, CertificateInvKept DEF CertificateInv, OwnSignatures
<1>7. ASSUME \/ \E p \in Honest : \/ ParticipantStep1(p)
                                  \/ ParticipantClone(p)
                                  \/ ParticipantRestart(p)
             \/ CoordinatorCreate \/ CoordinatorStep1 \/ UNCHANGED vars
      PROVE  UNCHANGED <<pmsg2, certs, output, coutput>>
  BY <1>7 DEF ParticipantStep1, ParticipantClone, ParticipantRestart, CoordinatorCreate,
              CoordinatorStep1, cvars, pvars, vars
<1> QED
  BY <1>1, <1>2, <1>3, <1>4, <1>5, <1>6, <1>7
     DEF Next, Progress, ParticipantCall, CoordinatorCall

LEMMA HeldIsCertifiedByAll == CertificateInv => CertifiedByAll
<1> SUFFICES ASSUME CertificateInv, NEW o \in Held,
                    NEW q \in HonestMembers(o.recovery.transcript)
             PROVE  HasSigned(q, o.recovery.transcript)
  BY DEF CertifiedByAll
<1> DEFINE T == o.recovery.transcript
           cert == o.recovery.cert
<1>1. /\ T.host_pubkeys \in Seq(Scalar)
      /\ AuthenticCert(cert)
      /\ VerifyCertificate(T, cert).ok
  BY DEF CertificateInv, Certified
<1>2. q \in Honest /\ HostKey(q) \in Range(T.host_pubkeys)
  BY DEF HonestMembers
<1>3. PICK i \in 1 .. Len(T.host_pubkeys) : T.host_pubkeys[i] = HostKey(q)
  BY <1>1, <1>2, LenProperties DEF Range
<1>4. Len(cert) = Len(T.host_pubkeys) /\ cert[i] = Sig(XOnly(HostKey(q)), i, T)
  BY <1>1, <1>3, VerifiedCertificate
<1>5. cert[i].key = XOnly(HostKey(q)) /\ cert[i].transcript = T
  BY <1>4 DEF Sig
<1>6. Authentic(cert[i])
  BY <1>1, <1>4 DEF AuthenticCert
<1>7. cert[i] \in pmsg2[q]
  BY <1>2, <1>5, <1>6 DEF Authentic
<1> QED
  BY <1>5, <1>7 DEF HasSigned

(***************************************************************************)
(* Whatever faulty parties and a faulty coordinator send, and whatever     *)
(* recovery data is handed round, an output is held only for a transcript  *)
(* that every honest member has signed.                                    *)
(***************************************************************************)
THEOREM CertificateMeansAllSigned == Spec => []CertifiedByAll
<1>1. Init => TypeOK /\ CertificateInv
  BY TypeOKInit, CertificateInvInit
<1>2. TypeOK /\ CertificateInv /\ [Next]_vars => (TypeOK /\ CertificateInv)'
  BY TypeOKStep, CertificateInvStep
<1>3. CertificateInv => CertifiedByAll
  BY HeldIsCertifiedByAll
<1> QED
  BY <1>1, <1>2, <1>3, PTL DEF Spec

-----------------------------------------------------------------------------
(* One signature per driver *)

(***************************************************************************)
(* The drivers of p that can still sign: its last one, before its second   *)
(* step.  The invariant counts it with the signatures already made.        *)
(***************************************************************************)
Unsigned(p) == IF pst[p].phase \in {"Initial", "Step1"} THEN 1 ELSE 0

SignatureCount ==
    \A p \in Honest :
        IsFiniteSet(pmsg2[p]) /\ Cardinality(pmsg2[p]) + Unsigned(p) <= sessions[p]

LEMMA SignatureCountInit == Init => SignatureCount
BY FS_EmptySet DEF Init, SignatureCount, Unsigned, NewParticipant, Driver

LEMMA SignatureCountStep ==
    TypeOK /\ SignatureCount /\ [Next]_vars => SignatureCount'
<1> SUFFICES ASSUME TypeOK, SignatureCount, [Next]_vars PROVE SignatureCount'
  OBVIOUS
<1>0. \A p \in Honest : /\ Cardinality(pmsg2[p]) \in Nat
                        /\ sessions[p] \in Nat
                        /\ Unsigned(p) \in {0, 1}
  BY FS_CardinalityType, SwitchesAssumption DEF SignatureCount, TypeOK, Unsigned
<1>1. ASSUME NEW p \in Honest,
             \A q \in Honest : /\ pmsg2'[q] = pmsg2[q]
                               /\ sessions'[q] = sessions[q]
                               /\ q # p => pst'[q] = pst[q],
             \/ pst'[p] = pst[p]
             \/ pst'[p].phase = "Step1" /\ pst[p].phase = "Initial"
             \/ pst'[p].phase \in {"Failed", "Successful"}
      PROVE  SignatureCount'
  <2>1. \A q \in Honest : Unsigned(q)' <= Unsigned(q)
    BY <1>1, <1>0 DEF Unsigned
  <2>2. \A q \in Honest : Unsigned(q)' \in {0, 1}
    BY DEF Unsigned
  <2> QED
    BY <1>0, <1>1, <2>1, <2>2 DEF SignatureCount
<1>2. ASSUME NEW p \in Honest, ParticipantStep1(p) PROVE SignatureCount'
  <2>1. PICK params \in ParamChoices[p], random \in Randoms :
           pst' = [pst EXCEPT ![p] =
                     Transition(pst[p], "Initial",
                                InitialNext(pst[p].st, params, random)).state]
    BY <1>2 DEF ParticipantStep1
  <2> DEFINE res == InitialNext(pst[p].st, params, random)
             call == Transition(pst[p], "Initial", res)
  <2>2. params \in [host_pubkeys : Seq(Scalar), t : Nat]
    BY ParamsAssumption DEF Params
  <2>3. ASSUME res.ok PROVE res.phase = "Step1" /\ res.st.s = pst[p].st.s
    BY <2>2, <2>3, InitialNextOk
  <2>4. \/ call.state = pst[p] \/ call.state.phase = "Failed"
        \/ /\ pst[p].phase = "Initial"
           /\ res.ok
           /\ call.state = Driver(res.phase, res.st)
    BY TransitionCases
  <2>5. pst' = [pst EXCEPT ![p] = call.state]
    BY <2>1
  <2> HIDE DEF call, res
  <2>6. \/ call.state = pst[p]
        \/ call.state.phase = "Step1" /\ pst[p].phase = "Initial"
        \/ call.state.phase = "Failed"
    BY <2>3, <2>4 DEF Driver
  <2>7. UNCHANGED <<pmsg2, sessions>>
    BY <1>2 DEF ParticipantStep1
  <2> QED
    BY <1>1, <2>5, <2>6, <2>7 DEF TypeOK
<1>3. ASSUME NEW p \in Honest, ParticipantStep2(p) PROVE SignatureCount'
  <2>1. PICK msg \in DeliverableCmsg1 :
           LET call == Transition(pst[p], "Step1", Step1Next(pst[p].st, msg))
           IN  /\ pst' = [pst EXCEPT ![p] = call.state]
               /\ pmsg2' = [pmsg2 EXCEPT ![p] =
                              IF call.reply.ok THEN @ \cup {call.reply.val} ELSE @]
    BY <1>3 DEF ParticipantStep2
  <2> DEFINE st == pst[p].st
             res == Step1Next(st, msg)
             call == Transition(pst[p], "Step1", res)
  <2>2. sessions' = sessions
    BY <1>3 DEF ParticipantStep2
  <2>3. CASE call.reply.ok
    <3>1. /\ pst[p].phase = "Step1"
          /\ res.ok
          /\ call.state = Driver(res.phase, res.st)
      BY <2>3, TransitionCases
    <3>2. res.phase = "Step2"
      <4>1. st.host_pubkeys \in Seq(Scalar)
        BY <3>1 DEF TypeOK, ParticipantDriver, NewParticipant, Driver
      <4> QED
        BY <3>1, <4>1, Step1NextOk
    <3>3. PICK sig : pmsg2' = [pmsg2 EXCEPT ![p] = @ \cup {sig}]
      BY <2>1, <2>3
    <3>4. pst' = [pst EXCEPT ![p] = call.state]
      BY <2>1
    <3> HIDE DEF call, res
    <3>5. pst'[p].phase = "Step2"
      BY <3>1, <3>2, <3>4 DEF Driver, TypeOK
    <3>6. Unsigned(p) = 1 /\ Unsigned(p)' = 0
      BY <3>1, <3>5 DEF Unsigned
    <3>7. \A q \in Honest \ {p} : pmsg2'[q] = pmsg2[q] /\ Unsigned(q)' = Unsigned(q)
      BY <3>3, <3>4 DEF TypeOK, Unsigned
    <3>8. pmsg2'[p] = pmsg2[p] \cup {sig}
      BY <3>3 DEF TypeOK
    <3>9. /\ IsFiniteSet(pmsg2'[p])
          /\ Cardinality(pmsg2'[p]) <= Cardinality(pmsg2[p]) + 1
      <4>1. IsFiniteSet(pmsg2[p])
        BY DEF SignatureCount
      <4>2. /\ IsFiniteSet(pmsg2[p] \cup {sig})
            /\ Cardinality(pmsg2[p] \cup {sig}) =
                  IF sig \in pmsg2[p] THEN Cardinality(pmsg2[p])
                                     ELSE Cardinality(pmsg2[p]) + 1
        BY <4>1, FS_AddElement, Zenon
      <4> QED
        BY <1>0, <3>8, <4>2
    <3>10. Cardinality(pmsg2'[p]) \in Nat
      BY <3>9, FS_CardinalityType
    <3> QED
      BY <1>0, <2>2, <3>6, <3>7, <3>9, <3>10 DEF SignatureCount
  <2>4. CASE ~ call.reply.ok
    <3>1. call.state = pst[p] \/ call.state.phase = "Failed"
      BY <2>4, TransitionCases
    <3>2. pst' = [pst EXCEPT ![p] = call.state]
      BY <2>1
    <3>3. \A q \in Honest : pmsg2'[q] = pmsg2[q]
      BY <2>1, <2>4 DEF TypeOK
    <3> HIDE DEF call
    <3> QED
      BY <1>1, <2>2, <3>1, <3>2, <3>3 DEF TypeOK
  <2> QED
    BY <2>3, <2>4
<1>4. ASSUME NEW p \in Honest, ParticipantFinalize(p) PROVE SignatureCount'
  <2>1. PICK cert \in DeliverableCerts :
           pst' = [pst EXCEPT ![p] =
                     Transition(pst[p], "Step2", Step2Next(pst[p].st, cert)).state]
    BY <1>4 DEF ParticipantFinalize
  <2> DEFINE res == Step2Next(pst[p].st, cert)
             call == Transition(pst[p], "Step2", res)
  <2>2. \/ call.state = pst[p] \/ call.state.phase = "Failed"
        \/ res.ok /\ call.state = Driver(res.phase, res.st)
    BY TransitionCases
  <2>3. res.ok => res.phase = "Successful"
    BY Step2NextOk
  <2>4. pst' = [pst EXCEPT ![p] = call.state]
    BY <2>1
  <2> HIDE DEF call, res
  <2>5. call.state = pst[p] \/ call.state.phase \in {"Failed", "Successful"}
    BY <2>2, <2>3 DEF Driver
  <2>6. UNCHANGED <<pmsg2, sessions>>
    BY <1>4 DEF ParticipantFinalize
  <2> QED
    BY <1>1, <2>4, <2>5, <2>6 DEF TypeOK
<1>5. ASSUME NEW p \in Honest, ParticipantRestart(p) PROVE SignatureCount'
  <2>0. PICK driver : pst' = [pst EXCEPT ![p] = driver]
    BY <1>5 DEF ParticipantRestart
  <2>1. /\ pmsg2' = pmsg2
        /\ \A q \in Honest \ {p} : sessions'[q] = sessions[q] /\ pst'[q] = pst[q]
        /\ sessions'[p] = sessions[p] + 1
    BY <1>5, <2>0 DEF ParticipantRestart, TypeOK
  <2>2. Unsigned(p)' \in {0, 1} /\ \A q \in Honest \ {p} : Unsigned(q)' = Unsigned(q)
    BY <2>1 DEF Unsigned
  <2> QED
    BY <1>0, <2>1, <2>2 DEF SignatureCount
<1>6. ASSUME UNCHANGED <<pst, pmsg2, sessions>> PROVE SignatureCount'
  BY <1>6 DEF SignatureCount, Unsigned
<1>7. ASSUME \/ \E p \in Honest : ParticipantRecover(p) \/ ParticipantClone(p)
             \/ CoordinatorCall \/ UNCHANGED vars
      PROVE  UNCHANGED <<pst, pmsg2, sessions>>
  BY <1>7 DEF ParticipantRecover, ParticipantClone, CoordinatorCall, CoordinatorCreate, CoordinatorStep1,
              CoordinatorStep2, CoordinatorRecovers, pvars, vars
<1> QED
  BY <1>2, <1>3, <1>4, <1>5, <1>6, <1>7 DEF Next, Progress, ParticipantCall

(***************************************************************************)
(* A party signs no more transcripts than it has had drivers, even when    *)
(* its caller runs steps out of order and the coordinator sends it several *)
(* messages.                                                               *)
(***************************************************************************)
THEOREM OneSignaturePerSession == Spec => []SignOncePerSession
<1>1. Init => TypeOK /\ SignatureCount
  BY TypeOKInit, SignatureCountInit
<1>2. TypeOK /\ SignatureCount /\ [Next]_vars => (TypeOK /\ SignatureCount)'
  BY TypeOKStep, SignatureCountStep
<1>3. TypeOK /\ SignatureCount => SignOncePerSession
  <2> SUFFICES ASSUME TypeOK, SignatureCount, NEW p \in Honest
               PROVE  Cardinality(pmsg2[p]) <= sessions[p]
    BY DEF SignOncePerSession
  <2>1. Cardinality(pmsg2[p]) \in Nat /\ sessions[p] \in Nat
    BY FS_CardinalityType, SwitchesAssumption DEF SignatureCount, TypeOK
  <2> QED
    BY <2>1 DEF SignatureCount, Unsigned
<1> QED
  BY <1>1, <1>2, <1>3, PTL DEF Spec

-----------------------------------------------------------------------------
(***************************************************************************)
(* Nobody can make honest parties that have not restarted finish with      *)
(* different transcripts: each has signed one, and a certificate holds     *)
(* the signatures of all of them.                                          *)
(***************************************************************************)
THEOREM AllAgree == Spec => []Agreement
<1>1. TypeOK /\ SignatureCount /\ CertifiedByAll => Agreement
  <2> SUFFICES ASSUME TypeOK, SignatureCount, CertifiedByAll,
                      \A p \in Honest : sessions[p] = 1,
                      NEW o1 \in Held, NEW o2 \in Held,
                      NEW q \in HonestMembers(o1.recovery.transcript)
                                \cap HonestMembers(o2.recovery.transcript)
               PROVE  o1.recovery.transcript = o2.recovery.transcript
    BY DEF Agreement
  <2>1. q \in Honest
    BY DEF HonestMembers
  <2>2. PICK sig1 \in pmsg2[q] : sig1.transcript = o1.recovery.transcript
    BY DEF CertifiedByAll, HasSigned
  <2>3. PICK sig2 \in pmsg2[q] : sig2.transcript = o2.recovery.transcript
    BY DEF CertifiedByAll, HasSigned
  <2>4. IsFiniteSet(pmsg2[q]) /\ Cardinality(pmsg2[q]) <= 1
    <3>1. Cardinality(pmsg2[q]) \in Nat
      BY <2>1, FS_CardinalityType DEF SignatureCount
    <3> QED
      BY <2>1, <3>1 DEF SignatureCount, Unsigned
  <2>5. sig1 = sig2
    <3> SUFFICES ASSUME sig1 # sig2 PROVE FALSE
      OBVIOUS
    <3>1. IsFiniteSet({sig1}) /\ Cardinality({sig1}) = 1
      BY FS_Singleton
    <3>2. Cardinality({sig1} \cup {sig2}) = 2
      <4>1. Cardinality({sig1} \cup {sig2}) =
               IF sig2 \in {sig1} THEN Cardinality({sig1}) ELSE Cardinality({sig1}) + 1
        BY <3>1, FS_AddElement, Zenon
      <4> QED
        BY <3>1, <4>1
    <3>3. Cardinality({sig1} \cup {sig2}) <= Cardinality(pmsg2[q])
      BY <2>4, FS_Subset
    <3>4. Cardinality(pmsg2[q]) \in Nat
      BY <2>4, FS_CardinalityType
    <3> QED
      BY <2>4, <3>2, <3>3, <3>4
  <2> QED
    BY <2>2, <2>3, <2>5
<1>2. Init => TypeOK /\ SignatureCount
  BY TypeOKInit, SignatureCountInit
<1>3. TypeOK /\ SignatureCount /\ [Next]_vars => (TypeOK /\ SignatureCount)'
  BY TypeOKStep, SignatureCountStep
<1> QED
  BY <1>1, <1>2, <1>3, CertificateMeansAllSigned, PTL DEF Spec

-----------------------------------------------------------------------------
(* The session implements the certificate of equality. *)

LEMMA AcceptStep ==
    ASSUME CertifiedByAll', pmsg2' = pmsg2,
           NEW h \in Honest \cup {Coordinator}, NEW o \in Held',
           CertEqAccepted' = [CertEqAccepted EXCEPT ![h] = @ \cup {o.recovery.transcript}]
    PROVE  CE!Accept(h)
<1> DEFINE T == o.recovery.transcript
<1>1. T \in CertEqAccepted'[h]
  BY DEF CertEqAccepted
<1>2. CertEqSigned' = CertEqSigned
  BY DEF CertEqSigned
<1>3. ASSUME NEW q \in HonestMembers(T) PROVE T \in CertEqSigned[q]
  <2>1. q \in Honest
    BY DEF HonestMembers
  <2>2. PICK sig \in pmsg2[q] : sig.transcript = T
    BY DEF CertifiedByAll, HasSigned
  <2> QED
    BY <2>1, <2>2 DEF CertEqSigned
<1> QED
  BY <1>1, <1>2, <1>3 DEF CE!Accept

LEMMA SignStep ==
    ASSUME NEW p \in Honest, NEW sig, DOMAIN pmsg2 = Honest,
           pmsg2' = [pmsg2 EXCEPT ![p] = @ \cup {sig}], CertEqAccepted' = CertEqAccepted
    PROVE  CE!Sign(p)
<1>1. CertEqSigned' = [CertEqSigned EXCEPT ![p] = @ \cup {sig.transcript}]
  BY DEF CertEqSigned
<1>2. sig.transcript \in CertEqSigned'[p]
  BY DEF CertEqSigned
<1> QED
  BY <1>1, <1>2 DEF CE!Sign

LEMMA OutputAccepted ==
    ASSUME NEW p \in Honest, NEW o, DOMAIN output = Honest,
           output' = [output EXCEPT ![p] = @ \cup {o}], coutput' = coutput
    PROVE  /\ o \in Held'
           /\ CertEqAccepted' =
                [CertEqAccepted EXCEPT ![p] = @ \cup {o.recovery.transcript}]
<1>1. p # Coordinator
  BY PartiesAssumption DEF Coordinator
<1>2. o \in output'[p]
  OBVIOUS
<1> QED
  BY <1>1, <1>2 DEF CertEqAccepted, Held

LEMMA CoordinatorOutputAccepted ==
    ASSUME NEW o, coutput' = coutput \cup {o}, output' = output
    PROVE  /\ o \in Held'
           /\ CertEqAccepted' =
                [CertEqAccepted EXCEPT ![Coordinator] = @ \cup {o.recovery.transcript}]
<1>1. Coordinator \notin Honest
  BY PartiesAssumption DEF Coordinator
<1> QED
  BY <1>1 DEF CertEqAccepted, Held

LEMMA ImplementsCertEqStep ==
    ASSUME TypeOK, CertifiedByAll', [Next]_vars
    PROVE  [CE!Next]_(CE!vars)
<1>1. ASSUME \A q \in Honest : pmsg2'[q] = pmsg2[q] /\ output'[q] = output[q],
             coutput' = coutput
      PROVE  UNCHANGED <<CertEqSigned, CertEqAccepted>>
  <2>1. \A h \in (Honest \cup {Coordinator}) \ {Coordinator} : h \in Honest
    OBVIOUS
  <2> QED
    BY <1>1, <2>1 DEF CertEqSigned, CertEqAccepted
<1>2. ASSUME NEW p \in Honest, ParticipantStep2(p)
      PROVE  CE!Sign(p) \/ UNCHANGED <<CertEqSigned, CertEqAccepted>>
  <2>1. PICK msg \in DeliverableCmsg1 :
           LET call == Transition(pst[p], "Step1", Step1Next(pst[p].st, msg))
           IN  pmsg2' = [pmsg2 EXCEPT ![p] =
                            IF call.reply.ok THEN @ \cup {call.reply.val} ELSE @]
    BY <1>2 DEF ParticipantStep2
  <2> DEFINE call == Transition(pst[p], "Step1", Step1Next(pst[p].st, msg))
  <2>2. output' = output /\ coutput' = coutput
    BY <1>2 DEF ParticipantStep2, cvars
  <2>3. DOMAIN pmsg2 = Honest
    BY DEF TypeOK
  <2>4. CASE call.reply.ok
    <3>1. pmsg2' = [pmsg2 EXCEPT ![p] = @ \cup {call.reply.val}]
      BY <2>1, <2>4
    <3>2. CertEqAccepted' = CertEqAccepted
      BY <2>2 DEF CertEqAccepted
    <3> HIDE DEF call
    <3> QED
      BY <2>3, <3>1, <3>2, SignStep
  <2>5. CASE ~ call.reply.ok
    <3>1. \A q \in Honest : pmsg2'[q] = pmsg2[q]
      BY <2>1, <2>3, <2>5
    <3> QED
      BY <1>1, <2>2, <3>1
  <2> QED
    BY <2>4, <2>5
<1>3. ASSUME NEW p \in Honest, ParticipantFinalize(p)
      PROVE  CE!Accept(p) \/ UNCHANGED <<CertEqSigned, CertEqAccepted>>
  <2>1. PICK cert \in DeliverableCerts :
           LET call == Transition(pst[p], "Step2", Step2Next(pst[p].st, cert))
           IN  output' = [output EXCEPT ![p] =
                             IF call.reply.ok THEN @ \cup {call.reply.val} ELSE @]
    BY <1>3 DEF ParticipantFinalize
  <2> DEFINE call == Transition(pst[p], "Step2", Step2Next(pst[p].st, cert))
  <2>2. pmsg2' = pmsg2 /\ coutput' = coutput
    BY <1>3 DEF ParticipantFinalize, cvars
  <2>3. DOMAIN output = Honest
    BY DEF TypeOK
  <2>4. CASE call.reply.ok
    <3>1. output' = [output EXCEPT ![p] = @ \cup {call.reply.val}]
      BY <2>1, <2>4
    <3> HIDE DEF call
    <3> QED
      BY <2>2, <2>3, <3>1, OutputAccepted, AcceptStep
  <2>5. CASE ~ call.reply.ok
    <3>1. \A q \in Honest : output'[q] = output[q]
      BY <2>1, <2>3, <2>5
    <3> QED
      BY <1>1, <2>2, <3>1
  <2> QED
    BY <2>4, <2>5
<1>4. ASSUME NEW p \in Honest, ParticipantRecover(p) PROVE CE!Accept(p)
  <2>1. PICK o : output' = [output EXCEPT ![p] = @ \cup {o}]
    BY <1>4 DEF ParticipantRecover
  <2>2. pmsg2' = pmsg2 /\ coutput' = coutput
    BY <1>4 DEF ParticipantRecover, cvars
  <2>3. DOMAIN output = Honest
    BY DEF TypeOK
  <2> QED
    BY <2>1, <2>2, <2>3, OutputAccepted, AcceptStep
<1>5. ASSUME CoordinatorStep2
      PROVE  CE!Accept(Coordinator) \/ UNCHANGED <<CertEqSigned, CertEqAccepted>>
  <2>1. pmsg2' = pmsg2 /\ output' = output
    BY <1>5 DEF CoordinatorStep2, pvars
  <2>2. coutput' = coutput \/ \E o : coutput' = coutput \cup {o}
    BY <1>5 DEF CoordinatorStep2
  <2> QED
    BY <1>1, <2>1, <2>2, CoordinatorOutputAccepted, AcceptStep
<1>6. ASSUME CoordinatorRecovers PROVE CE!Accept(Coordinator)
  <2>1. pmsg2' = pmsg2 /\ output' = output
    BY <1>6 DEF CoordinatorRecovers, pvars
  <2>2. PICK o : coutput' = coutput \cup {o}
    BY <1>6 DEF CoordinatorRecovers
  <2> QED
    BY <2>1, <2>2, CoordinatorOutputAccepted, AcceptStep
<1>7. ASSUME \/ \E p \in Honest : \/ ParticipantStep1(p)
                                  \/ ParticipantClone(p)
                                  \/ ParticipantRestart(p)
             \/ CoordinatorCreate \/ CoordinatorStep1 \/ UNCHANGED vars
      PROVE  UNCHANGED <<CertEqSigned, CertEqAccepted>>
  <2>1. UNCHANGED <<pmsg2, output, coutput>>
    BY <1>7 DEF ParticipantStep1, ParticipantClone, ParticipantRestart, CoordinatorCreate,
                CoordinatorStep1, cvars, pvars, vars
  <2> QED
    BY <1>1, <2>1
<1> QED
  BY <1>2, <1>3, <1>4, <1>5, <1>6, <1>7
     DEF Next, Progress, ParticipantCall, CoordinatorCall, CE!Next, CE!vars

(***************************************************************************)
(* Every step of a session is a step of the certificate of equality, or    *)
(* leaves what is signed and accepted unchanged.                           *)
(***************************************************************************)
THEOREM SessionImplementsCertEq == Spec => ImplementsCertEq
<1>1. Init => CE!Init
  BY PartiesAssumption DEF Init, CE!Init, CertEqSigned, CertEqAccepted, Coordinator
<1>2. TypeOK /\ CertifiedByAll' /\ [Next]_vars => [CE!Next]_(CE!vars)
  BY ImplementsCertEqStep
<1> QED
  BY <1>1, <1>2, TypeCorrect, CertificateMeansAllSigned, PTL
     DEF Spec, ImplementsCertEq, CE!Spec

-----------------------------------------------------------------------------
(* The life cycle of a driver. *)

Phases ==
    [d \in Honest \cup {Coordinator} |->
        IF d = Coordinator THEN cst.phase ELSE pst[d].phase]

(***************************************************************************)
(* Clones are made of active drivers, and an absent coordinator is one     *)
(* that was not created yet.                                               *)
(***************************************************************************)
LifecycleInv ==
    /\ \A p \in Honest : \A d \in copies[p] : AllowClones /\ IsActive(d)
    /\ csessions = 0 => cst.phase = "Absent"

LEMMA TransitionPhase ==
    ASSUME NEW d, NEW expected, NEW res,
           NEW call, call = Transition(d, expected, res)
    PROVE  \/ call.state = d
           \/ IsActive(d) /\ call.state.phase = "Failed"
           \/ /\ d.phase = expected
              /\ res.ok
              /\ call.state.phase = res.phase
BY DEF Transition, Failed, Driver

LEMMA CoordinatorIsNoParty == Coordinator \notin Honest
BY PartiesAssumption DEF Coordinator

(***************************************************************************)
(* What a step of one driver means for the phases.                         *)
(***************************************************************************)
LEMMA ParticipantPhase ==
    ASSUME TypeOK, NEW p \in Honest, NEW driver,
           pst' = [pst EXCEPT ![p] = driver], cst' = cst
    PROVE  /\ Phases[p] = pst[p].phase
           /\ Phases' = [Phases EXCEPT ![p] = driver.phase]
BY CoordinatorIsNoParty DEF Phases, TypeOK

LEMMA CoordinatorPhase ==
    ASSUME pst' = pst
    PROVE  /\ Phases[Coordinator] = cst.phase
           /\ Phases' = [Phases EXCEPT ![Coordinator] = cst'.phase]
BY CoordinatorIsNoParty DEF Phases

(***************************************************************************)
(* The moves of the life cycle, phase by phase.                            *)
(***************************************************************************)
StepsOf ==
    [d \in Honest \cup {Coordinator} |->
        IF d = Coordinator THEN <<"Initial", "Step1">> ELSE <<"Initial", "Step1", "Step2">>]

Moved(d, from, to) == Phases[d] = from /\ Phases' = [Phases EXCEPT ![d] = to]

LEMMA ParticipantSteps ==
    ASSUME NEW p \in Honest
    PROVE  /\ p \in Honest \cup {Coordinator}
           /\ StepsOf[p] = <<"Initial", "Step1", "Step2">>
           /\ DOMAIN StepsOf[p] = {1, 2, 3} /\ Len(StepsOf[p]) = 3
           /\ StepsOf[p][1] = "Initial"
           /\ StepsOf[p][2] = "Step1"
           /\ StepsOf[p][3] = "Step2"
<1>1. StepsOf[p] = <<"Initial", "Step1", "Step2">>
  BY CoordinatorIsNoParty DEF StepsOf
<1> QED
  BY <1>1

LEMMA CoordinatorSteps ==
    /\ Coordinator \in Honest \cup {Coordinator}
    /\ StepsOf[Coordinator] = <<"Initial", "Step1">>
    /\ DOMAIN StepsOf[Coordinator] = {1, 2} /\ Len(StepsOf[Coordinator]) = 2
    /\ StepsOf[Coordinator][1] = "Initial"
    /\ StepsOf[Coordinator][2] = "Step1"
<1>1. StepsOf[Coordinator] = <<"Initial", "Step1">>
  BY DEF StepsOf
<1> QED
  BY <1>1

LEMMA LifecycleMoves ==
    ASSUME NEW d \in Honest \cup {Coordinator}, NEW k \in DOMAIN StepsOf[d]
    PROVE  /\ Moved(d, StepsOf[d][k], "Failed") => LC!Next
           /\ k + 1 \in DOMAIN StepsOf[d] /\ Moved(d, StepsOf[d][k], StepsOf[d][k + 1])
                 => LC!Next
           /\ k = Len(StepsOf[d]) /\ Moved(d, StepsOf[d][k], "Successful") => LC!Next
           /\ (MaxSessions > 1 /\ (k = 1 \/ AllowClones)
                  /\ Phases' = [Phases EXCEPT ![d] = StepsOf[d][k]]) => LC!Next
<1>1. DOMAIN StepsOf[d] = 1 .. Len(StepsOf[d]) /\ Len(StepsOf[d]) \in Nat
  BY ParticipantSteps, CoordinatorSteps
<1>2. Moved(d, StepsOf[d][k], "Failed") => LC!Fail(d)
  BY DEF LC!Fail, LC!Move, Moved, Phases, StepsOf
<1>3. k + 1 \in DOMAIN StepsOf[d] /\ Moved(d, StepsOf[d][k], StepsOf[d][k + 1])
         => LC!Proceed(d)
  <2>1. k + 1 \in DOMAIN StepsOf[d] => k \in 1 .. (Len(StepsOf[d]) - 1)
    BY <1>1
  <2> QED
    BY <2>1 DEF LC!Proceed, LC!Move, Moved, Phases, StepsOf
<1>4. k = Len(StepsOf[d]) /\ Moved(d, StepsOf[d][k], "Successful") => LC!Succeed(d)
  BY DEF LC!Succeed, LC!Move, Moved, Phases, StepsOf
<1>5. (MaxSessions > 1 /\ (k = 1 \/ AllowClones)
         /\ Phases' = [Phases EXCEPT ![d] = StepsOf[d][k]]) => LC!New(d)
  BY DEF LC!New, Phases, StepsOf
<1> QED
  BY <1>2, <1>3, <1>4, <1>5 DEF LC!Next

(***************************************************************************)
(* A call of a participant's step takes it to the next phase, to Failed or *)
(* nowhere.                                                                *)
(***************************************************************************)
LEMMA ParticipantMoves ==
    ASSUME TypeOK, NEW p \in Honest, NEW expected, NEW res,
           NEW call, call = Transition(pst[p], expected, res),
           res.ok => <<expected, res.phase>> \in
                        {<<"Initial", "Step1">>, <<"Step1", "Step2">>,
                         <<"Step2", "Successful">>},
           pst' = [pst EXCEPT ![p] = call.state], cst' = cst
    PROVE  LC!Next \/ UNCHANGED Phases
<1>1. /\ Phases[p] = pst[p].phase
      /\ Phases' = [Phases EXCEPT ![p] = call.state.phase]
  BY ParticipantPhase
<1>2. /\ p \in Honest \cup {Coordinator}
      /\ DOMAIN StepsOf[p] = {1, 2, 3} /\ Len(StepsOf[p]) = 3
      /\ StepsOf[p][1] = "Initial" /\ StepsOf[p][2] = "Step1" /\ StepsOf[p][3] = "Step2"
  BY ParticipantSteps
<1>3. CASE call.state = pst[p]
  <2>1. UNCHANGED Phases
    BY <1>1, <1>3 DEF Phases
  <2> QED
    BY <2>1
<1>4. CASE IsActive(pst[p]) /\ call.state.phase = "Failed"
  <2>1. PICK k \in DOMAIN StepsOf[p] : pst[p].phase = StepsOf[p][k]
    BY <1>2, <1>4 DEF IsActive
  <2>2. Moved(p, StepsOf[p][k], "Failed")
    BY <1>1, <1>4, <2>1 DEF Moved
  <2> QED
    BY <1>2, <2>2, LifecycleMoves
<1>5. CASE pst[p].phase = expected /\ res.ok /\ call.state.phase = res.phase
  <2>1. CASE expected = "Step2"
    <3>1. 3 \in DOMAIN StepsOf[p] /\ Moved(p, StepsOf[p][3], "Successful")
      BY <1>1, <1>2, <1>5, <2>1 DEF Moved
    <3> QED
      BY <1>2, <3>1, LifecycleMoves
  <2>2. CASE expected = "Initial"
    <3>1. 1 \in DOMAIN StepsOf[p] /\ 1 + 1 \in DOMAIN StepsOf[p] /\ 1 + 1 = 2
      BY <1>2
    <3>2. Moved(p, StepsOf[p][1], StepsOf[p][1 + 1])
      BY <1>1, <1>2, <1>5, <2>2, <3>1 DEF Moved
    <3> QED
      BY <1>2, <3>1, <3>2, LifecycleMoves
  <2>3. CASE expected = "Step1"
    <3>1. 2 \in DOMAIN StepsOf[p] /\ 2 + 1 \in DOMAIN StepsOf[p] /\ 2 + 1 = 3
      BY <1>2
    <3>2. Moved(p, StepsOf[p][2], StepsOf[p][2 + 1])
      BY <1>1, <1>2, <1>5, <2>3, <3>1 DEF Moved
    <3> QED
      BY <1>2, <3>1, <3>2, LifecycleMoves
  <2> QED
    BY <1>5, <2>1, <2>2, <2>3
<1> QED
  BY <1>3, <1>4, <1>5, TransitionPhase

LEMMA CoordinatorMoves ==
    ASSUME NEW expected, NEW res,
           NEW call, call = Transition(cst, expected, res),
           res.ok => <<expected, res.phase>> \in
                        {<<"Initial", "Step1">>, <<"Step1", "Successful">>},
           cst.phase # "Step2", cst' = call.state, pst' = pst
    PROVE  LC!Next \/ UNCHANGED Phases
<1>1. /\ Phases[Coordinator] = cst.phase
      /\ Phases' = [Phases EXCEPT ![Coordinator] = call.state.phase]
  BY CoordinatorPhase
<1>2. /\ Coordinator \in Honest \cup {Coordinator}
      /\ DOMAIN StepsOf[Coordinator] = {1, 2} /\ Len(StepsOf[Coordinator]) = 2
      /\ StepsOf[Coordinator][1] = "Initial" /\ StepsOf[Coordinator][2] = "Step1"
  BY CoordinatorSteps
<1>3. CASE call.state = cst
  <2>1. UNCHANGED Phases
    BY <1>1, <1>3 DEF Phases
  <2> QED
    BY <2>1
<1>4. CASE IsActive(cst) /\ call.state.phase = "Failed"
  <2>1. PICK k \in DOMAIN StepsOf[Coordinator] : cst.phase = StepsOf[Coordinator][k]
    BY <1>2, <1>4 DEF IsActive
  <2>2. Moved(Coordinator, StepsOf[Coordinator][k], "Failed")
    BY <1>1, <1>4, <2>1 DEF Moved
  <2> QED
    BY <1>2, <2>2, LifecycleMoves
<1>5. CASE cst.phase = expected /\ res.ok /\ call.state.phase = res.phase
  <2>1. CASE expected = "Step1"
    <3>1. 2 \in DOMAIN StepsOf[Coordinator] /\ Moved(Coordinator, StepsOf[Coordinator][2], "Successful")
      BY <1>1, <1>2, <1>5, <2>1 DEF Moved
    <3> QED
      BY <1>2, <3>1, LifecycleMoves
  <2>2. CASE expected = "Initial"
    <3>1. 1 \in DOMAIN StepsOf[Coordinator] /\ 1 + 1 \in DOMAIN StepsOf[Coordinator] /\ 1 + 1 = 2
      BY <1>2
    <3>2. Moved(Coordinator, StepsOf[Coordinator][1], StepsOf[Coordinator][1 + 1])
      BY <1>1, <1>2, <1>5, <2>2, <3>1 DEF Moved
    <3> QED
      BY <1>2, <3>1, <3>2, LifecycleMoves
  <2> QED
    BY <1>5, <2>1, <2>2
<1> QED
  BY <1>3, <1>4, <1>5, TransitionPhase

-----------------------------------------------------------------------------
LEMMA LifecycleInvStep ==
    TypeOK /\ LifecycleInv /\ [Next]_vars => LifecycleInv'
<1> SUFFICES ASSUME TypeOK, LifecycleInv, [Next]_vars PROVE LifecycleInv'
  OBVIOUS
<1>1. \A p \in Honest : \A d \in copies'[p] : AllowClones /\ IsActive(d)
  <2>1. CASE copies' = copies
    BY <2>1 DEF LifecycleInv
  <2>2. ASSUME NEW p \in Honest, ParticipantClone(p)
        PROVE  \A q \in Honest : \A d \in copies'[q] : AllowClones /\ IsActive(d)
    BY <2>2 DEF ParticipantClone, LifecycleInv, TypeOK
  <2>3. CASE ~ \E p \in Honest : ParticipantClone(p)
    BY <2>1, <2>3 DEF Next, Progress, ParticipantCall, CoordinatorCall, ParticipantStep1,
                      ParticipantStep2, ParticipantFinalize, ParticipantRecover,
                      ParticipantRestart, CoordinatorCreate, CoordinatorStep1,
                      CoordinatorStep2, CoordinatorRecovers, pvars, vars
  <2> QED
    BY <2>2, <2>3
<1>2. csessions' = 0 => cst'.phase = "Absent"
  <2>1. CASE CoordinatorCreate
    <3>1. csessions' # 0
      BY <2>1 DEF CoordinatorCreate, TypeOK
    <3> QED
      BY <3>1
  <2>2. CASE CoordinatorStep1 \/ CoordinatorStep2
    BY <2>2 DEF CoordinatorStep1, CoordinatorStep2, LifecycleInv
  <2>3. CASE UNCHANGED <<cst, csessions>>
    BY <2>3 DEF LifecycleInv
  <2>4. CASE ~ (CoordinatorCreate \/ CoordinatorStep1 \/ CoordinatorStep2)
    BY <2>3, <2>4 DEF Next, Progress, ParticipantCall, CoordinatorCall, ParticipantStep1,
                      ParticipantStep2, ParticipantFinalize, ParticipantRecover,
                      ParticipantClone, ParticipantRestart, CoordinatorRecovers, cvars, vars
  <2> QED
    BY <2>1, <2>2, <2>4
<1> QED
  BY <1>1, <1>2 DEF LifecycleInv

LEMMA ImplementsLifecycleStep ==
    TypeOK /\ LifecycleInv /\ [Next]_vars => [LC!Next]_Phases
<1> SUFFICES ASSUME TypeOK, LifecycleInv, [Next]_vars
             PROVE  LC!Next \/ UNCHANGED Phases
  OBVIOUS
<1>1. ASSUME NEW p \in Honest, ParticipantStep1(p) PROVE LC!Next \/ UNCHANGED Phases
  <2>1. PICK params \in ParamChoices[p], random \in Randoms :
           pst' = [pst EXCEPT ![p] =
                     Transition(pst[p], "Initial",
                                InitialNext(pst[p].st, params, random)).state]
    BY <1>1 DEF ParticipantStep1
  <2> DEFINE res == InitialNext(pst[p].st, params, random)
  <2>2. res.ok => res.phase = "Step1"
    BY ErrIsNotOk, Zenon DEF InitialNext, Advance
  <2>3. cst' = cst
    BY <1>1 DEF ParticipantStep1, cvars
  <2>4. pst' = [pst EXCEPT ![p] = Transition(pst[p], "Initial", res).state]
    BY <2>1
  <2> HIDE DEF res
  <2> QED
    BY <2>2, <2>3, <2>4, ParticipantMoves
<1>2. ASSUME NEW p \in Honest, ParticipantStep2(p) PROVE LC!Next \/ UNCHANGED Phases
  <2>1. PICK msg \in DeliverableCmsg1 :
           pst' = [pst EXCEPT ![p] =
                     Transition(pst[p], "Step1", Step1Next(pst[p].st, msg)).state]
    BY <1>2 DEF ParticipantStep2
  <2> DEFINE res == Step1Next(pst[p].st, msg)
  <2>2. res.ok => res.phase = "Step2"
    BY ErrIsNotOk, Zenon DEF Step1Next, Advance
  <2>3. cst' = cst
    BY <1>2 DEF ParticipantStep2, cvars
  <2>4. pst' = [pst EXCEPT ![p] = Transition(pst[p], "Step1", res).state]
    BY <2>1
  <2> HIDE DEF res
  <2> QED
    BY <2>2, <2>3, <2>4, ParticipantMoves
<1>3. ASSUME NEW p \in Honest, ParticipantFinalize(p) PROVE LC!Next \/ UNCHANGED Phases
  <2>1. PICK cert \in DeliverableCerts :
           pst' = [pst EXCEPT ![p] =
                     Transition(pst[p], "Step2", Step2Next(pst[p].st, cert)).state]
    BY <1>3 DEF ParticipantFinalize
  <2> DEFINE res == Step2Next(pst[p].st, cert)
  <2>2. res.ok => res.phase = "Successful"
    BY ErrIsNotOk, Zenon DEF Step2Next, Finish, Advance
  <2>3. cst' = cst
    BY <1>3 DEF ParticipantFinalize, cvars
  <2>4. pst' = [pst EXCEPT ![p] = Transition(pst[p], "Step2", res).state]
    BY <2>1
  <2> HIDE DEF res
  <2> QED
    BY <2>2, <2>3, <2>4, ParticipantMoves
<1>4. ASSUME NEW p \in Honest, ParticipantRestart(p) PROVE LC!Next \/ UNCHANGED Phases
  <2>1. PICK driver \in {NewParticipant(p)} \cup copies[p] :
           pst' = [pst EXCEPT ![p] = driver] /\ cst' = cst
    BY <1>4 DEF ParticipantRestart, cvars
  <2>2. MaxSessions > 1
    BY <1>4, SwitchesAssumption DEF ParticipantRestart, TypeOK
  <2>3. Phases' = [Phases EXCEPT ![p] = driver.phase]
    BY <2>1, ParticipantPhase
  <2>4. driver.phase = "Initial" \/ (AllowClones /\ IsActive(driver))
    BY <2>1 DEF LifecycleInv, NewParticipant, Driver
  <2>5. PICK k \in DOMAIN StepsOf[p] :
           driver.phase = StepsOf[p][k] /\ (k = 1 \/ AllowClones)
    BY <2>4, ParticipantSteps DEF IsActive
  <2> QED
    BY <2>2, <2>3, <2>5, ParticipantSteps, LifecycleMoves
<1>5. ASSUME CoordinatorCreate PROVE LC!Next \/ UNCHANGED Phases
  <2>1. PICK params \in CoordParams :
           cst' = IF CoordinatorNew(params).ok
                  THEN Driver(CoordinatorNew(params).phase, CoordinatorNew(params).st)
                  ELSE Absent
    BY <1>5 DEF CoordinatorCreate
  <2>2. cst'.phase \in {"Initial", "Absent"}
    <3>1. params \in [host_pubkeys : Seq(Scalar), t : Nat]
      BY ParamsAssumption DEF Params
    <3>2. CoordinatorNew(params).ok => CoordinatorNew(params).phase = "Initial"
      BY <3>1, CoordinatorNewOk
    <3> QED
      BY <2>1, <3>2 DEF Driver, Absent
  <2>3. /\ Phases[Coordinator] = cst.phase
        /\ Phases' = [Phases EXCEPT ![Coordinator] = cst'.phase]
    BY <1>5, CoordinatorPhase DEF CoordinatorCreate, pvars
  <2>4. MaxSessions > 1 \/ cst.phase = "Absent"
    BY <1>5, SwitchesAssumption DEF CoordinatorCreate, TypeOK, LifecycleInv
  <2>5. Coordinator \in Honest \cup {Coordinator}
    OBVIOUS
  <2>6. CASE cst'.phase = "Initial"
    <3>1. LC!New(Coordinator)
      <4>1. 1 \in DOMAIN StepsOf[Coordinator] /\ StepsOf[Coordinator][1] = "Initial"
        BY CoordinatorSteps
      <4>2. Phases' = [Phases EXCEPT ![Coordinator] = StepsOf[Coordinator][1]]
        BY <2>3, <2>6, <4>1
      <4> QED
        BY <2>3, <2>4, <4>1, <4>2 DEF LC!New, Phases, StepsOf
    <3> QED
      BY <2>5, <3>1 DEF LC!Next
  <2>7. CASE cst'.phase = "Absent" /\ MaxSessions > 1
    <3>1. LC!Refuse(Coordinator)
      BY <2>3, <2>7 DEF LC!Refuse, Phases
    <3> QED
      BY <2>5, <3>1 DEF LC!Next
  <2>8. CASE cst'.phase = "Absent" /\ cst.phase = "Absent"
    <3>1. UNCHANGED Phases
      BY <2>3, <2>8 DEF Phases
    <3> QED
      BY <3>1
  <2> QED
    BY <2>2, <2>4, <2>6, <2>7, <2>8
<1>6. cst.phase # "Step2"
  BY DEF TypeOK, CoordinatorDriver, Absent, Driver
<1>7. ASSUME CoordinatorStep1 PROVE LC!Next \/ UNCHANGED Phases
  <2>1. \E order \in Orders : \E msgs \in Collected(order, Msg1From) :
           cst' = Transition(cst, "Initial", CoordinatorInitialNext(cst.st, msgs)).state
    BY <1>7 DEF CoordinatorStep1
  <2>2. PICK msgs :
           cst' = Transition(cst, "Initial", CoordinatorInitialNext(cst.st, msgs)).state
    BY <2>1
  <2> DEFINE res == CoordinatorInitialNext(cst.st, msgs)
  <2>3. res.ok => res.phase = "Step1"
    BY ErrIsNotOk, Zenon DEF CoordinatorInitialNext, Advance
  <2>4. pst' = pst
    BY <1>7 DEF CoordinatorStep1, pvars
  <2>5. cst' = Transition(cst, "Initial", res).state
    BY <2>2
  <2> HIDE DEF res
  <2> QED
    BY <1>6, <2>3, <2>4, <2>5, CoordinatorMoves
<1>8. ASSUME CoordinatorStep2 PROVE LC!Next \/ UNCHANGED Phases
  <2>1. \E order \in Orders : \E sigs \in Collected(order, SigsFrom) :
           cst' = Transition(cst, "Step1", CoordinatorStep1Next(cst.st, sigs)).state
    BY <1>8 DEF CoordinatorStep2
  <2>2. PICK sigs :
           cst' = Transition(cst, "Step1", CoordinatorStep1Next(cst.st, sigs)).state
    BY <2>1
  <2> DEFINE res == CoordinatorStep1Next(cst.st, sigs)
  <2>3. res.ok => res.phase = "Successful"
    BY ErrIsNotOk, Zenon DEF CoordinatorStep1Next, Finish, Advance
  <2>4. pst' = pst
    BY <1>8 DEF CoordinatorStep2, pvars
  <2>5. cst' = Transition(cst, "Step1", res).state
    BY <2>2
  <2> HIDE DEF res
  <2> QED
    BY <1>6, <2>3, <2>4, <2>5, CoordinatorMoves
<1>9. ASSUME \/ \E p \in Honest : ParticipantRecover(p) \/ ParticipantClone(p)
             \/ CoordinatorRecovers \/ UNCHANGED vars
      PROVE  UNCHANGED Phases
  <2>1. pst' = pst /\ cst' = cst
    BY <1>9 DEF ParticipantRecover, ParticipantClone, CoordinatorRecovers, cvars, pvars,
                vars
  <2> QED
    BY <2>1 DEF Phases
<1> QED
  BY <1>1, <1>2, <1>3, <1>4, <1>5, <1>7, <1>8, <1>9
     DEF Next, Progress, ParticipantCall, CoordinatorCall

(***************************************************************************)
(* Whatever is delivered to it and in whatever order its caller runs the   *)
(* steps, a driver passes its phases one at a time and never leaves Failed *)
(* or Successful; only a restart or a clone begins again.                  *)
(***************************************************************************)
THEOREM DriversKeepTheirLifecycle == Spec => ImplementsLifecycle
<1>1. Init => TypeOK /\ LifecycleInv
  BY TypeOKInit DEF Init, LifecycleInv, Absent, Driver
<1>2. TypeOK /\ LifecycleInv /\ [Next]_vars => (TypeOK /\ LifecycleInv)'
  BY TypeOKStep, LifecycleInvStep
<1>3. Init => LC!Init
  BY CoordinatorIsNoParty DEF Init, LC!Init, NewParticipant, Absent, Driver
<1>4. TypeOK /\ LifecycleInv /\ [Next]_vars => [LC!Next]_Phases
  BY ImplementsLifecycleStep
<1> QED
  BY <1>1, <1>2, <1>3, <1>4, PTL DEF Spec, ImplementsLifecycle, LC!Spec, Phases
=============================================================================
