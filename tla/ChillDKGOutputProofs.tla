------------------------ MODULE ChillDKGOutputProofs -----------------------
(***************************************************************************)
(* Theorems about what the outputs of a session are made from and how they *)
(* are rebuilt, for any parties, keys, parameters, randomness and hashes.  *)
(***************************************************************************)
EXTENDS ChillDKGProofs, FieldLemmas

(***************************************************************************)
(* The public output that a transcript determines.                         *)
(***************************************************************************)
Publishes(T, out) ==
    LET tweaked == TweakCommitment(T.sum_commitment,
                                   TapTweakNoScript(T.sum_commitment[1]).val)
    IN  /\ out.t = T.t
        /\ out.threshold_pubkey = tweaked[1]
        /\ out.pubshares = [i \in 1 .. Len(T.host_pubkeys) |-> EvalPubShare(tweaked, i)]

LEMMA Step1NextPublishes ==
    ASSUME NEW st, NEW msg, NEW res, res = Step1Next(st, msg), res.ok
    PROVE  Publishes(res.st.transcript, res.st.dkg_output)
<1> DEFINE sum == SumCommitment(msg)
           tweak == TapTweakNoScript(sum[1])
           tweaked == TweakCommitment(sum, tweak.val)
           decrypted == Decrypt(st.s, msg.pubnonces, EncContext(st.t, st.host_pubkeys),
                                st.idx, msg.enc_secshares[st.idx])
           secshare == (decrypted.val + tweak.val) % Order
           transcript == Transcript(st.t, sum, st.host_pubkeys, msg.pubnonces,
                                    msg.enc_secshares)
           sig == CertEqSign(st.s, transcript, st.idx)
           pubshares == [i \in 1 .. Len(st.host_pubkeys) |-> EvalPubShare(tweaked, i)]
           dkg_output == [idx |-> st.idx, t |-> st.t, secshare |-> secshare,
                          threshold_pubkey |-> tweaked[1], pubshares |-> pubshares]
<1>1. res = Advance("Step2", [transcript |-> transcript, dkg_output |-> dkg_output], sig.val)
  BY ErrIsNotOk, Zenon DEF Step1Next
<1>2. res.st.transcript = transcript /\ res.st.dkg_output = dkg_output
  <2> HIDE DEF transcript, dkg_output, sig
  <2> QED
    BY <1>1 DEF Advance
<1>3. /\ transcript.t = st.t
      /\ transcript.sum_commitment = sum
      /\ transcript.host_pubkeys = st.host_pubkeys
  BY DEF Transcript
<1> HIDE DEF transcript, sum, sig, secshare, decrypted
<1>4. /\ dkg_output.t = st.t
      /\ dkg_output.threshold_pubkey = tweaked[1]
      /\ dkg_output.pubshares = pubshares
  OBVIOUS
<1> QED
  BY <1>2, <1>3, <1>4 DEF Publishes

(***************************************************************************)
(* A participant signs a transcript only with its own nonce in its place.  *)
(***************************************************************************)
LEMMA Step1NextOwnNonce ==
    ASSUME NEW st, NEW msg, NEW res, res = Step1Next(st, msg), res.ok
    PROVE  res.out.transcript.pubnonces[res.out.idx] = st.pubnonce
<1> DEFINE sum == SumCommitment(msg)
           transcript == Transcript(st.t, sum, st.host_pubkeys, msg.pubnonces,
                                    msg.enc_secshares)
           sig == CertEqSign(st.s, transcript, st.idx)
<1>1. ValidateCoordinatorMsg1(st, msg).ok /\ sig.ok /\ res.out = sig.val
  BY ErrIsNotOk, Zenon DEF Step1Next, Advance
<1>2. msg.pubnonces[st.idx] = st.pubnonce
  BY <1>1, ErrIsNotOk DEF ValidateCoordinatorMsg1
<1>3. sig.val = Sig(XOnly(MulG(st.s)), st.idx, transcript)
  BY <1>1, ErrIsNotOk, OkIsOk DEF CertEqSign
<1>4. transcript.pubnonces = msg.pubnonces
  BY DEF Transcript
<1> HIDE DEF transcript, sig
<1> QED
  BY <1>1, <1>2, <1>3, <1>4 DEF Sig

LEMMA InitialNextKeeps ==
    ASSUME NEW st, NEW params, NEW random,
           NEW res, res = InitialNext(st, params, random), res.ok
    PROVE  /\ res.phase = "Step1"
           /\ res.st.host_pubkeys = params.host_pubkeys
           /\ res.st.t = params.t
           /\ res.st.pubnonce = res.out.pubnonce
BY ErrIsNotOk, Zenon DEF InitialNext, Advance

LEMMA Step2NextKeeps ==
    ASSUME NEW st, NEW cert, NEW res, res = Step2Next(st, cert), res.ok
    PROVE  res.out.output = st.dkg_output /\ res.out.recovery.transcript = st.transcript
BY ErrIsNotOk DEF Step2Next, Finish, Advance

LEMMA CoordinatorStep1NextKeeps ==
    ASSUME NEW st, NEW sigs, NEW res, res = CoordinatorStep1Next(st, sigs), res.ok
    PROVE  res.out.output = st.dkg_output /\ res.out.recovery.transcript = st.transcript
BY ErrIsNotOk DEF CoordinatorStep1Next, Finish, Advance

LEMMA PartyRecoverPublishes ==
    ASSUME NEW s, NEW recovery, PartyRecover(s, recovery).ok
    PROVE  Publishes(recovery.transcript, PartyRecover(s, recovery).val)
<1> DEFINE T == recovery.transcript
           idx == ValidateSessionParams(s, T.host_pubkeys, T.t).val
           tweak == TapTweakNoScript(T.sum_commitment[1])
           tweaked == TweakCommitment(T.sum_commitment, tweak.val)
           pubshares == [i \in 1 .. Len(T.host_pubkeys) |-> EvalPubShare(tweaked, i)]
           decrypted == Decrypt(s, T.pubnonces, EncContext(T.t, T.host_pubkeys), idx,
                                T.enc_secshares[idx])
           secshare == (decrypted.val + tweak.val) % Order
           out == [idx |-> idx, t |-> T.t, secshare |-> secshare,
                   threshold_pubkey |-> tweaked[1], pubshares |-> pubshares]
<1>1. PartyRecover(s, recovery) = Ok(out)
  BY ErrIsNotOk, Zenon DEF PartyRecover
<1>2. /\ out.t = T.t
      /\ out.threshold_pubkey = tweaked[1]
      /\ out.pubshares = pubshares
  OBVIOUS
<1>3. PartyRecover(s, recovery).val = out
  BY <1>1, OkIsOk
<1> HIDE DEF out
<1> QED
  BY <1>2, <1>3 DEF Publishes

LEMMA CoordinatorRecoverPublishes ==
    ASSUME NEW recovery, CoordinatorRecover(recovery).ok
    PROVE  Publishes(recovery.transcript, CoordinatorRecover(recovery).val)
<1> DEFINE T == recovery.transcript
           tweak == TapTweakNoScript(T.sum_commitment[1])
           tweaked == TweakCommitment(T.sum_commitment, tweak.val)
           pubshares == [i \in 1 .. Len(T.host_pubkeys) |-> EvalPubShare(tweaked, i)]
           out == [t |-> T.t, threshold_pubkey |-> tweaked[1], pubshares |-> pubshares]
<1>1. CoordinatorRecover(recovery) = Ok(out)
  BY ErrIsNotOk, Zenon DEF CoordinatorRecover
<1>2. /\ out.t = T.t
      /\ out.threshold_pubkey = tweaked[1]
      /\ out.pubshares = pubshares
  OBVIOUS
<1>3. CoordinatorRecover(recovery).val = out
  BY <1>1, OkIsOk
<1> HIDE DEF out
<1> QED
  BY <1>2, <1>3 DEF Publishes

LEMMA CoordinatorInitialNextPublishes ==
    ASSUME NEW st, NEW msgs, NEW res, res = CoordinatorInitialNext(st, msgs), res.ok
    PROVE  Publishes(res.st.transcript, res.st.dkg_output)
<1> DEFINE n == Len(st.host_pubkeys)
           sum == [k \in 1 .. st.t |-> SumMod([i \in 1 .. n |-> msgs[i].commitment[k]])]
           pubnonces == [i \in 1 .. n |-> msgs[i].pubnonce]
           secshares == [j \in 1 .. n |-> SumMod([i \in 1 .. n |-> msgs[i].enc_shares[j]])]
           out == [coms_to_secrets |-> [i \in 1 .. n |-> msgs[i].commitment[1]],
                   sum_coms_to_nonconst_terms |-> Tail(sum),
                   pops |-> [i \in 1 .. n |-> msgs[i].pop],
                   pubnonces |-> pubnonces,
                   enc_secshares |-> secshares]
           tweak == TapTweakNoScript(sum[1])
           tweaked == TweakCommitment(sum, tweak.val)
           transcript == Transcript(st.t, sum, st.host_pubkeys, out.pubnonces,
                                    out.enc_secshares)
           pubshares == [i \in 1 .. n |-> EvalPubShare(tweaked, i)]
           dkg_output == [t |-> st.t, threshold_pubkey |-> tweaked[1],
                          pubshares |-> pubshares]
<1>1. res = Advance("Step1",
                [t |-> st.t, host_pubkeys |-> st.host_pubkeys, transcript |-> transcript,
                 dkg_output |-> dkg_output],
                out)
  BY ErrIsNotOk, Zenon DEF CoordinatorInitialNext
<1>2. res.st.transcript = transcript /\ res.st.dkg_output = dkg_output
  <2> HIDE DEF transcript, dkg_output, out
  <2> QED
    BY <1>1 DEF Advance
<1>3. /\ transcript.t = st.t
      /\ transcript.sum_commitment = sum
      /\ transcript.host_pubkeys = st.host_pubkeys
  BY DEF Transcript
<1> HIDE DEF transcript, sum, out
<1>4. /\ dkg_output.t = st.t
      /\ dkg_output.threshold_pubkey = tweaked[1]
      /\ dkg_output.pubshares = pubshares
  OBVIOUS
<1> QED
  BY <1>2, <1>3, <1>4 DEF Publishes

-----------------------------------------------------------------------------
(***************************************************************************)
(* The invariant.  A driver of p, or a clone of it, works on parameters    *)
(* that p was given and with a nonce that p has sent, and its output is    *)
(* the one its transcript determines.  The same holds of what was signed   *)
(* and of what is held.                                                    *)
(***************************************************************************)
SentNonces(p) == {m.pubnonce : m \in pmsg1[p]}

Faithful(p, d, sent) ==
    /\ d.phase = "Step1" =>
          /\ [host_pubkeys |-> d.st.host_pubkeys, t |-> d.st.t] \in ParamChoices[p]
          /\ d.st.pubnonce \in sent
    /\ d.phase = "Step2" => Publishes(d.st.transcript, d.st.dkg_output)

DriversFaithful ==
    \A p \in Honest : \A d \in {pst[p]} \cup copies[p] : Faithful(p, d, SentNonces(p))

CoordinatorFaithful ==
    cst.phase = "Step1" => Publishes(cst.st.transcript, cst.st.dkg_output)

FaithfulSignature(p, sig, sent) ==
    LET T == sig.transcript
    IN  /\ [host_pubkeys |-> T.host_pubkeys, t |-> T.t] \in ParamChoices[p]
        /\ sig.idx \in DOMAIN T.host_pubkeys
        /\ T.host_pubkeys[sig.idx] = HostKey(p)
        /\ T.pubnonces[sig.idx] \in sent

SignaturesFaithful ==
    \A p \in Honest : \A sig \in pmsg2[p] : FaithfulSignature(p, sig, SentNonces(p))

OutputsPublished == \A o \in Held : Publishes(o.recovery.transcript, o.output)

OutputInv ==
    DriversFaithful /\ CoordinatorFaithful /\ SignaturesFaithful /\ OutputsPublished

LEMMA OutputInvInit == Init => OutputInv
BY DEF Init, OutputInv, DriversFaithful, CoordinatorFaithful, SignaturesFaithful,
       OutputsPublished, Faithful, Held, NewParticipant, Absent, Driver

(***************************************************************************)
(* Nonces are not unsent.                                                  *)
(***************************************************************************)
LEMMA FaithfulStays ==
    ASSUME NEW p, NEW sent, NEW more, sent \subseteq more
    PROVE  /\ \A d : Faithful(p, d, sent) => Faithful(p, d, more)
           /\ \A sig : FaithfulSignature(p, sig, sent) => FaithfulSignature(p, sig, more)
BY DEF Faithful, FaithfulSignature

(***************************************************************************)
(* A step that gives one party another driver, the other drivers and the   *)
(* clones staying as they are.                                             *)
(***************************************************************************)
LEMMA DriversStayFaithful ==
    ASSUME TypeOK, DriversFaithful, NEW p \in Honest, NEW driver,
           Faithful(p, driver, SentNonces(p)'), pst' = [pst EXCEPT ![p] = driver], copies' = copies,
           \A q \in Honest : SentNonces(q) \subseteq SentNonces(q)'
    PROVE  DriversFaithful'
<1> SUFFICES ASSUME NEW q \in Honest, NEW d \in {pst'[q]} \cup copies'[q]
             PROVE  Faithful(q, d, SentNonces(q)')
  BY DEF DriversFaithful
<1>1. DOMAIN pst = Honest
  BY DEF TypeOK
<1>2. CASE d \in copies[q]
  <2>1. Faithful(q, d, SentNonces(q))
    BY <1>2 DEF DriversFaithful
  <2> QED
    BY <2>1, FaithfulStays
<1>3. CASE d = pst'[q] /\ q # p
  <2>1. d = pst[q]
    BY <1>1, <1>3
  <2>2. Faithful(q, d, SentNonces(q))
    BY <2>1 DEF DriversFaithful
  <2> QED
    BY <2>2, FaithfulStays
<1>4. CASE d = pst'[q] /\ q = p
  <2>1. d = driver
    BY <1>1, <1>4
  <2> QED
    BY <1>4, <2>1
<1> QED
  BY <1>2, <1>3, <1>4

LEMMA OwnDriverFaithful ==
    ASSUME DriversFaithful, NEW p \in Honest PROVE Faithful(p, pst[p], SentNonces(p))
BY DEF DriversFaithful

LEMMA TerminalFaithful ==
    ASSUME NEW p, NEW d, NEW sent, d.phase \in {"Initial", "Failed", "Successful"}
    PROVE  Faithful(p, d, sent)
BY DEF Faithful

-----------------------------------------------------------------------------
LEMMA OutputInvStep1 ==
    ASSUME TypeOK, OutputInv, NEW p \in Honest, ParticipantStep1(p)
    PROVE  OutputInv'
<1>1. PICK params \in ParamChoices[p], random \in Randoms :
         LET call == Transition(pst[p], "Initial", InitialNext(pst[p].st, params, random))
         IN  /\ pst' = [pst EXCEPT ![p] = call.state]
             /\ pmsg1' = [pmsg1 EXCEPT ![p] =
                            IF call.reply.ok THEN @ \cup {call.reply.val} ELSE @]
  BY DEF ParticipantStep1
<1> DEFINE res == InitialNext(pst[p].st, params, random)
           call == Transition(pst[p], "Initial", res)
<1>2. UNCHANGED <<copies, pmsg2, output, coutput, cst>>
  BY DEF ParticipantStep1, cvars
<1>3. DOMAIN pmsg1 = Honest
  BY DEF TypeOK
<1>4. pmsg1' = [pmsg1 EXCEPT ![p] = IF call.reply.ok THEN @ \cup {call.reply.val} ELSE @]
  BY <1>1
<1>5. pst' = [pst EXCEPT ![p] = call.state]
  BY <1>1
<1>6. \/ /\ res.ok /\ call.reply.ok
         /\ call.state = Driver(res.phase, res.st) /\ call.reply.val = res.out
      \/ call.state = pst[p] \/ call.state.phase = "Failed"
  BY TransitionCases
<1>7. /\ params \in [host_pubkeys : Seq(Scalar), t : Nat]
      /\ [host_pubkeys |-> params.host_pubkeys, t |-> params.t] = params
  BY ParamsAssumption DEF Params
<1>8. ASSUME res.ok
      PROVE  /\ res.phase = "Step1"
             /\ res.st.host_pubkeys = params.host_pubkeys
             /\ res.st.t = params.t
             /\ res.st.pubnonce = res.out.pubnonce
  BY <1>8, InitialNextKeeps
<1> HIDE DEF call, res
<1>9. \A q \in Honest : SentNonces(q) \subseteq SentNonces(q)'
  BY <1>3, <1>4 DEF SentNonces
<1>10. Faithful(p, call.state, SentNonces(p)')
  <2>1. CASE /\ res.ok /\ call.reply.ok
             /\ call.state = Driver(res.phase, res.st) /\ call.reply.val = res.out
    <3>1. res.out \in pmsg1'[p]
      BY <1>3, <1>4, <2>1
    <3>2. res.st.pubnonce \in SentNonces(p)'
      BY <1>8, <2>1, <3>1 DEF SentNonces
    <3>3. /\ call.state.phase = "Step1"
          /\ call.state.st = res.st
      BY <1>8, <2>1 DEF Driver
    <3> QED
      BY <1>7, <1>8, <2>1, <3>2, <3>3 DEF Faithful
  <2>2. CASE call.state = pst[p]
    <3>1. Faithful(p, pst[p], SentNonces(p))
      BY OwnDriverFaithful DEF OutputInv
    <3> QED
      BY <1>9, <2>2, <3>1, FaithfulStays
  <2>3. CASE call.state.phase = "Failed"
    BY <2>3, TerminalFaithful
  <2> QED
    BY <1>6, <2>1, <2>2, <2>3
<1>11. DriversFaithful'
  BY <1>2, <1>5, <1>9, <1>10, DriversStayFaithful DEF OutputInv
<1>12. SignaturesFaithful'
  BY <1>2, <1>9, FaithfulStays DEF OutputInv, SignaturesFaithful
<1>13. CoordinatorFaithful' /\ OutputsPublished'
  BY <1>2 DEF OutputInv, CoordinatorFaithful, OutputsPublished, Held
<1> QED
  BY <1>11, <1>12, <1>13 DEF OutputInv

LEMMA OutputInvStep2 ==
    ASSUME TypeOK, OutputInv, NEW p \in Honest, ParticipantStep2(p)
    PROVE  OutputInv'
<1>1. PICK msg \in DeliverableCmsg1 :
         LET call == Transition(pst[p], "Step1", Step1Next(pst[p].st, msg))
         IN  /\ pst' = [pst EXCEPT ![p] = call.state]
             /\ pmsg2' = [pmsg2 EXCEPT ![p] =
                            IF call.reply.ok THEN @ \cup {call.reply.val} ELSE @]
  BY DEF ParticipantStep2
<1> DEFINE st == pst[p].st
           res == Step1Next(st, msg)
           call == Transition(pst[p], "Step1", res)
<1>2. UNCHANGED <<copies, pmsg1, output, coutput, cst>>
  BY DEF ParticipantStep2, cvars
<1>3. DOMAIN pmsg2 = Honest
  BY DEF TypeOK
<1>4. /\ pmsg2' = [pmsg2 EXCEPT ![p] = IF call.reply.ok THEN @ \cup {call.reply.val} ELSE @]
      /\ pst' = [pst EXCEPT ![p] = call.state]
  BY <1>1
<1>5. \/ /\ pst[p].phase = "Step1" /\ res.ok
         /\ call.state = Driver(res.phase, res.st) /\ call.reply.val = res.out
      \/ ~ call.reply.ok /\ (call.state = pst[p] \/ call.state.phase = "Failed")
  BY TransitionCases
<1>6. ASSUME pst[p].phase = "Step1", res.ok
      PROVE  /\ FaithfulSignature(p, res.out, SentNonces(p))
             /\ Faithful(p, Driver(res.phase, res.st), SentNonces(p))
  <2>1. /\ st.host_pubkeys \in Seq(Scalar)
        /\ st.idx \in DOMAIN st.host_pubkeys
        /\ st.host_pubkeys[st.idx] = HostKey(p)
    <3>1. ParticipantDriver(p, pst[p])
      BY OwnDriverTyped
    <3> QED
      BY <1>6, <3>1 DEF ParticipantDriver, NewParticipant, Driver
  <2>2. /\ [host_pubkeys |-> st.host_pubkeys, t |-> st.t] \in ParamChoices[p]
        /\ st.pubnonce \in SentNonces(p)
    BY <1>6, OwnDriverFaithful DEF OutputInv, Faithful
  <2>3. /\ res.phase = "Step2"
        /\ res.out = Sig(XOnly(MulG(st.s)), st.idx, res.st.transcript)
        /\ res.st.transcript.host_pubkeys = st.host_pubkeys
        /\ res.st.transcript.t = st.t
    BY <1>6, <2>1, Step1NextOk
  <2>4. res.out.transcript.pubnonces[res.out.idx] = st.pubnonce
    BY <1>6, Step1NextOwnNonce
  <2>5. Publishes(res.st.transcript, res.st.dkg_output)
    BY <1>6, Step1NextPublishes
  <2> HIDE DEF res, st
  <2>6. res.out.idx = st.idx /\ res.out.transcript = res.st.transcript
    BY <2>3 DEF Sig
  <2>7. FaithfulSignature(p, res.out, SentNonces(p))
    BY <2>1, <2>2, <2>3, <2>4, <2>6 DEF FaithfulSignature
  <2>8. Faithful(p, Driver(res.phase, res.st), SentNonces(p))
    BY <2>3, <2>5 DEF Faithful, Driver
  <2> QED
    BY <2>7, <2>8
<1> HIDE DEF call, res, st
<1>7. \A q \in Honest : SentNonces(q)' = SentNonces(q)
  BY <1>2 DEF SentNonces
<1>8. Faithful(p, call.state, SentNonces(p))
  BY <1>5, <1>6, OwnDriverFaithful, TerminalFaithful DEF OutputInv
<1>9. DriversFaithful'
  BY <1>2, <1>4, <1>7, <1>8, FaithfulStays, DriversStayFaithful, ZenonT(60) DEF OutputInv
<1>10. SignaturesFaithful'
  <2>1. \A q \in Honest : \A sig \in pmsg2'[q] :
           FaithfulSignature(q, sig, SentNonces(q))
    BY <1>3, <1>4, <1>5, <1>6 DEF OutputInv, SignaturesFaithful
  <2> QED
    BY <1>7, <2>1, FaithfulStays DEF SignaturesFaithful
<1>11. CoordinatorFaithful' /\ OutputsPublished'
  BY <1>2 DEF OutputInv, CoordinatorFaithful, OutputsPublished, Held
<1> QED
  BY <1>9, <1>10, <1>11 DEF OutputInv

LEMMA OutputInvFinalize ==
    ASSUME TypeOK, OutputInv, NEW p \in Honest, ParticipantFinalize(p)
    PROVE  OutputInv'
<1>1. PICK cert \in DeliverableCerts :
         LET call == Transition(pst[p], "Step2", Step2Next(pst[p].st, cert))
         IN  /\ pst' = [pst EXCEPT ![p] = call.state]
             /\ output' = [output EXCEPT ![p] =
                             IF call.reply.ok THEN @ \cup {call.reply.val} ELSE @]
  BY DEF ParticipantFinalize
<1> DEFINE st == pst[p].st
           res == Step2Next(st, cert)
           call == Transition(pst[p], "Step2", res)
<1>2. UNCHANGED <<copies, pmsg1, pmsg2, coutput, cst>>
  BY DEF ParticipantFinalize, cvars
<1>3. DOMAIN output = Honest
  BY DEF TypeOK
<1>4. /\ output' = [output EXCEPT ![p] =
                      IF call.reply.ok THEN @ \cup {call.reply.val} ELSE @]
      /\ pst' = [pst EXCEPT ![p] = call.state]
  BY <1>1
<1>5. \/ /\ pst[p].phase = "Step2" /\ res.ok
         /\ call.state = Driver(res.phase, res.st) /\ call.reply.val = res.out
      \/ ~ call.reply.ok /\ (call.state = pst[p] \/ call.state.phase = "Failed")
  BY TransitionCases
<1>6. ASSUME pst[p].phase = "Step2", res.ok
      PROVE  /\ res.phase = "Successful"
             /\ Publishes(res.out.recovery.transcript, res.out.output)
  <2>1. Publishes(st.transcript, st.dkg_output)
    BY <1>6, OwnDriverFaithful DEF OutputInv, Faithful
  <2>2. res.phase = "Successful"
    BY <1>6, Step2NextOk
  <2>3. res.out.output = st.dkg_output /\ res.out.recovery.transcript = st.transcript
    BY <1>6, Step2NextKeeps
  <2> HIDE DEF res, st
  <2> QED
    BY <2>1, <2>2, <2>3
<1> HIDE DEF call, res, st
<1>7. \A q \in Honest : SentNonces(q)' = SentNonces(q)
  BY <1>2 DEF SentNonces
<1>8. Faithful(p, call.state, SentNonces(p))
  BY <1>5, <1>6, OwnDriverFaithful, TerminalFaithful DEF OutputInv, Driver
<1>9. DriversFaithful'
  BY <1>2, <1>4, <1>7, <1>8, FaithfulStays, DriversStayFaithful, ZenonT(60) DEF OutputInv
<1>10. SignaturesFaithful' /\ CoordinatorFaithful'
  BY <1>2, <1>7 DEF OutputInv, SignaturesFaithful, CoordinatorFaithful
<1>11. OutputsPublished'
  <2>1. \A o \in Held' : o \in Held \/ (call.reply.ok /\ o = call.reply.val)
    BY <1>2, <1>3, <1>4 DEF Held
  <2> QED
    BY <1>5, <1>6, <2>1 DEF OutputInv, OutputsPublished
<1> QED
  BY <1>9, <1>10, <1>11 DEF OutputInv

LEMMA OutputInvRecover ==
    ASSUME TypeOK, OutputInv, NEW p \in Honest, ParticipantRecover(p)
    PROVE  OutputInv'
<1>1. PICK recovery \in DeliverableRecovery :
         /\ PartyRecover(HostSec[p], recovery).ok
         /\ output' = [output EXCEPT ![p] = @ \cup
                          {[output |-> PartyRecover(HostSec[p], recovery).val,
                            recovery |-> recovery]}]
  BY DEF ParticipantRecover
<1>2. UNCHANGED <<pst, copies, pmsg1, pmsg2, coutput, cst>>
  BY DEF ParticipantRecover, cvars
<1>3. Publishes(recovery.transcript, PartyRecover(HostSec[p], recovery).val)
  BY <1>1, PartyRecoverPublishes
<1>4. \A o \in Held' : o \in Held \/ o = [output |-> PartyRecover(HostSec[p], recovery).val,
                                          recovery |-> recovery]
  BY <1>1, <1>2 DEF Held, TypeOK
<1>5. OutputsPublished'
  BY <1>3, <1>4 DEF OutputInv, OutputsPublished
<1>6. DriversFaithful' /\ SignaturesFaithful' /\ CoordinatorFaithful'
  BY <1>2 DEF OutputInv, DriversFaithful, SignaturesFaithful, CoordinatorFaithful,
              SentNonces
<1> QED
  BY <1>5, <1>6 DEF OutputInv

LEMMA OutputInvRestart ==
    ASSUME TypeOK, OutputInv, NEW p \in Honest, ParticipantRestart(p) \/ ParticipantClone(p)
    PROVE  OutputInv'
<1>1. UNCHANGED <<pmsg1, pmsg2, output, coutput, cst>>
  BY DEF ParticipantRestart, ParticipantClone, cvars
<1>2. \A q \in Honest : SentNonces(q)' = SentNonces(q)
  BY <1>1 DEF SentNonces
<1>3. DriversFaithful'
  <2>1. CASE ParticipantRestart(p)
    <3>1. PICK driver \in {NewParticipant(p)} \cup copies[p] :
             pst' = [pst EXCEPT ![p] = driver] /\ copies' = copies
      BY <2>1 DEF ParticipantRestart
    <3>2. CASE driver \in copies[p]
      <4>1. Faithful(p, driver, SentNonces(p))
        BY <3>2 DEF OutputInv, DriversFaithful
      <4> QED
        BY <1>2, <3>1, <4>1, FaithfulStays, DriversStayFaithful, ZenonT(60) DEF OutputInv
    <3>3. CASE driver = NewParticipant(p)
      <4>1. Faithful(p, driver, SentNonces(p)')
        BY <3>3, TerminalFaithful DEF NewParticipant, Driver
      <4> QED
        BY <1>2, <3>1, <4>1, DriversStayFaithful DEF OutputInv
    <3> QED
      BY <3>2, <3>3
  <2>2. CASE ParticipantClone(p)
    <3>1. copies' = [copies EXCEPT ![p] = @ \cup {pst[p]}] /\ pst' = pst
      BY <2>2 DEF ParticipantClone
    <3>2. \A q \in Honest : \A d \in {pst[q]} \cup copies'[q] : d \in {pst[q]} \cup copies[q]
      BY <3>1 DEF TypeOK
    <3> QED
      BY <1>2, <3>1, <3>2 DEF OutputInv, DriversFaithful
  <2> QED
    BY <2>1, <2>2
<1>4. SignaturesFaithful' /\ CoordinatorFaithful' /\ OutputsPublished'
  BY <1>1, <1>2 DEF OutputInv, SignaturesFaithful, CoordinatorFaithful, OutputsPublished,
                    Held
<1> QED
  BY <1>3, <1>4 DEF OutputInv

(***************************************************************************)
(* The coordinator's steps, which leave the participants alone.            *)
(***************************************************************************)
LEMMA OutputInvCoordinator ==
    ASSUME TypeOK, OutputInv, CoordinatorCall PROVE OutputInv'
<1>1. UNCHANGED pvars
  BY DEF CoordinatorCall, CoordinatorCreate, CoordinatorStep1, CoordinatorStep2,
         CoordinatorRecovers
<1>2. DriversFaithful' /\ SignaturesFaithful'
  BY <1>1 DEF pvars, OutputInv, DriversFaithful, SignaturesFaithful, SentNonces
<1>3. CoordinatorFaithful' /\ OutputsPublished'
  <2>1. CASE CoordinatorCreate
    <3>1. PICK params \in CoordParams :
             cst' = IF CoordinatorNew(params).ok
                    THEN Driver(CoordinatorNew(params).phase, CoordinatorNew(params).st)
                    ELSE Absent
      BY <2>1 DEF CoordinatorCreate
    <3>2. cst'.phase \in {"Initial", "Absent"}
      <4>1. params \in [host_pubkeys : Seq(Scalar), t : Nat]
        BY ParamsAssumption DEF Params
      <4>2. CoordinatorNew(params).ok => CoordinatorNew(params).phase = "Initial"
        BY <4>1, CoordinatorNewOk
      <4> QED
        BY <3>1, <4>2 DEF Driver, Absent
    <3>3. output' = output /\ coutput' = coutput
      BY <2>1 DEF CoordinatorCreate, pvars
    <3> QED
      BY <3>2, <3>3 DEF OutputInv, CoordinatorFaithful, OutputsPublished, Held
  <2>2. CASE CoordinatorStep1
    <3>0. \E order \in Orders : \E msgs \in Collected(order, Msg1From) :
             cst' = Transition(cst, "Initial", CoordinatorInitialNext(cst.st, msgs)).state
      BY <2>2 DEF CoordinatorStep1
    <3>1. PICK msgs :
             cst' = Transition(cst, "Initial", CoordinatorInitialNext(cst.st, msgs)).state
      BY <3>0
    <3> DEFINE res == CoordinatorInitialNext(cst.st, msgs)
               call == Transition(cst, "Initial", res)
    <3>2. \/ res.ok /\ call.state = Driver(res.phase, res.st)
          \/ call.state = cst \/ call.state.phase = "Failed"
      BY TransitionCases
    <3>3. ASSUME res.ok PROVE Publishes(res.st.transcript, res.st.dkg_output)
      BY <3>3, CoordinatorInitialNextPublishes
    <3>4. cst' = call.state /\ output' = output /\ coutput' = coutput
      BY <2>2, <3>1 DEF CoordinatorStep1, pvars
    <3> HIDE DEF res, call
    <3> QED
      BY <3>2, <3>3, <3>4 DEF OutputInv, CoordinatorFaithful, OutputsPublished, Held,
                              Driver
  <2>3. CASE CoordinatorStep2
    <3>1. PICK sigs :
             LET call == Transition(cst, "Step1", CoordinatorStep1Next(cst.st, sigs))
             IN  /\ cst' = call.state
                 /\ IF call.reply.ok
                    THEN coutput' = coutput \cup
                             {[output   |-> call.reply.val.output,
                               recovery |-> call.reply.val.recovery]}
                    ELSE coutput' = coutput
      BY <2>3 DEF CoordinatorStep2
    <3> DEFINE st == cst.st
               res == CoordinatorStep1Next(st, sigs)
               call == Transition(cst, "Step1", res)
    <3>2. \/ /\ cst.phase = "Step1" /\ res.ok /\ call.reply.ok
             /\ call.state = Driver(res.phase, res.st) /\ call.reply.val = res.out
          \/ ~ call.reply.ok /\ (call.state = cst \/ call.state.phase = "Failed")
      BY TransitionCases
    <3>3. ASSUME cst.phase = "Step1", res.ok
          PROVE  /\ res.phase = "Successful"
                 /\ Publishes(res.out.recovery.transcript, res.out.output)
      <4>1. Publishes(st.transcript, st.dkg_output)
        BY <3>3 DEF OutputInv, CoordinatorFaithful
      <4>2. res.phase = "Successful"
        BY <3>3, CoordinatorStep1NextOk
      <4>3. res.out.output = st.dkg_output /\ res.out.recovery.transcript = st.transcript
        BY <3>3, CoordinatorStep1NextKeeps
      <4> HIDE DEF res, st
      <4> QED
        BY <4>1, <4>2, <4>3
    <3>4. /\ cst' = call.state /\ output' = output
          /\ call.reply.ok =>
                coutput' = coutput \cup {[output   |-> call.reply.val.output,
                                          recovery |-> call.reply.val.recovery]}
          /\ ~ call.reply.ok => coutput' = coutput
      BY <2>3, <3>1 DEF CoordinatorStep2, pvars
    <3> HIDE DEF call, res, st
    <3>5. CoordinatorFaithful'
      BY <3>2, <3>3, <3>4 DEF OutputInv, CoordinatorFaithful, Driver
    <3>6. \A o \in Held' : o \in Held \/ /\ call.reply.ok
                                         /\ o.output = call.reply.val.output
                                         /\ o.recovery = call.reply.val.recovery
      BY <3>4 DEF Held
    <3>7. OutputsPublished'
      BY <3>2, <3>3, <3>6 DEF OutputInv, OutputsPublished
    <3> QED
      BY <3>5, <3>7
  <2>4. CASE CoordinatorRecovers
    <3>1. PICK recovery \in DeliverableRecovery :
             /\ CoordinatorRecover(recovery).ok
             /\ coutput' = coutput \cup {[output |-> CoordinatorRecover(recovery).val,
                                          recovery |-> recovery]}
      BY <2>4 DEF CoordinatorRecovers
    <3>2. Publishes(recovery.transcript, CoordinatorRecover(recovery).val)
      BY <3>1, CoordinatorRecoverPublishes
    <3>3. cst' = cst /\ output' = output
      BY <2>4 DEF CoordinatorRecovers, pvars
    <3>4. \A o \in Held' : o \in Held \/ o = [output |-> CoordinatorRecover(recovery).val,
                                              recovery |-> recovery]
      BY <3>1, <3>3 DEF Held
    <3> QED
      BY <3>2, <3>3, <3>4 DEF OutputInv, CoordinatorFaithful, OutputsPublished
  <2> QED
    BY <2>1, <2>2, <2>3, <2>4 DEF CoordinatorCall
<1> QED
  BY <1>2, <1>3 DEF OutputInv

LEMMA OutputInvStep == TypeOK /\ OutputInv /\ [Next]_vars => OutputInv'
<1> SUFFICES ASSUME TypeOK, OutputInv, [Next]_vars PROVE OutputInv'
  OBVIOUS
<1>1. CASE UNCHANGED vars
  BY <1>1 DEF vars, OutputInv, DriversFaithful, CoordinatorFaithful, SignaturesFaithful,
              OutputsPublished, SentNonces, Held
<1> QED
  BY <1>1, OutputInvStep1, OutputInvStep2, OutputInvFinalize, OutputInvRecover,
     OutputInvRestart, OutputInvCoordinator DEF Next, Progress, ParticipantCall

LEMMA OutputInvAlways == Spec => [](TypeOK /\ OutputInv)
<1>1. Init => TypeOK /\ OutputInv
  BY TypeOKInit, OutputInvInit
<1>2. TypeOK /\ OutputInv /\ [Next]_vars => (TypeOK /\ OutputInv)'
  BY TypeOKStep, OutputInvStep
<1> QED
  BY <1>1, <1>2, PTL DEF Spec

-----------------------------------------------------------------------------
(***************************************************************************)
(* All holders of one transcript hold the same public output: whoever      *)
(* computes it, during the session or from recovery data, computes it from *)
(* what the transcript holds.                                              *)
(***************************************************************************)
THEOREM OneOutputPerTranscript == Spec => []SamePublicOutput
<1>1. OutputInv => SamePublicOutput
  <2> SUFFICES ASSUME OutputInv, NEW o1 \in Held, NEW o2 \in Held,
                      o1.recovery.transcript = o2.recovery.transcript
               PROVE  /\ o1.output.t = o2.output.t
                      /\ o1.output.threshold_pubkey = o2.output.threshold_pubkey
                      /\ o1.output.pubshares = o2.output.pubshares
    BY DEF SamePublicOutput
  <2>1. /\ Publishes(o1.recovery.transcript, o1.output)
        /\ Publishes(o1.recovery.transcript, o2.output)
    BY DEF OutputInv, OutputsPublished
  <2> QED
    BY <2>1 DEF Publishes
<1> QED
  BY <1>1, OutputInvAlways, PTL

(***************************************************************************)
(* An output is held only for parameters that the caller of every honest   *)
(* member has given it.                                                    *)
(***************************************************************************)
THEOREM ParametersAreAgreed == Spec => []ParametersAgreed
<1>1. SignaturesFaithful /\ CertifiedByAll => ParametersAgreed
  BY DEF SignaturesFaithful, FaithfulSignature, CertifiedByAll, HasSigned, HonestMembers,
         ParametersAgreed
<1>2. OutputInv => SignaturesFaithful
  BY DEF OutputInv
<1> QED
  BY <1>1, <1>2, OutputInvAlways, CertificateMeansAllSigned, PTL

-----------------------------------------------------------------------------
(* The recovery data of a session rebuilds its outputs. *)

(***************************************************************************)
(* What a transcript holds for the owner of the host secret key s, and for *)
(* everybody: the values that both step 2 and `recover` compute.           *)
(***************************************************************************)
PositionIn(s, T) == ValidateSessionParams(s, T.host_pubkeys, T.t)

TweakOf(T) == TapTweakNoScript(T.sum_commitment[1])

TweakedOf(T) == TweakCommitment(T.sum_commitment, TweakOf(T).val)

PubsharesOf(T) == [i \in 1 .. Len(T.host_pubkeys) |-> EvalPubShare(TweakedOf(T), i)]

DecryptedFor(s, T) ==
    Decrypt(s, T.pubnonces, EncContext(T.t, T.host_pubkeys), PositionIn(s, T).val,
            T.enc_secshares[PositionIn(s, T).val])

SecshareFor(s, T) == (DecryptedFor(s, T).val + TweakOf(T).val) % Order

(***************************************************************************)
(* The checks of `recover` but for the certificate, and its result.        *)
(***************************************************************************)
Rebuilds(s, T) ==
    /\ PositionIn(s, T).ok
    /\ TweakOf(T).ok
    /\ DecryptedFor(s, T).ok
    /\ MulG(SecshareFor(s, T)) = PubsharesOf(T)[PositionIn(s, T).val]

Rebuilt(s, T) ==
    [idx |-> PositionIn(s, T).val, t |-> T.t, secshare |-> SecshareFor(s, T),
     threshold_pubkey |-> TweakedOf(T)[1], pubshares |-> PubsharesOf(T)]

RebuildsPublic(T) ==
    ValidatePublicSessionParams(T.host_pubkeys, T.t).ok /\ TweakOf(T).ok

LEMMA PartyRecoverRebuilds ==
    ASSUME NEW s, NEW recovery, NEW T, T = recovery.transcript
    PROVE  /\ Rebuilds(s, T) /\ VerifyCertificate(T, recovery.cert).ok
                => PartyRecover(s, recovery) = Ok(Rebuilt(s, T))
           /\ PartyRecover(s, recovery).ok
                => /\ Rebuilds(s, T) /\ VerifyCertificate(T, recovery.cert).ok
                   /\ PartyRecover(s, recovery) = Ok(Rebuilt(s, T))
<1> DEFINE position == PositionIn(s, T)
           matches  == MulG(SecshareFor(s, T)) = PubsharesOf(T)[position.val]
<1>1. PartyRecover(s, recovery) =
         IF ~position.ok
         THEN IF position.err.kind = "HostSeckey" THEN position
                                                  ELSE Err(Error("RecoveryData"))
         ELSE IF ~VerifyCertificate(T, recovery.cert).ok THEN Err(Error("RecoveryData"))
         ELSE IF ~TweakOf(T).ok THEN TweakOf(T)
         ELSE IF ~DecryptedFor(s, T).ok THEN DecryptedFor(s, T)
         ELSE IF MulG(SecshareFor(s, T)) # PubsharesOf(T)[position.val]
         THEN Err(Error("RecoveryData"))
         ELSE Ok(Rebuilt(s, T))
  BY Zenon DEF PartyRecover, PositionIn, TweakOf, TweakedOf, PubsharesOf, DecryptedFor,
         SecshareFor, Rebuilt
<1>2. Rebuilds(s, T) <=>
         position.ok /\ TweakOf(T).ok /\ DecryptedFor(s, T).ok /\ matches
  BY DEF Rebuilds
<1> HIDE DEF position
<1> QED
  BY <1>1, <1>2, ErrIsNotOk, Zenon

LEMMA CoordinatorRecoverRebuilds ==
    ASSUME NEW recovery, NEW T, T = recovery.transcript
    PROVE  CoordinatorRecover(recovery).ok <=>
              RebuildsPublic(T) /\ VerifyCertificate(T, recovery.cert).ok
<1> DEFINE created == CoordinatorNew([host_pubkeys |-> T.host_pubkeys, t |-> T.t])
           out == [t |-> T.t, threshold_pubkey |-> TweakedOf(T)[1],
                   pubshares |-> PubsharesOf(T)]
<1>1. CoordinatorRecover(recovery) =
         IF ~created.ok \/ ~VerifyCertificate(T, recovery.cert).ok
         THEN Err(Error("RecoveryData"))
         ELSE IF ~TweakOf(T).ok THEN TweakOf(T)
         ELSE Ok(out)
  BY DEF CoordinatorRecover, TweakOf, TweakedOf, PubsharesOf
<1>2. created.ok = ValidatePublicSessionParams(T.host_pubkeys, T.t).ok
  BY DEF CoordinatorNew, Advance
<1> HIDE DEF created, out
<1> QED
  BY <1>1, <1>2, ErrIsNotOk, OkIsOk DEF RebuildsPublic

LEMMA RebuildsForAll == ASSUME NEW s, NEW T, Rebuilds(s, T) PROVE RebuildsPublic(T)
BY ErrIsNotOk DEF Rebuilds, RebuildsPublic, PositionIn, ValidateSessionParams

(***************************************************************************)
(* What step 2 signs can be rebuilt from the transcript.                   *)
(***************************************************************************)
LEMMA Step1NextRebuilds ==
    ASSUME NEW st, NEW msg, NEW res, res = Step1Next(st, msg), res.ok,
           ValidateSessionParams(st.s, st.host_pubkeys, st.t) = Ok(st.idx),
           st.idx \in 1 .. Len(st.host_pubkeys)
    PROVE  /\ Rebuilds(st.s, res.st.transcript)
           /\ res.st.dkg_output = Rebuilt(st.s, res.st.transcript)
<1> DEFINE sum == SumCommitment(msg)
           tweak == TapTweakNoScript(sum[1])
           tweaked == TweakCommitment(sum, tweak.val)
           decrypted == Decrypt(st.s, msg.pubnonces, EncContext(st.t, st.host_pubkeys),
                                st.idx, msg.enc_secshares[st.idx])
           secshare == (decrypted.val + tweak.val) % Order
           T == Transcript(st.t, sum, st.host_pubkeys, msg.pubnonces, msg.enc_secshares)
           sig == CertEqSign(st.s, T, st.idx)
           pubshares == [i \in 1 .. Len(st.host_pubkeys) |-> EvalPubShare(tweaked, i)]
           dkg_output == [idx |-> st.idx, t |-> st.t, secshare |-> secshare,
                          threshold_pubkey |-> tweaked[1], pubshares |-> pubshares]
<1>1. /\ decrypted.ok /\ tweak.ok /\ ShareMatches(secshare, tweaked, st.idx)
      /\ res = Advance("Step2", [transcript |-> T, dkg_output |-> dkg_output], sig.val)
  BY ErrIsNotOk, Zenon DEF Step1Next
<1>2. res.st.transcript = T /\ res.st.dkg_output = dkg_output
  <2> HIDE DEF T, dkg_output, sig
  <2> QED
    BY <1>1 DEF Advance
<1>3. /\ T.t = st.t /\ T.host_pubkeys = st.host_pubkeys /\ T.sum_commitment = sum
      /\ T.pubnonces = msg.pubnonces /\ T.enc_secshares = msg.enc_secshares
  BY DEF Transcript
<1> HIDE DEF T, sum
<1>4. PositionIn(st.s, T) = Ok(st.idx)
  BY <1>3 DEF PositionIn
<1>5. PositionIn(st.s, T).ok /\ PositionIn(st.s, T).val = st.idx
  BY <1>4, OkIsOk
<1>6. TweakOf(T) = tweak /\ TweakedOf(T) = tweaked
  BY <1>3 DEF TweakOf, TweakedOf
<1>7. PubsharesOf(T) = pubshares
  BY <1>3, <1>6 DEF PubsharesOf
<1>8. DecryptedFor(st.s, T) = decrypted
  BY <1>3, <1>5 DEF DecryptedFor
<1>9. SecshareFor(st.s, T) = secshare
  BY <1>6, <1>8 DEF SecshareFor
<1>10. pubshares[st.idx] = EvalPubShare(tweaked, st.idx)
  OBVIOUS
<1> HIDE DEF tweak, tweaked, decrypted, secshare, pubshares
<1>11. Rebuilds(st.s, T)
  BY <1>1, <1>5, <1>6, <1>7, <1>8, <1>9, <1>10 DEF Rebuilds, ShareMatches
<1>12. dkg_output = Rebuilt(st.s, T)
  BY <1>3, <1>5, <1>6, <1>7, <1>9 DEF Rebuilt
<1> QED
  BY <1>2, <1>11, <1>12

LEMMA InitialNextPosition ==
    ASSUME NEW st, NEW params, NEW random,
           NEW res, res = InitialNext(st, params, random), res.ok
    PROVE  /\ res.phase = "Step1"
           /\ res.st.s = st.s
           /\ ValidateSessionParams(st.s, res.st.host_pubkeys, res.st.t) = Ok(res.st.idx)
<1> DEFINE position == ValidateSessionParams(st.s, params.host_pubkeys, params.t)
<1>1. /\ position.ok
      /\ res.phase = "Step1" /\ res.st.s = st.s
      /\ res.st.host_pubkeys = params.host_pubkeys /\ res.st.t = params.t
      /\ res.st.idx = position.val
  BY ErrIsNotOk, Zenon DEF InitialNext, Advance
<1>2. position.ok => position = Ok(position.val)
  BY ErrIsNotOk, OkIsOk DEF ValidateSessionParams, ValidatePublicSessionParams
<1> HIDE DEF position
<1> QED
  BY <1>1, <1>2 DEF position

LEMMA CoordinatorInitialNextRebuilds ==
    ASSUME NEW st, NEW msgs, NEW res, res = CoordinatorInitialNext(st, msgs), res.ok,
           ValidatePublicSessionParams(st.host_pubkeys, st.t).ok
    PROVE  res.phase = "Step1" /\ RebuildsPublic(res.st.transcript)
<1> DEFINE n == Len(st.host_pubkeys)
           sum == [k \in 1 .. st.t |-> SumMod([i \in 1 .. n |-> msgs[i].commitment[k]])]
           pubnonces == [i \in 1 .. n |-> msgs[i].pubnonce]
           secshares == [j \in 1 .. n |-> SumMod([i \in 1 .. n |-> msgs[i].enc_shares[j]])]
           out == [coms_to_secrets |-> [i \in 1 .. n |-> msgs[i].commitment[1]],
                   sum_coms_to_nonconst_terms |-> Tail(sum),
                   pops |-> [i \in 1 .. n |-> msgs[i].pop],
                   pubnonces |-> pubnonces,
                   enc_secshares |-> secshares]
           tweak == TapTweakNoScript(sum[1])
           tweaked == TweakCommitment(sum, tweak.val)
           transcript == Transcript(st.t, sum, st.host_pubkeys, out.pubnonces,
                                    out.enc_secshares)
           pubshares == [i \in 1 .. n |-> EvalPubShare(tweaked, i)]
           dkg_output == [t |-> st.t, threshold_pubkey |-> tweaked[1],
                          pubshares |-> pubshares]
<1>1. /\ tweak.ok
      /\ res = Advance("Step1",
                [t |-> st.t, host_pubkeys |-> st.host_pubkeys, transcript |-> transcript,
                 dkg_output |-> dkg_output],
                out)
  BY ErrIsNotOk, Zenon DEF CoordinatorInitialNext
<1>2. res.st.transcript = transcript /\ res.phase = "Step1"
  <2> HIDE DEF transcript, dkg_output, out
  <2> QED
    BY <1>1 DEF Advance
<1>3. /\ transcript.t = st.t
      /\ transcript.sum_commitment = sum
      /\ transcript.host_pubkeys = st.host_pubkeys
  BY DEF Transcript
<1> HIDE DEF transcript, sum, out
<1> QED
  BY <1>1, <1>2, <1>3 DEF RebuildsPublic, TweakOf

-----------------------------------------------------------------------------
(***************************************************************************)
(* The invariant.  A driver of p knows its position in its parameters, and *)
(* what it has signed it can rebuild, to the output it will hold.          *)
(***************************************************************************)
Rebuilding(p, d) ==
    /\ d.phase = "Step1" =>
          ValidateSessionParams(HostSec[p], d.st.host_pubkeys, d.st.t) = Ok(d.st.idx)
    /\ d.phase = "Step2" =>
          /\ Rebuilds(HostSec[p], d.st.transcript)
          /\ d.st.dkg_output = Rebuilt(HostSec[p], d.st.transcript)

DriversRebuild == \A p \in Honest : \A d \in {pst[p]} \cup copies[p] : Rebuilding(p, d)

SignedRebuilds ==
    \A p \in Honest : \A sig \in pmsg2[p] : Rebuilds(HostSec[p], sig.transcript)

HeldOutput(p, o) ==
    LET T == o.recovery.transcript
    IN  /\ Rebuilds(HostSec[p], T)
        /\ o.output = Rebuilt(HostSec[p], T)
        /\ VerifyCertificate(T, o.recovery.cert).ok

OutputsRebuild == \A p \in Honest : \A o \in output[p] : HeldOutput(p, o)

CoordinatorRebuilds ==
    /\ cst.phase = "Initial" => ValidatePublicSessionParams(cst.st.host_pubkeys, cst.st.t).ok
    /\ cst.phase = "Step1" => RebuildsPublic(cst.st.transcript)
    /\ \A o \in coutput : /\ RebuildsPublic(o.recovery.transcript)
                          /\ VerifyCertificate(o.recovery.transcript, o.recovery.cert).ok

RecoveryInv == DriversRebuild /\ SignedRebuilds /\ OutputsRebuild /\ CoordinatorRebuilds

LEMMA RecoveryInvInit == Init => RecoveryInv
BY DEF Init, RecoveryInv, DriversRebuild, SignedRebuilds, OutputsRebuild,
       CoordinatorRebuilds, Rebuilding, NewParticipant, Absent, Driver

(***************************************************************************)
(* A call of one step of p.                                                *)
(***************************************************************************)
LEMMA DriversKeepRebuilding ==
    ASSUME TypeOK, DriversRebuild, NEW p \in Honest, NEW driver,
           Rebuilding(p, driver), pst' = [pst EXCEPT ![p] = driver], copies' = copies
    PROVE  DriversRebuild'
BY DEF DriversRebuild, TypeOK

LEMMA CallRebuilds ==
    ASSUME DriversRebuild, NEW p \in Honest, NEW expected, NEW res,
           NEW call, call = Transition(pst[p], expected, res),
           pst[p].phase = expected /\ res.ok => Rebuilding(p, Driver(res.phase, res.st))
    PROVE  Rebuilding(p, call.state)
<1>1. Rebuilding(p, pst[p])
  BY DEF DriversRebuild
<1>2. ASSUME call.state.phase = "Failed" PROVE Rebuilding(p, call.state)
  BY <1>2 DEF Rebuilding
<1>3. \/ pst[p].phase = expected /\ res.ok /\ call.state = Driver(res.phase, res.st)
      \/ call.state = pst[p] \/ call.state.phase = "Failed"
  BY TransitionCases
<1> QED
  BY <1>1, <1>2, <1>3

LEMMA RecoveryInvStep1 ==
    ASSUME TypeOK, RecoveryInv, NEW p \in Honest, ParticipantStep1(p)
    PROVE  RecoveryInv'
<1>1. PICK params \in ParamChoices[p], random \in Randoms :
         pst' = [pst EXCEPT ![p] = Transition(pst[p], "Initial",
                                       InitialNext(pst[p].st, params, random)).state]
  BY DEF ParticipantStep1
<1> DEFINE st == pst[p].st
           res == InitialNext(st, params, random)
           call == Transition(pst[p], "Initial", res)
<1>2. UNCHANGED <<copies, pmsg2, output, coutput, cst>> /\ pst' = [pst EXCEPT ![p] = call.state]
  BY <1>1 DEF ParticipantStep1, cvars
<1>3. ASSUME pst[p].phase = "Initial", res.ok
      PROVE  Rebuilding(p, Driver(res.phase, res.st))
  <2>1. st.s = HostSec[p]
    <3>1. ParticipantDriver(p, pst[p])
      BY OwnDriverTyped
    <3> QED
      BY <1>3, <3>1 DEF ParticipantDriver, NewParticipant, Driver
  <2>2. /\ res.phase = "Step1"
        /\ ValidateSessionParams(st.s, res.st.host_pubkeys, res.st.t) = Ok(res.st.idx)
    BY <1>3, InitialNextPosition
  <2> HIDE DEF res, st
  <2> QED
    BY <2>1, <2>2 DEF Rebuilding, Driver
<1>4. call = Transition(pst[p], "Initial", res)
  OBVIOUS
<1> HIDE DEF call, res
<1>5. Rebuilding(p, call.state)
  BY <1>3, <1>4, CallRebuilds DEF RecoveryInv
<1>6. DriversRebuild'
  BY <1>2, <1>5, DriversKeepRebuilding DEF RecoveryInv
<1> QED
  BY <1>2, <1>6 DEF RecoveryInv, SignedRebuilds, OutputsRebuild, CoordinatorRebuilds

LEMMA RecoveryInvStep2 ==
    ASSUME TypeOK, RecoveryInv, NEW p \in Honest, ParticipantStep2(p)
    PROVE  RecoveryInv'
<1>1. PICK msg \in DeliverableCmsg1 :
         LET call == Transition(pst[p], "Step1", Step1Next(pst[p].st, msg))
         IN  /\ pst' = [pst EXCEPT ![p] = call.state]
             /\ pmsg2' = [pmsg2 EXCEPT ![p] =
                            IF call.reply.ok THEN @ \cup {call.reply.val} ELSE @]
  BY DEF ParticipantStep2
<1> DEFINE st == pst[p].st
           res == Step1Next(st, msg)
           call == Transition(pst[p], "Step1", res)
<1>2. /\ UNCHANGED <<copies, output, coutput, cst>>
      /\ pst' = [pst EXCEPT ![p] = call.state]
      /\ pmsg2' = [pmsg2 EXCEPT ![p] = IF call.reply.ok THEN @ \cup {call.reply.val} ELSE @]
  BY <1>1 DEF ParticipantStep2, cvars
<1>3. ASSUME pst[p].phase = "Step1", res.ok
      PROVE  /\ Rebuilding(p, Driver(res.phase, res.st))
             /\ Rebuilds(HostSec[p], res.out.transcript)
  <2>1. /\ st.host_pubkeys \in Seq(Scalar)
        /\ st.idx \in DOMAIN st.host_pubkeys
        /\ st.s = HostSec[p]
    <3>1. ParticipantDriver(p, pst[p])
      BY OwnDriverTyped
    <3> QED
      BY <1>3, <3>1 DEF ParticipantDriver, NewParticipant, Driver
  <2>2. ValidateSessionParams(st.s, st.host_pubkeys, st.t) = Ok(st.idx)
    BY <1>3, <2>1 DEF RecoveryInv, DriversRebuild, Rebuilding
  <2>3. res.phase = "Step2" /\ res.out = Sig(XOnly(MulG(st.s)), st.idx, res.st.transcript)
    BY <1>3, <2>1, Step1NextOk
  <2>4. st.idx \in 1 .. Len(st.host_pubkeys)
    BY <2>1, LenProperties
  <2>5. /\ Rebuilds(st.s, res.st.transcript)
        /\ res.st.dkg_output = Rebuilt(st.s, res.st.transcript)
    BY <1>3, <2>2, <2>4, Step1NextRebuilds
  <2> HIDE DEF res, st
  <2> QED
    BY <2>1, <2>3, <2>5 DEF Rebuilding, Driver, Sig
<1>4. call = Transition(pst[p], "Step1", res)
  OBVIOUS
<1> HIDE DEF call, res
<1>5. Rebuilding(p, call.state)
  BY <1>3, <1>4, CallRebuilds DEF RecoveryInv
<1>6. DriversRebuild'
  BY <1>2, <1>5, DriversKeepRebuilding DEF RecoveryInv
<1>7. call.reply.ok => pst[p].phase = "Step1" /\ res.ok /\ call.reply.val = res.out
  BY <1>4, TransitionCases
<1>8. SignedRebuilds'
  BY <1>2, <1>3, <1>7 DEF RecoveryInv, SignedRebuilds, TypeOK
<1> QED
  BY <1>2, <1>6, <1>8 DEF RecoveryInv, OutputsRebuild, CoordinatorRebuilds

LEMMA RecoveryInvFinalize ==
    ASSUME TypeOK, RecoveryInv, NEW p \in Honest, ParticipantFinalize(p)
    PROVE  RecoveryInv'
<1>1. PICK cert \in DeliverableCerts :
         LET call == Transition(pst[p], "Step2", Step2Next(pst[p].st, cert))
         IN  /\ pst' = [pst EXCEPT ![p] = call.state]
             /\ output' = [output EXCEPT ![p] =
                             IF call.reply.ok THEN @ \cup {call.reply.val} ELSE @]
  BY DEF ParticipantFinalize
<1> DEFINE st == pst[p].st
           res == Step2Next(st, cert)
           call == Transition(pst[p], "Step2", res)
<1>2. /\ UNCHANGED <<copies, pmsg2, coutput, cst>>
      /\ pst' = [pst EXCEPT ![p] = call.state]
      /\ output' = [output EXCEPT ![p] = IF call.reply.ok THEN @ \cup {call.reply.val} ELSE @]
  BY <1>1 DEF ParticipantFinalize, cvars
<1>3. ASSUME pst[p].phase = "Step2", res.ok
      PROVE  Rebuilding(p, Driver(res.phase, res.st)) /\ HeldOutput(p, res.out)
  <2>1. /\ Rebuilds(HostSec[p], st.transcript)
        /\ st.dkg_output = Rebuilt(HostSec[p], st.transcript)
    BY <1>3 DEF RecoveryInv, DriversRebuild, Rebuilding
  <2>2. /\ res.phase = "Successful"
        /\ res.out.recovery.transcript = st.transcript
        /\ res.out.recovery.cert = cert
        /\ VerifyCertificate(st.transcript, cert).ok
    BY <1>3, Step2NextOk
  <2>3. res.out.output = st.dkg_output
    BY <1>3, ErrIsNotOk DEF Step2Next, Finish, Advance
  <2> HIDE DEF res, st
  <2> QED
    BY <2>1, <2>2, <2>3 DEF Rebuilding, Driver, HeldOutput
<1>4. call = Transition(pst[p], "Step2", res)
  OBVIOUS
<1> HIDE DEF call, res
<1>5. Rebuilding(p, call.state)
  BY <1>3, <1>4, CallRebuilds DEF RecoveryInv
<1>6. DriversRebuild'
  BY <1>2, <1>5, DriversKeepRebuilding DEF RecoveryInv
<1>7. call.reply.ok => pst[p].phase = "Step2" /\ res.ok /\ call.reply.val = res.out
  BY <1>4, TransitionCases
<1>8. OutputsRebuild'
  BY <1>2, <1>3, <1>7 DEF RecoveryInv, OutputsRebuild, TypeOK
<1> QED
  BY <1>2, <1>6, <1>8 DEF RecoveryInv, SignedRebuilds, CoordinatorRebuilds

LEMMA RecoveryInvRecover ==
    ASSUME TypeOK, RecoveryInv, NEW p \in Honest, ParticipantRecover(p)
    PROVE  RecoveryInv'
<1>1. PICK recovery \in DeliverableRecovery :
         /\ PartyRecover(HostSec[p], recovery).ok
         /\ output' = [output EXCEPT ![p] = @ \cup
                          {[output |-> PartyRecover(HostSec[p], recovery).val,
                            recovery |-> recovery]}]
  BY DEF ParticipantRecover
<1>2. UNCHANGED <<pst, copies, pmsg2, coutput, cst>>
  BY DEF ParticipantRecover, cvars
<1>3. /\ Rebuilds(HostSec[p], recovery.transcript)
      /\ VerifyCertificate(recovery.transcript, recovery.cert).ok
      /\ PartyRecover(HostSec[p], recovery) = Ok(Rebuilt(HostSec[p], recovery.transcript))
  BY <1>1, PartyRecoverRebuilds
<1> DEFINE new == [output |-> PartyRecover(HostSec[p], recovery).val, recovery |-> recovery]
<1>4. HeldOutput(p, new)
  BY <1>3, OkIsOk DEF HeldOutput
<1> HIDE DEF new
<1>5. OutputsRebuild'
  <2>1. output' = [output EXCEPT ![p] = @ \cup {new}]
    BY <1>1 DEF new
  <2> QED
    BY <1>4, <2>1 DEF RecoveryInv, OutputsRebuild, TypeOK
<1> QED
  BY <1>2, <1>5 DEF RecoveryInv, DriversRebuild, SignedRebuilds, CoordinatorRebuilds

LEMMA RecoveryInvRestart ==
    ASSUME TypeOK, RecoveryInv, NEW p \in Honest, ParticipantRestart(p) \/ ParticipantClone(p)
    PROVE  RecoveryInv'
<1>1. UNCHANGED <<pmsg2, output, coutput, cst>>
  BY DEF ParticipantRestart, ParticipantClone, cvars
<1>2. CASE ParticipantRestart(p)
  <2>1. PICK driver \in {NewParticipant(p)} \cup copies[p] :
           pst' = [pst EXCEPT ![p] = driver] /\ copies' = copies
    BY <1>2 DEF ParticipantRestart
  <2>2. Rebuilding(p, driver)
    BY DEF RecoveryInv, DriversRebuild, Rebuilding, NewParticipant, Driver
  <2>3. DriversRebuild'
    BY <2>1, <2>2, DriversKeepRebuilding DEF RecoveryInv
  <2> QED
    BY <1>1, <2>3 DEF RecoveryInv, SignedRebuilds, OutputsRebuild, CoordinatorRebuilds
<1>3. CASE ParticipantClone(p)
  <2>1. copies' = [copies EXCEPT ![p] = @ \cup {pst[p]}] /\ pst' = pst
    BY <1>3 DEF ParticipantClone
  <2>2. DriversRebuild'
    BY <2>1 DEF RecoveryInv, DriversRebuild, TypeOK
  <2> QED
    BY <1>1, <2>2 DEF RecoveryInv, SignedRebuilds, OutputsRebuild, CoordinatorRebuilds
<1> QED
  BY <1>2, <1>3

(***************************************************************************)
(* The coordinator's steps, which leave the participants alone.            *)
(***************************************************************************)
LEMMA RecoveryInvCoordinator ==
    ASSUME TypeOK, RecoveryInv, CoordinatorCall PROVE RecoveryInv'
<1>1. UNCHANGED pvars
  BY DEF CoordinatorCall, CoordinatorCreate, CoordinatorStep1, CoordinatorStep2,
         CoordinatorRecovers
<1>2. CoordinatorRebuilds'
  <2>1. CASE CoordinatorCreate
    <3>1. PICK params \in CoordParams :
             cst' = IF CoordinatorNew(params).ok
                    THEN Driver(CoordinatorNew(params).phase, CoordinatorNew(params).st)
                    ELSE Absent
      BY <2>1 DEF CoordinatorCreate
    <3>2. CoordinatorNew(params).ok =>
             /\ CoordinatorNew(params).phase = "Initial" /\ CoordinatorNew(params).st = params
             /\ ValidatePublicSessionParams(params.host_pubkeys, params.t).ok
      BY DEF CoordinatorNew, Advance
    <3>3. coutput' = coutput
      BY <2>1 DEF CoordinatorCreate
    <3> QED
      BY <3>1, <3>2, <3>3 DEF RecoveryInv, CoordinatorRebuilds, Driver, Absent
  <2>2. CASE CoordinatorStep1
    <3>0. \E order \in Orders : \E msgs \in Collected(order, Msg1From) :
             cst' = Transition(cst, "Initial", CoordinatorInitialNext(cst.st, msgs)).state
      BY <2>2 DEF CoordinatorStep1
    <3>1. PICK msgs :
             cst' = Transition(cst, "Initial", CoordinatorInitialNext(cst.st, msgs)).state
      BY <3>0
    <3> DEFINE res == CoordinatorInitialNext(cst.st, msgs)
               call == Transition(cst, "Initial", res)
    <3>2. \/ /\ cst.phase = "Initial" /\ res.ok
             /\ call.state = Driver(res.phase, res.st)
          \/ call.state = cst \/ call.state.phase = "Failed"
      BY TransitionCases
    <3>3. ASSUME cst.phase = "Initial", res.ok
          PROVE  res.phase = "Step1" /\ RebuildsPublic(res.st.transcript)
      BY <3>3, CoordinatorInitialNextRebuilds DEF RecoveryInv, CoordinatorRebuilds
    <3>4. cst' = call.state /\ coutput' = coutput
      BY <2>2, <3>1 DEF CoordinatorStep1
    <3> HIDE DEF res, call
    <3> QED
      BY <3>2, <3>3, <3>4 DEF RecoveryInv, CoordinatorRebuilds, Driver
  <2>3. CASE CoordinatorStep2
    <3>1. PICK sigs :
             LET call == Transition(cst, "Step1", CoordinatorStep1Next(cst.st, sigs))
             IN  /\ cst' = call.state
                 /\ IF call.reply.ok
                    THEN coutput' = coutput \cup
                             {[output   |-> call.reply.val.output,
                               recovery |-> call.reply.val.recovery]}
                    ELSE coutput' = coutput
      BY <2>3 DEF CoordinatorStep2
    <3> DEFINE st == cst.st
               res == CoordinatorStep1Next(st, sigs)
               call == Transition(cst, "Step1", res)
    <3>2. \/ /\ cst.phase = "Step1" /\ res.ok /\ call.reply.ok
             /\ call.state = Driver(res.phase, res.st) /\ call.reply.val = res.out
          \/ ~ call.reply.ok /\ (call.state = cst \/ call.state.phase = "Failed")
      BY TransitionCases
    <3>3. ASSUME cst.phase = "Step1", res.ok
          PROVE  /\ res.phase = "Successful"
                 /\ RebuildsPublic(res.out.recovery.transcript)
                 /\ VerifyCertificate(res.out.recovery.transcript, res.out.recovery.cert).ok
      <4>1. RebuildsPublic(st.transcript)
        BY <3>3 DEF RecoveryInv, CoordinatorRebuilds
      <4>2. /\ res.phase = "Successful"
            /\ res.out.recovery.transcript = st.transcript
            /\ res.out.recovery.cert = sigs
            /\ VerifyCertificate(st.transcript, sigs).ok
        BY <3>3, CoordinatorStep1NextOk
      <4> HIDE DEF res, st
      <4> QED
        BY <4>1, <4>2
    <3>4. /\ cst' = call.state
          /\ call.reply.ok =>
                coutput' = coutput \cup {[output   |-> call.reply.val.output,
                                          recovery |-> call.reply.val.recovery]}
          /\ ~ call.reply.ok => coutput' = coutput
      BY <3>1
    <3> HIDE DEF call, res, st
    <3>5. \A o \in coutput' :
             o \in coutput \/ (call.reply.ok /\ o.recovery = call.reply.val.recovery)
      BY <3>4
    <3> QED
      BY <3>2, <3>3, <3>4, <3>5 DEF RecoveryInv, CoordinatorRebuilds, Driver
  <2>4. CASE CoordinatorRecovers
    <3>1. PICK recovery \in DeliverableRecovery :
             /\ CoordinatorRecover(recovery).ok
             /\ coutput' = coutput \cup {[output |-> CoordinatorRecover(recovery).val,
                                          recovery |-> recovery]}
      BY <2>4 DEF CoordinatorRecovers
    <3>2. /\ RebuildsPublic(recovery.transcript)
          /\ VerifyCertificate(recovery.transcript, recovery.cert).ok
      BY <3>1, CoordinatorRecoverRebuilds
    <3>3. cst' = cst /\ \A o \in coutput' : o \in coutput \/ o.recovery = recovery
      BY <2>4, <3>1 DEF CoordinatorRecovers
    <3> QED
      BY <3>2, <3>3 DEF RecoveryInv, CoordinatorRebuilds
  <2> QED
    BY <2>1, <2>2, <2>3, <2>4 DEF CoordinatorCall
<1> QED
  BY <1>1, <1>2 DEF RecoveryInv, DriversRebuild, SignedRebuilds, OutputsRebuild, pvars

LEMMA RecoveryInvStep == TypeOK /\ RecoveryInv /\ [Next]_vars => RecoveryInv'
<1> SUFFICES ASSUME TypeOK, RecoveryInv, [Next]_vars PROVE RecoveryInv'
  OBVIOUS
<1>1. CASE UNCHANGED vars
  BY <1>1 DEF vars, RecoveryInv, DriversRebuild, SignedRebuilds, OutputsRebuild,
              CoordinatorRebuilds
<1> QED
  BY <1>1, RecoveryInvStep1, RecoveryInvStep2, RecoveryInvFinalize, RecoveryInvRecover,
     RecoveryInvRestart, RecoveryInvCoordinator DEF Next, Progress, ParticipantCall

-----------------------------------------------------------------------------
LEMMA RecoveryDataRebuilds == RecoveryInv /\ CertifiedByAll => Recoverable
<1> SUFFICES ASSUME RecoveryInv, CertifiedByAll, NEW recovery \in PublishedRecovery
             PROVE  /\ CoordinatorRecover(recovery).ok
                    /\ \A q \in HonestMembers(recovery.transcript) :
                          LET res == PartyRecover(HostSec[q], recovery)
                          IN  /\ res.ok
                              /\ \A o \in output[q] :
                                    o.recovery.transcript = recovery.transcript
                                       => o.output = res.val
  BY DEF Recoverable
<1> DEFINE T == recovery.transcript
<1>1. PICK held \in Held : held.recovery = recovery
  BY DEF PublishedRecovery, Held
<1>2. RebuildsPublic(T) /\ VerifyCertificate(T, recovery.cert).ok
  <2>1. CASE held \in coutput
    BY <1>1, <2>1 DEF RecoveryInv, CoordinatorRebuilds
  <2>2. ASSUME NEW p \in Honest, held \in output[p]
        PROVE  RebuildsPublic(T) /\ VerifyCertificate(T, recovery.cert).ok
    <3>1. HeldOutput(p, held)
      BY <2>2 DEF RecoveryInv, OutputsRebuild
    <3>2. Rebuilds(HostSec[p], T) /\ VerifyCertificate(T, recovery.cert).ok
      BY <1>1, <3>1 DEF HeldOutput
    <3> QED
      BY <3>2, RebuildsForAll
  <2> QED
    BY <2>1, <2>2 DEF Held
<1>3. CoordinatorRecover(recovery).ok
  BY <1>2, CoordinatorRecoverRebuilds
<1>4. ASSUME NEW q \in HonestMembers(T)
      PROVE  /\ PartyRecover(HostSec[q], recovery).ok
             /\ \A o \in output[q] : o.recovery.transcript = T
                   => o.output = PartyRecover(HostSec[q], recovery).val
  <2>1. q \in Honest /\ HasSigned(q, T)
    BY <1>1 DEF CertifiedByAll, HonestMembers
  <2>2. Rebuilds(HostSec[q], T)
    BY <2>1 DEF HasSigned, RecoveryInv, SignedRebuilds
  <2>3. PartyRecover(HostSec[q], recovery) = Ok(Rebuilt(HostSec[q], T))
    BY <1>2, <2>2, PartyRecoverRebuilds
  <2>4. \A o \in output[q] : o.recovery.transcript = T => o.output = Rebuilt(HostSec[q], T)
    BY <2>1 DEF RecoveryInv, OutputsRebuild, HeldOutput
  <2> QED
    BY <2>3, <2>4, OkIsOk
<1> QED
  BY <1>3, <1>4

(***************************************************************************)
(* Recovery data that any honest holder keeps lets the coordinator, and    *)
(* every honest member of its transcript, rebuild its output: every member *)
(* has signed the transcript, and checked before it signed all that        *)
(* `recover` will check.                                                   *)
(***************************************************************************)
THEOREM RecoveryDataRecovers == Spec => []Recoverable
<1>1. Init => TypeOK /\ CertificateInv /\ RecoveryInv
  BY TypeOKInit, CertificateInvInit, RecoveryInvInit
<1>2. TypeOK /\ CertificateInv /\ RecoveryInv /\ [Next]_vars
         => (TypeOK /\ CertificateInv /\ RecoveryInv)'
  BY TypeOKStep, CertificateInvStep, RecoveryInvStep
<1>3. CertificateInv /\ RecoveryInv => Recoverable
  BY HeldIsCertifiedByAll, RecoveryDataRebuilds
<1> QED
  BY <1>1, <1>2, <1>3, PTL DEF Spec

-----------------------------------------------------------------------------
(* Usable keys *)

(***************************************************************************)
(* The invariant: the commitments that are sent, aggregated and signed are *)
(* lists of scalars, and a signed one has as many as the threshold says.   *)
(* An aggregate of no messages may hold anything: no party accepts it.     *)
(***************************************************************************)
SentPoints ==
    \A p \in Honest : \A m \in pmsg1[p] : m.commitment \in Seq(Scalar) \ {<<>>}

TypedAggregate(m) ==
    m.coms_to_secrets \in Seq(Scalar) /\ m.sum_coms_to_nonconst_terms \in Seq(Scalar)

EmptyAggregate(m) == m.pops = <<>> \/ m.pubnonces = <<>>

AggregatePoints(m) == TypedAggregate(m) \/ EmptyAggregate(m)

CommitmentPoints(T) ==
    T.t \in Nat \ {0} /\ T.sum_commitment \in [1 .. T.t -> Scalar]

PointsInv ==
    /\ SentPoints
    /\ \A m \in cmsg1 : AggregatePoints(m)
    /\ \A p \in Honest : \A sig \in pmsg2[p] : CommitmentPoints(sig.transcript)

LEMMA PointsInvInit == Init => PointsInv
BY DEF Init, PointsInv, SentPoints

(***************************************************************************)
(* The commitment of a participant's first message.                        *)
(***************************************************************************)
LEMMA SeedIsSession ==
    ASSUME NEW q \in Parties, NEW random \in Randoms \cup FakeRandoms,
           NEW params \in Params,
           params \in CoordParams \cup UNION {ParamChoices[p] : p \in Honest}
    PROVE  LET seed == Seed(HostSec[q], random, EncContext(params.t, params.host_pubkeys))
           IN  \A k \in 0 .. (params.t - 1) : CoeffHash(seed, k) \in Scalar
<1> DEFINE seed == Seed(HostSec[q], random, EncContext(params.t, params.host_pubkeys))
<1>1. seed \in SessionSeeds
  BY DEF SessionSeeds
<1>2. seed[3][1] = params.t
  BY DEF Seed, EncContext
<1> HIDE DEF seed
<1>3. \A k \in 0 .. (params.t - 1) : CoeffHash(seed, k) \in Scalar
  BY <1>1, <1>2, CoeffHashAssumption
<1> QED
  BY <1>3 DEF seed

LEMMA InitialNextPoints ==
    ASSUME NEW q \in Parties, NEW random \in Randoms \cup FakeRandoms, NEW params \in Params,
           params \in CoordParams \cup UNION {ParamChoices[p] : p \in Honest},
           NEW st, st.s = HostSec[q],
           NEW res, res = InitialNext(st, params, random), res.ok
    PROVE  res.out.commitment \in Seq(Scalar) \ {<<>>} /\ "commitment" \in DOMAIN res.out
<1> DEFINE seed == Seed(st.s, random, EncContext(params.t, params.host_pubkeys))
           coeffs == Coefficients(seed, params.t)
           idx == ValidateSessionParams(st.s, params.host_pubkeys, params.t).val
           pop == PopSign(coeffs[1], idx)
           r == NonceHash(seed)
           enc_shares == Encrypt(r, st.s, params.host_pubkeys,
                                 EncContext(params.t, params.host_pubkeys), idx,
                                 EvalShares(coeffs, Len(params.host_pubkeys)))
           out == [commitment |-> Commit(coeffs), pop |-> pop.val, pubnonce |-> MulG(r),
                   enc_shares |-> enc_shares]
<1>0. res.out = out /\ res.st.t = params.t
  BY ErrIsNotOk, Zenon DEF InitialNext, Advance
<1> HIDE DEF coeffs, pop, enc_shares, r
<1>1. res.out.commitment = Commit(coeffs) /\ res.st.t = params.t /\ "commitment" \in DOMAIN res.out
  BY <1>0
<1> HIDE DEF out
<1>2. params.t \in Nat /\ params.t >= 1
  <2>1. params \in [host_pubkeys : Seq(Scalar), t : Nat]
    BY DEF Params
  <2>2. res.st.t \in 1 .. Len(params.host_pubkeys)
    BY <2>1, InitialNextOk
  <2> QED
    BY <1>1, <2>1, <2>2
<1>3. \A k \in 0 .. (params.t - 1) : CoeffHash(seed, k) \in Scalar
  BY SeedIsSession
<1> HIDE DEF seed
<1>4. ASSUME NEW k \in 1 .. params.t PROVE MulG(coeffs[k]) \in Scalar
  <2>1. k - 1 \in 0 .. (params.t - 1)
    BY <1>2
  <2>2. coeffs[k] = CoeffHash(seed, k - 1)
    BY DEF Coefficients, coeffs
  <2>3. coeffs[k] \in Int
    BY <1>3, <2>1, <2>2, ScalarIsInt
  <2> QED
    BY <2>3, ModType DEF MulG
<1>5. Commit(coeffs) \in [1 .. params.t -> Scalar]
  <2>1. DOMAIN coeffs = 1 .. params.t
    BY DEF Coefficients, coeffs
  <2> QED
    BY <1>4, <2>1 DEF Commit
<1>6. Commit(coeffs) \in Seq(Scalar) /\ Len(Commit(coeffs)) = params.t
  BY <1>2, <1>5
<1>7. Commit(coeffs) # <<>>
  BY <1>2, <1>6
<1> QED
  BY <1>1, <1>6, <1>7

(***************************************************************************)
(* Aggregates of messages with such commitments.                           *)
(***************************************************************************)
LEMMA AggregatesArePoints ==
    ASSUME NEW st, NEW n \in Nat, n = Len(st.host_pubkeys), NEW t \in Nat, t = st.t,
           NEW msgs, Len(msgs) = n => \A i \in 1 .. n : msgs[i].commitment \in Seq(Scalar),
           n = 0 \/ t >= 1 \/ (Len(msgs) = n => \A i \in 1 .. n : msgs[i].commitment # <<>>),
           NEW res, res = CoordinatorInitialNext(st, msgs), res.ok
    PROVE  /\ {"coms_to_secrets", "sum_coms_to_nonconst_terms", "pops", "pubnonces"}
                   \subseteq DOMAIN res.out
           /\ \/ TypedAggregate(res.out) /\ res.out.coms_to_secrets # <<>>
              \/ res.out.pops = <<>> /\ res.out.pubnonces = <<>>
<1> DEFINE sum == [k \in 1 .. t |-> SumMod([i \in 1 .. n |-> msgs[i].commitment[k]])]
           coms == [i \in 1 .. n |-> msgs[i].commitment[1]]
           pops == [i \in 1 .. n |-> msgs[i].pop]
           pubnonces == [i \in 1 .. n |-> msgs[i].pubnonce]
           secshares == [j \in 1 .. n |-> SumMod([i \in 1 .. n |-> msgs[i].enc_shares[j]])]
           out == [coms_to_secrets |-> coms, sum_coms_to_nonconst_terms |-> Tail(sum),
                   pops |-> pops, pubnonces |-> pubnonces, enc_secshares |-> secshares]
<1>0. ValidateParticipantMsg1(st, msgs).ok /\ res.out = out
  BY ErrIsNotOk, Zenon DEF CoordinatorInitialNext, Advance
<1>1. /\ ValidateParticipantMsg1(st, msgs).ok
      /\ res.out.coms_to_secrets = coms
      /\ res.out.sum_coms_to_nonconst_terms = Tail(sum)
      /\ res.out.pops = pops /\ res.out.pubnonces = pubnonces
      /\ {"coms_to_secrets", "sum_coms_to_nonconst_terms", "pops", "pubnonces"}
             \subseteq DOMAIN res.out
  <2> HIDE DEF coms, sum, pops, pubnonces, secshares
  <2> QED
    BY <1>0
<1> HIDE DEF out
<1>2. Len(msgs) = n /\ \A i \in 1 .. n : Len(msgs[i].commitment) = t
  <2>1. /\ Len(msgs) = n
        /\ {i \in 1 .. Len(msgs) :
                   \/ Len(msgs[i].commitment) # st.t
                   \/ Len(msgs[i].enc_shares) # n
                   \/ msgs[i].pubnonce = Identity
                   \/ \E k \in DOMAIN msgs[i].commitment :
                         msgs[i].commitment[k] = Identity} = {}
    BY <1>1, ErrIsNotOk, Zenon DEF ValidateParticipantMsg1
  <2> QED
    BY <2>1
<1>3. \A i \in 1 .. n : msgs[i].commitment \in [1 .. t -> Scalar]
  BY <1>2
<1>4. n = 0 \/ t >= 1
  <2> SUFFICES ASSUME n # 0, t = 0 PROVE FALSE
    OBVIOUS
  <2>1. 1 \in 1 .. n
    OBVIOUS
  <2>2. msgs[1].commitment \in Seq(Scalar) /\ Len(msgs[1].commitment) = 0
        /\ msgs[1].commitment # <<>>
    BY <1>2, <2>1
  <2> QED
    BY <2>2
<1>5. coms \in Seq(Scalar)
  <2>1. coms \in [1 .. n -> Scalar]
    <3>1. ASSUME NEW i \in 1 .. n PROVE msgs[i].commitment[1] \in Scalar
      <4>1. 1 \in 1 .. t
        BY <1>4
      <4> QED
        BY <1>3, <4>1
    <3> QED
      BY <3>1
  <2> QED
    BY <2>1
<1>6. ASSUME n # 0 PROVE Tail(sum) \in Seq(Scalar) /\ coms # <<>>
  <2>1. coms # <<>>
    <3>1. 1 \in DOMAIN coms
      BY <1>6
    <3> QED
      BY <3>1
  <2>2. t >= 1
    BY <1>4, <1>6
  <2>3. ASSUME NEW k \in 1 .. t
        PROVE  SumMod([i \in 1 .. n |-> msgs[i].commitment[k]]) \in Scalar
    <3>1. [i \in 1 .. n |-> msgs[i].commitment[k]] \in [1 .. n -> Int]
      <4>1. \A i \in 1 .. n : msgs[i].commitment[k] \in Scalar
        BY <1>3
      <4> QED
        BY <4>1, ScalarIsInt
    <3> QED
      BY <3>1, SumModType
  <2>4. sum \in [1 .. t -> Scalar]
    BY <2>3
  <2> HIDE DEF sum
  <2>5. sum \in Seq(Scalar) /\ sum # <<>>
    <3>1. sum \in Seq(Scalar) /\ Len(sum) = t
      BY <2>4
    <3> QED
      BY <2>2, <3>1
  <2> QED
    BY <2>1, <2>5
<1>7. n = 0 => pops = <<>> /\ pubnonces = <<>>
  OBVIOUS
<1> HIDE DEF coms, sum, pops, pubnonces
<1> QED
  BY <1>1, <1>5, <1>6, <1>7 DEF TypedAggregate

(***************************************************************************)
(* The messages of faulty parties.                                         *)
(***************************************************************************)
LEMMA UpIsScalar == ASSUME NEW x \in Scalar PROVE Up(x) \in Scalar
BY OrderAssumption, ScalarIsInt, ModType DEF Up

LEMMA ChangedMember ==
    ASSUME NEW S, NEW s \in Seq(S), NEW i, NEW x, i \in DOMAIN s => x \in S
    PROVE  [s EXCEPT ![i] = x] \in Seq(S)
<1>1. s \in [1 .. Len(s) -> S] /\ Len(s) \in Nat
  OBVIOUS
<1>2. [s EXCEPT ![i] = x] \in [1 .. Len(s) -> S]
  BY <1>1
<1> QED
  BY <1>1, <1>2

LEMMA ChangedPoint ==
    ASSUME NEW s \in Seq(Scalar), NEW i, NEW x, i \in DOMAIN s => x \in Scalar
    PROVE  [s EXCEPT ![i] = x] \in Seq(Scalar)
BY ChangedMember

LEMMA TailOfPoints ==
    ASSUME NEW s \in Seq(Scalar), s # <<>> PROVE Tail(s) \in Seq(Scalar)
BY HeadTailProperties

LEMMA WellFormedPoints ==
    ASSUME NEW q \in Parties, NEW m \in WellFormedMsg1[q]
    PROVE  m.commitment \in Seq(Scalar) \ {<<>>} /\ "commitment" \in DOMAIN m
<1>1. PICK params \in CoordParams, random \in Randoms \cup FakeRandoms :
         /\ InitialNext([s |-> HostSec[q]], params, random).ok
         /\ m = InitialNext([s |-> HostSec[q]], params, random).out
  BY DEF WellFormedMsg1
<1>2. params \in Params /\ params \in CoordParams \cup UNION {ParamChoices[p] : p \in Honest}
  BY ParamsAssumption
<1> DEFINE st == [s |-> HostSec[q]]
           res == InitialNext(st, params, random)
<1>3. st.s = HostSec[q] /\ res.ok /\ m = res.out
  BY <1>1
<1> HIDE DEF res, st
<1> QED
  BY <1>2, <1>3, InitialNextPoints DEF res

LEMMA SpoiltPoints ==
    ASSUME NEW m, m.commitment \in Seq(Scalar) \ {<<>>}, "commitment" \in DOMAIN m,
           NEW s \in SpoiltMsg1(m)
    PROVE  s.commitment \in Seq(Scalar)
<1> DEFINE c == m.commitment
<1>1. c \in Seq(Scalar) /\ c # <<>> /\ Identity \in Scalar
  BY ScalarIsInt DEF Identity
<1>2. 1 \in DOMAIN c /\ Len(c) \in DOMAIN c /\ c[1] \in Scalar /\ c[Len(c)] \in Scalar
  BY <1>1
<1>3. Up(c[1]) \in Scalar /\ Up(c[Len(c)]) \in Scalar
  BY <1>2, UpIsScalar
<1>4. s.commitment \in {c, Tail(c), [c EXCEPT ![1] = Identity], [c EXCEPT ![Len(c)] = Identity],
                        [c EXCEPT ![1] = Up(c[1])], [c EXCEPT ![Len(c)] = Up(c[Len(c)])]}
  BY DEF SpoiltMsg1
<1> HIDE DEF c
<1> QED
  BY <1>1, <1>3, <1>4, ChangedPoint, TailOfPoints

LEMMA Msg1Points ==
    ASSUME SentPoints, NEW q \in Parties, NEW m \in Msg1From[q]
    PROVE  m.commitment \in Seq(Scalar)
<1>1. CASE q \in Honest
  BY <1>1 DEF Msg1From, SentPoints
<1>2. CASE q \notin Honest
  <2>1. m \in WellFormedMsg1[q] \/ \E w \in WellFormedMsg1[q] : m \in SpoiltMsg1(w)
    BY <1>2 DEF Msg1From, FaultyMsg1, Faulty
  <2> QED
    BY <2>1, WellFormedPoints, SpoiltPoints
<1> QED
  BY <1>1, <1>2

(***************************************************************************)
(* The aggregates of a faulty coordinator.                                 *)
(***************************************************************************)
SoundAggregate(m) ==
    /\ {"coms_to_secrets", "sum_coms_to_nonconst_terms", "pops", "pubnonces"} \subseteq DOMAIN m
    /\ \/ TypedAggregate(m) /\ m.coms_to_secrets # <<>>
       \/ m.pops = <<>> /\ m.pubnonces = <<>>

LEMMA AggregatedPoints ==
    ASSUME SentPoints, NEW m \in AggregatedMsg1 PROVE SoundAggregate(m)
<1>0. PICK params \in CoordParams, order \in Orders :
         \E ms \in Collected(order, ProtocolMsg1) :
            /\ CoordinatorInitialNext(params, ms).ok
            /\ m = CoordinatorInitialNext(params, ms).out
  BY DEF AggregatedMsg1
<1>1. PICK ms \in Collected(order, ProtocolMsg1) :
         /\ CoordinatorInitialNext(params, ms).ok
         /\ m = CoordinatorInitialNext(params, ms).out
  BY <1>0
<1>2. ASSUME NEW q \in Parties, NEW w \in ProtocolMsg1[q]
      PROVE  w.commitment \in Seq(Scalar) \ {<<>>}
  BY <1>2, WellFormedPoints DEF SentPoints, ProtocolMsg1
<1>3. params \in [host_pubkeys : Seq(Scalar), t : Nat] /\ order \in Seq(Parties)
  BY ParamsAssumption, OrdersAssumption DEF Params
<1>4. DOMAIN ms = DOMAIN order /\ \A i \in DOMAIN order : ms[i] \in ProtocolMsg1[order[i]]
  BY <1>1 DEF Collected
<1>5. \A i \in DOMAIN order : order[i] \in Parties
  BY <1>3
<1> DEFINE n == Len(params.host_pubkeys)
           t == params.t
           res == CoordinatorInitialNext(params, ms)
<1>6. n \in Nat /\ t \in Nat
  BY <1>3
<1>7. Len(ms) = Len(order)
  BY <1>3, <1>4
<1>8. ASSUME Len(ms) = n, NEW i \in 1 .. n
      PROVE  ms[i].commitment \in Seq(Scalar) /\ ms[i].commitment # <<>>
  <2>1. i \in DOMAIN order
    <3>1. DOMAIN order = 1 .. Len(order)
      BY <1>3, LenProperties
    <3> QED
      BY <1>7, <1>8, <3>1
  <2> QED
    BY <1>2, <1>4, <1>5, <2>1
<1>9. res.ok /\ m = res.out
  BY <1>1
<1> HIDE DEF res
<1>10. /\ {"coms_to_secrets", "sum_coms_to_nonconst_terms", "pops", "pubnonces"}
              \subseteq DOMAIN res.out
       /\ \/ TypedAggregate(res.out) /\ res.out.coms_to_secrets # <<>>
          \/ res.out.pops = <<>> /\ res.out.pubnonces = <<>>
  BY <1>6, <1>8, <1>9, AggregatesArePoints DEF res
<1> QED
  BY <1>9, <1>10 DEF SoundAggregate

(***************************************************************************)
(* The ways to spoil an aggregate, by the fields they change.              *)
(***************************************************************************)
LEMMA SpoiltCases ==
    ASSUME NEW m, NEW s \in SpoiltCmsg1(m)
    PROVE  \/ s = [m EXCEPT !.coms_to_secrets = Tail(m.coms_to_secrets)]
           \/ s = [m EXCEPT !.sum_coms_to_nonconst_terms =
                                Append(m.sum_coms_to_nonconst_terms, Identity)]
           \/ \E k \in DOMAIN m.sum_coms_to_nonconst_terms :
                 s = [m EXCEPT !.sum_coms_to_nonconst_terms[k] = Up(@)]
           \/ \E j \in DOMAIN m.pops : s = [m EXCEPT !.coms_to_secrets[j] = Identity]
           \/ \E j \in DOMAIN m.pops : s = [m EXCEPT !.coms_to_secrets[j] = Up(@)]
           \/ \E x : s = [m EXCEPT !.pops = x]
           \/ \E x : s = [m EXCEPT !.pubnonces = x]
           \/ \E x : s = [m EXCEPT !.enc_secshares = x]
<1> DEFINE At(j) == {[m EXCEPT !.coms_to_secrets[j] = Identity],
                     [m EXCEPT !.coms_to_secrets[j] = Up(@)],
                     [m EXCEPT !.pops[j] = NoPop],
                     [m EXCEPT !.pubnonces[j] = Identity],
                     [m EXCEPT !.pubnonces[j] = Up(@)],
                     [m EXCEPT !.enc_secshares[j] = Up(@)]}
<1>1. CASE s \in {[m EXCEPT !.coms_to_secrets = Tail(@)],
                  [m EXCEPT !.sum_coms_to_nonconst_terms = Append(@, Identity)],
                  [m EXCEPT !.pops = Tail(@)],
                  [m EXCEPT !.pubnonces = Tail(@)],
                  [m EXCEPT !.enc_secshares = Tail(@)]}
  BY <1>1, Zenon
<1>2. CASE s \in {[m EXCEPT !.sum_coms_to_nonconst_terms[k] = Up(@)] :
                      k \in DOMAIN m.sum_coms_to_nonconst_terms}
  BY <1>2, Zenon
<1>3. CASE \E j \in DOMAIN m.pops : s \in At(j)
  BY <1>3, Zenon
<1>4. \/ s \in {[m EXCEPT !.coms_to_secrets = Tail(@)],
                [m EXCEPT !.sum_coms_to_nonconst_terms = Append(@, Identity)],
                [m EXCEPT !.pops = Tail(@)],
                [m EXCEPT !.pubnonces = Tail(@)],
                [m EXCEPT !.enc_secshares = Tail(@)]}
      \/ s \in {[m EXCEPT !.sum_coms_to_nonconst_terms[k] = Up(@)] :
                    k \in DOMAIN m.sum_coms_to_nonconst_terms}
      \/ \E j \in DOMAIN m.pops : s \in At(j)
  BY Zenon DEF SpoiltCmsg1
<1> QED
  BY <1>1, <1>2, <1>3, <1>4

LEMMA SpoiltAggregates ==
    ASSUME NEW m, SoundAggregate(m), NEW s \in SpoiltCmsg1(m)
    PROVE  AggregatePoints(s)
<1> DEFINE c == m.coms_to_secrets
           d == m.sum_coms_to_nonconst_terms
<1>1. /\ "coms_to_secrets" \in DOMAIN m /\ "sum_coms_to_nonconst_terms" \in DOMAIN m
      /\ "pops" \in DOMAIN m /\ "pubnonces" \in DOMAIN m
  BY DEF SoundAggregate
<1>0. \/ s.coms_to_secrets = Tail(c) /\ s.sum_coms_to_nonconst_terms = d
            /\ s.pops = m.pops /\ s.pubnonces = m.pubnonces
      \/ s.coms_to_secrets = c /\ s.sum_coms_to_nonconst_terms = Append(d, Identity)
            /\ s.pops = m.pops /\ s.pubnonces = m.pubnonces
      \/ \E k \in DOMAIN d :
            s.coms_to_secrets = c /\ s.sum_coms_to_nonconst_terms = [d EXCEPT ![k] = Up(d[k])]
            /\ s.pops = m.pops /\ s.pubnonces = m.pubnonces
      \/ \E j \in DOMAIN m.pops :
            /\ \/ s.coms_to_secrets = [c EXCEPT ![j] = Identity]
               \/ s.coms_to_secrets = [c EXCEPT ![j] = Up(c[j])]
            /\ s.sum_coms_to_nonconst_terms = d
      \/ /\ s.coms_to_secrets = c /\ s.sum_coms_to_nonconst_terms = d
         /\ s.pops = m.pops \/ s.pubnonces = m.pubnonces
  <2>1. ASSUME NEW x, s = [m EXCEPT !.coms_to_secrets = x]
        PROVE  s.coms_to_secrets = x /\ s.sum_coms_to_nonconst_terms = d
                  /\ s.pops = m.pops /\ s.pubnonces = m.pubnonces
    BY <1>1, <2>1
  <2>2. ASSUME NEW x, s = [m EXCEPT !.sum_coms_to_nonconst_terms = x]
        PROVE  s.coms_to_secrets = c /\ s.sum_coms_to_nonconst_terms = x
                  /\ s.pops = m.pops /\ s.pubnonces = m.pubnonces
    BY <1>1, <2>2
  <2>3. ASSUME NEW x, \/ s = [m EXCEPT !.pops = x] \/ s = [m EXCEPT !.pubnonces = x]
                      \/ s = [m EXCEPT !.enc_secshares = x]
        PROVE  /\ s.coms_to_secrets = c /\ s.sum_coms_to_nonconst_terms = d
               /\ s.pops = m.pops \/ s.pubnonces = m.pubnonces
    BY <1>1, <2>3
  <2>4. ASSUME NEW k \in DOMAIN d, s = [m EXCEPT !.sum_coms_to_nonconst_terms[k] = Up(@)]
        PROVE  s = [m EXCEPT !.sum_coms_to_nonconst_terms = [d EXCEPT ![k] = Up(d[k])]]
    BY <2>4
  <2>5. ASSUME NEW j \in DOMAIN m.pops, s = [m EXCEPT !.coms_to_secrets[j] = Up(@)]
        PROVE  s = [m EXCEPT !.coms_to_secrets = [c EXCEPT ![j] = Up(c[j])]]
    BY <2>5
  <2>6. ASSUME NEW j \in DOMAIN m.pops, s = [m EXCEPT !.coms_to_secrets[j] = Identity]
        PROVE  s = [m EXCEPT !.coms_to_secrets = [c EXCEPT ![j] = Identity]]
    BY <2>6
  <2>7. /\ s = [m EXCEPT !.coms_to_secrets = Tail(c)]
              => s.coms_to_secrets = Tail(c) /\ s.sum_coms_to_nonconst_terms = d
                    /\ s.pops = m.pops /\ s.pubnonces = m.pubnonces
        /\ s = [m EXCEPT !.sum_coms_to_nonconst_terms = Append(d, Identity)]
              => s.coms_to_secrets = c /\ s.sum_coms_to_nonconst_terms = Append(d, Identity)
                    /\ s.pops = m.pops /\ s.pubnonces = m.pubnonces
    BY <2>1, <2>2
  <2>8. ASSUME NEW k \in DOMAIN d, s = [m EXCEPT !.sum_coms_to_nonconst_terms[k] = Up(@)]
        PROVE  s.coms_to_secrets = c
               /\ s.sum_coms_to_nonconst_terms = [d EXCEPT ![k] = Up(d[k])]
               /\ s.pops = m.pops /\ s.pubnonces = m.pubnonces
    <3>1. s = [m EXCEPT !.sum_coms_to_nonconst_terms = [d EXCEPT ![k] = Up(d[k])]]
      BY <2>4, <2>8
    <3> QED
      BY <2>2, <3>1, Zenon
  <2>9. ASSUME NEW j \in DOMAIN m.pops,
               \/ s = [m EXCEPT !.coms_to_secrets[j] = Identity]
               \/ s = [m EXCEPT !.coms_to_secrets[j] = Up(@)]
        PROVE  /\ \/ s.coms_to_secrets = [c EXCEPT ![j] = Identity]
                  \/ s.coms_to_secrets = [c EXCEPT ![j] = Up(c[j])]
               /\ s.sum_coms_to_nonconst_terms = d
    <3>1. \/ s = [m EXCEPT !.coms_to_secrets = [c EXCEPT ![j] = Identity]]
          \/ s = [m EXCEPT !.coms_to_secrets = [c EXCEPT ![j] = Up(c[j])]]
      BY <2>5, <2>6, <2>9
    <3> QED
      BY <2>1, <3>1, Zenon
  <2> QED
    <3>1. \/ s = [m EXCEPT !.coms_to_secrets = Tail(c)]
          \/ s = [m EXCEPT !.sum_coms_to_nonconst_terms = Append(d, Identity)]
          \/ \E k \in DOMAIN d : s = [m EXCEPT !.sum_coms_to_nonconst_terms[k] = Up(@)]
          \/ \E j \in DOMAIN m.pops : s = [m EXCEPT !.coms_to_secrets[j] = Identity]
          \/ \E j \in DOMAIN m.pops : s = [m EXCEPT !.coms_to_secrets[j] = Up(@)]
          \/ \E x : s = [m EXCEPT !.pops = x]
          \/ \E x : s = [m EXCEPT !.pubnonces = x]
          \/ \E x : s = [m EXCEPT !.enc_secshares = x]
      BY SpoiltCases
    <3> HIDE DEF c, d
    <3> QED
      BY <3>1, <2>3, <2>7, <2>8, <2>9, Zenon
<1>2. CASE m.pops = <<>> /\ m.pubnonces = <<>>
  <2>1. DOMAIN m.pops = {}
    BY <1>2
  <2>2. s.pops = <<>> \/ s.pubnonces = <<>>
    BY <1>0, <1>2, <2>1, Zenon
  <2> QED
    BY <2>2 DEF AggregatePoints, EmptyAggregate
<1>3. CASE TypedAggregate(m) /\ m.coms_to_secrets # <<>>
  <2>1. c \in Seq(Scalar) /\ c # <<>> /\ d \in Seq(Scalar)
    BY <1>3 DEF TypedAggregate
  <2>2. Identity \in Scalar
    BY ScalarIsInt DEF Identity
  <2>3. \/ s.coms_to_secrets = c
        \/ s.coms_to_secrets = Tail(c)
        \/ \E j : s.coms_to_secrets = [c EXCEPT ![j] = Identity]
        \/ \E j : s.coms_to_secrets = [c EXCEPT ![j] = Up(c[j])]
    BY <1>0, Zenon
  <2>4. \/ s.sum_coms_to_nonconst_terms = d
        \/ s.sum_coms_to_nonconst_terms = Append(d, Identity)
        \/ \E k \in DOMAIN d : s.sum_coms_to_nonconst_terms = [d EXCEPT ![k] = Up(d[k])]
    BY <1>0, Zenon
  <2> HIDE DEF c, d
  <2>5. \A q \in Seq(Scalar) : \A j : j \in DOMAIN q => Up(q[j]) \in Scalar
    BY UpIsScalar
  <2>6. s.coms_to_secrets \in Seq(Scalar)
    <3>1. \A j : [c EXCEPT ![j] = Identity] \in Seq(Scalar)
      BY <2>1, <2>2, ChangedMember
    <3>2. \A j : [c EXCEPT ![j] = Up(c[j])] \in Seq(Scalar)
      BY <2>1, <2>5, ChangedMember
    <3>3. Tail(c) \in Seq(Scalar)
      BY <2>1, TailOfPoints
    <3> QED
      BY <2>1, <2>3, <3>1, <3>2, <3>3, Zenon
  <2>7. s.sum_coms_to_nonconst_terms \in Seq(Scalar)
    <3>1. \A k : [d EXCEPT ![k] = Up(d[k])] \in Seq(Scalar)
      BY <2>1, <2>5, ChangedMember
    <3>2. Append(d, Identity) \in Seq(Scalar)
      BY <2>1, <2>2, AppendProperties
    <3> QED
      BY <2>1, <2>4, <3>1, <3>2, Zenon
  <2> QED
    BY <2>6, <2>7 DEF AggregatePoints, TypedAggregate
<1> QED
  BY <1>2, <1>3 DEF SoundAggregate

LEMMA MovedAggregates ==
    ASSUME NEW m, SoundAggregate(m), NEW i,
           NEW s \in {MovedSecret(m, i), MovedAndProven(m, i)}
    PROVE  AggregatePoints(s)
<1> DEFINE c == m.coms_to_secrets
<1>1. s.coms_to_secrets = [c EXCEPT ![i] = Up(c[i])]
  BY DEF SoundAggregate, MovedSecret, MovedAndProven
<1>2. s.pubnonces = m.pubnonces /\ s.sum_coms_to_nonconst_terms = m.sum_coms_to_nonconst_terms
  BY DEF SoundAggregate, MovedSecret, MovedAndProven
<1>3. CASE m.pops = <<>> /\ m.pubnonces = <<>>
  BY <1>2, <1>3 DEF AggregatePoints, EmptyAggregate
<1>4. CASE TypedAggregate(m)
  <2>1. c \in Seq(Scalar)
    BY <1>4 DEF TypedAggregate
  <2>2. i \in DOMAIN c => Up(c[i]) \in Scalar
    BY <2>1, UpIsScalar
  <2> HIDE DEF c
  <2>3. s.coms_to_secrets \in Seq(Scalar)
    BY <1>1, <2>1, <2>2, ChangedMember
  <2>4. TypedAggregate(s)
    BY <1>2, <1>4, <2>3 DEF TypedAggregate
  <2> QED
    BY <2>4 DEF AggregatePoints
<1> QED
  BY <1>3, <1>4 DEF SoundAggregate

LEMMA DeliverablePoints ==
    ASSUME PointsInv, NEW m \in DeliverableCmsg1 PROVE AggregatePoints(m)
<1>1. SentPoints /\ \A w \in cmsg1 : AggregatePoints(w)
  BY DEF PointsInv
<1>2. CASE m \in cmsg1
  BY <1>1, <1>2
<1>3. CASE m \in AggregatedMsg1
  BY <1>1, <1>3, AggregatedPoints DEF AggregatePoints, SoundAggregate, EmptyAggregate
<1>4. CASE \E w \in AggregatedMsg1 : \E i : m \in {MovedSecret(w, i), MovedAndProven(w, i)}
  BY <1>1, <1>4, AggregatedPoints, MovedAggregates
<1>5. CASE \E w \in AggregatedMsg1 : m \in SpoiltCmsg1(w)
  BY <1>1, <1>5, AggregatedPoints, SpoiltAggregates
<1> QED
  BY <1>2, <1>3, <1>4, <1>5 DEF DeliverableCmsg1, FaultyCmsg1

(***************************************************************************)
(* The commitment that step 2 signs has as many terms as the threshold.    *)
(***************************************************************************)
LEMMA Step1NextPoints ==
    ASSUME NEW st, st.host_pubkeys \in Seq(Scalar), st.t \in 1 .. Len(st.host_pubkeys),
           NEW msg, AggregatePoints(msg),
           NEW res, res = Step1Next(st, msg), res.ok
    PROVE  CommitmentPoints(res.out.transcript)
<1> DEFINE sum == SumCommitment(msg)
           transcript == Transcript(st.t, sum, st.host_pubkeys, msg.pubnonces,
                                    msg.enc_secshares)
           sig == CertEqSign(st.s, transcript, st.idx)
           n == Len(st.host_pubkeys)
           t == st.t
           c == msg.coms_to_secrets
           d == msg.sum_coms_to_nonconst_terms
<1>1. ValidateCoordinatorMsg1(st, msg).ok /\ sig.ok /\ res.out = sig.val
  BY ErrIsNotOk, Zenon DEF Step1Next, Advance
<1>2. /\ Len(msg.coms_to_secrets) = n /\ Len(msg.sum_coms_to_nonconst_terms) = t - 1
      /\ Len(msg.pops) = n /\ Len(msg.pubnonces) = n
  BY <1>1, ErrIsNotOk, Zenon DEF ValidateCoordinatorMsg1
<1>3. n \in Nat /\ t \in 1 .. n
  BY LenProperties
<1>4. TypedAggregate(msg)
  <2>1. msg.pops # <<>> /\ msg.pubnonces # <<>>
    BY <1>2, <1>3
  <2> QED
    BY <2>1 DEF AggregatePoints, EmptyAggregate
<1>5. sig.val = Sig(XOnly(MulG(st.s)), st.idx, transcript)
  BY <1>1, ErrIsNotOk, OkIsOk DEF CertEqSign
<1>6. transcript.t = st.t /\ transcript.sum_commitment = sum
  BY DEF Transcript
<1>7. c \in Seq(Scalar) /\ d \in Seq(Scalar) /\ Len(c) = n /\ Len(d) = t - 1
  BY <1>2, <1>4 DEF TypedAggregate
<1>8. SumMod(c) \in Scalar
  <2>1. c \in [1 .. n -> Int]
    BY <1>7, ScalarIsInt
  <2> HIDE DEF c, n
  <2> QED
    BY <1>3, <2>1, SumModType
<1>9. sum = <<SumMod(c)>> \o d
  BY DEF SumCommitment
<1>10. sum \in [1 .. t -> Scalar]
  <2> HIDE DEF c, d, sum, n, t
  <2>1. <<SumMod(c)>> \in Seq(Scalar) /\ Len(<<SumMod(c)>>) = 1
    BY <1>8
  <2>2. sum \in Seq(Scalar) /\ Len(sum) = t
    <3>1. Len(d) \in Nat /\ Len(d) = t - 1 /\ t \in Int
      BY <1>3, <1>7
    <3>2. Len(sum) = 1 + Len(d) /\ sum \in Seq(Scalar)
      BY <1>7, <1>9, <2>1, ConcatProperties
    <3> QED
      BY <3>1, <3>2
  <2> QED
    BY <2>2
<1>11. res.out.transcript = transcript
  <2> HIDE DEF transcript, sig
  <2> QED
    BY <1>1, <1>5 DEF Sig
<1> HIDE DEF transcript, sum, sig, c, d
<1>12. t \in Nat \ {0}
  BY <1>3
<1> QED
  BY <1>6, <1>10, <1>11, <1>12 DEF CommitmentPoints

-----------------------------------------------------------------------------
LEMMA PointsInvStep1 ==
    ASSUME TypeOK, PointsInv, NEW p \in Honest, ParticipantStep1(p)
    PROVE  PointsInv'
<1>1. PICK params \in ParamChoices[p], random \in Randoms :
         LET call == Transition(pst[p], "Initial", InitialNext(pst[p].st, params, random))
         IN  pmsg1' = [pmsg1 EXCEPT ![p] =
                          IF call.reply.ok THEN @ \cup {call.reply.val} ELSE @]
  BY DEF ParticipantStep1
<1> DEFINE st == pst[p].st
           res == InitialNext(st, params, random)
           call == Transition(pst[p], "Initial", res)
<1>2. /\ UNCHANGED <<cmsg1, pmsg2>>
      /\ pmsg1' = [pmsg1 EXCEPT ![p] = IF call.reply.ok THEN @ \cup {call.reply.val} ELSE @]
  BY <1>1 DEF ParticipantStep1, cvars
<1>3. ASSUME pst[p].phase = "Initial", res.ok
      PROVE  res.out.commitment \in Seq(Scalar) \ {<<>>}
  <2>1. st.s = HostSec[p]
    <3>1. ParticipantDriver(p, pst[p])
      BY OwnDriverTyped
    <3> QED
      BY <1>3, <3>1 DEF ParticipantDriver, NewParticipant, Driver
  <2>2. /\ p \in Parties /\ random \in Randoms \cup FakeRandoms /\ params \in Params
        /\ params \in CoordParams \cup UNION {ParamChoices[q] : q \in Honest}
    BY PartiesAssumption, ParamsAssumption
  <2> HIDE DEF st
  <2> QED
    BY <1>3, <2>1, <2>2, InitialNextPoints
<1>4. call = Transition(pst[p], "Initial", res)
  OBVIOUS
<1> HIDE DEF call, res
<1>5. call.reply.ok => pst[p].phase = "Initial" /\ res.ok /\ call.reply.val = res.out
  BY <1>4, TransitionCases
<1>6. SentPoints'
  BY <1>2, <1>3, <1>5 DEF PointsInv, SentPoints, TypeOK
<1> QED
  BY <1>2, <1>6 DEF PointsInv

LEMMA PointsInvStep2 ==
    ASSUME TypeOK, PointsInv, NEW p \in Honest, ParticipantStep2(p)
    PROVE  PointsInv'
<1>1. PICK msg \in DeliverableCmsg1 :
         LET call == Transition(pst[p], "Step1", Step1Next(pst[p].st, msg))
         IN  pmsg2' = [pmsg2 EXCEPT ![p] =
                          IF call.reply.ok THEN @ \cup {call.reply.val} ELSE @]
  BY DEF ParticipantStep2
<1> DEFINE st == pst[p].st
           res == Step1Next(st, msg)
           call == Transition(pst[p], "Step1", res)
<1>2. /\ UNCHANGED <<pmsg1, cmsg1>>
      /\ pmsg2' = [pmsg2 EXCEPT ![p] = IF call.reply.ok THEN @ \cup {call.reply.val} ELSE @]
  BY <1>1 DEF ParticipantStep2, cvars
<1>3. ASSUME pst[p].phase = "Step1", res.ok PROVE CommitmentPoints(res.out.transcript)
  <2>1. st.host_pubkeys \in Seq(Scalar) /\ st.t \in 1 .. Len(st.host_pubkeys)
    <3>1. ParticipantDriver(p, pst[p])
      BY OwnDriverTyped
    <3> QED
      BY <1>3, <3>1 DEF ParticipantDriver, NewParticipant, Driver
  <2>2. AggregatePoints(msg)
    BY DeliverablePoints
  <2> HIDE DEF st
  <2> QED
    BY <1>3, <2>1, <2>2, Step1NextPoints
<1>4. call = Transition(pst[p], "Step1", res)
  OBVIOUS
<1> HIDE DEF call, res
<1>5. call.reply.ok => pst[p].phase = "Step1" /\ res.ok /\ call.reply.val = res.out
  BY <1>4, TransitionCases
<1>6. \A q \in Honest : \A sig \in pmsg2'[q] : CommitmentPoints(sig.transcript)
  BY <1>2, <1>3, <1>5 DEF PointsInv, TypeOK
<1> QED
  BY <1>2, <1>6 DEF PointsInv, SentPoints

LEMMA PointsInvCoordinator ==
    ASSUME TypeOK, PointsInv, CoordinatorStep1 PROVE PointsInv'
<1>0. \E order \in Orders : \E msgs \in Collected(order, Msg1From) :
         LET call == Transition(cst, "Initial", CoordinatorInitialNext(cst.st, msgs))
         IN  cmsg1' = IF call.reply.ok THEN cmsg1 \cup {call.reply.val} ELSE cmsg1
  BY DEF CoordinatorStep1
<1>1. PICK order \in Orders :
         \E msgs \in Collected(order, Msg1From) :
            LET call == Transition(cst, "Initial", CoordinatorInitialNext(cst.st, msgs))
            IN  cmsg1' = IF call.reply.ok THEN cmsg1 \cup {call.reply.val} ELSE cmsg1
  BY <1>0
<1>2. PICK msgs \in Collected(order, Msg1From) :
         LET call == Transition(cst, "Initial", CoordinatorInitialNext(cst.st, msgs))
         IN  cmsg1' = IF call.reply.ok THEN cmsg1 \cup {call.reply.val} ELSE cmsg1
  BY <1>1
<1> DEFINE st == cst.st
           res == CoordinatorInitialNext(st, msgs)
           call == Transition(cst, "Initial", res)
           n == Len(st.host_pubkeys)
<1>3. /\ UNCHANGED <<pmsg1, pmsg2>>
      /\ cmsg1' = IF call.reply.ok THEN cmsg1 \cup {call.reply.val} ELSE cmsg1
  BY <1>2 DEF CoordinatorStep1, pvars
<1>4. ASSUME cst.phase = "Initial", res.ok PROVE AggregatePoints(res.out)
  <2>1. st.host_pubkeys \in Seq(Scalar) /\ st.t \in 1 .. Len(st.host_pubkeys)
    BY <1>4 DEF TypeOK, CoordinatorDriver, Absent, Driver
  <2>2. n \in Nat /\ st.t \in Nat /\ st.t >= 1
    BY <2>1, LenProperties
  <2>3. order \in Seq(Parties)
    BY OrdersAssumption
  <2>4. DOMAIN msgs = DOMAIN order /\ \A i \in DOMAIN order : msgs[i] \in Msg1From[order[i]]
    BY Zenon DEF Collected
  <2>5. DOMAIN order = 1 .. Len(order) /\ Len(msgs) = Len(order)
    BY <2>3, <2>4, LenProperties
  <2>6. ASSUME Len(msgs) = n, NEW i \in 1 .. n PROVE msgs[i].commitment \in Seq(Scalar)
    <3>1. i \in DOMAIN order
      BY <2>5, <2>6
    <3>2. order[i] \in Parties /\ msgs[i] \in Msg1From[order[i]]
      BY <2>3, <2>4, <3>1
    <3> QED
      BY <3>2, Msg1Points DEF PointsInv
  <2> HIDE DEF st
  <2>7. \/ TypedAggregate(res.out) /\ res.out.coms_to_secrets # <<>>
        \/ res.out.pops = <<>> /\ res.out.pubnonces = <<>>
    BY <1>4, <2>2, <2>6, AggregatesArePoints
  <2> QED
    BY <2>7 DEF AggregatePoints, EmptyAggregate
<1>5. call = Transition(cst, "Initial", res)
  OBVIOUS
<1> HIDE DEF call, res
<1>6. call.reply.ok => cst.phase = "Initial" /\ res.ok /\ call.reply.val = res.out
  BY <1>5, TransitionCases
<1>7. \A m \in cmsg1' : AggregatePoints(m)
  BY <1>3, <1>4, <1>6 DEF PointsInv
<1> QED
  BY <1>3, <1>7 DEF PointsInv, SentPoints

LEMMA PointsInvStep == TypeOK /\ PointsInv /\ [Next]_vars => PointsInv'
<1> SUFFICES ASSUME TypeOK, PointsInv, [Next]_vars PROVE PointsInv'
  OBVIOUS
<1>1. ASSUME UNCHANGED <<pmsg1, cmsg1, pmsg2>> PROVE PointsInv'
  BY <1>1 DEF PointsInv, SentPoints
<1>2. CASE UNCHANGED vars
  BY <1>1, <1>2 DEF vars
<1>3. ASSUME NEW p \in Honest,
             \/ ParticipantFinalize(p) \/ ParticipantRecover(p)
             \/ ParticipantClone(p) \/ ParticipantRestart(p)
      PROVE  PointsInv'
  BY <1>1, <1>3 DEF ParticipantFinalize, ParticipantRecover, ParticipantClone,
                    ParticipantRestart, cvars
<1>4. CASE CoordinatorCreate \/ CoordinatorStep2 \/ CoordinatorRecovers
  BY <1>1, <1>4 DEF CoordinatorCreate, CoordinatorStep2, CoordinatorRecovers, pvars
<1> QED
  BY <1>2, <1>3, <1>4, PointsInvStep1, PointsInvStep2, PointsInvCoordinator
     DEF Next, Progress, ParticipantCall, CoordinatorCall

-----------------------------------------------------------------------------
(***************************************************************************)
(* The members of a finite set, listed.                                    *)
(***************************************************************************)
LEMMA ListedOnce ==
    ASSUME NEW S, IsFiniteSet(S), NEW t, t = Cardinality(S)
    PROVE  /\ SetToSeq(S) \in [1 .. t -> S]
           /\ \A j, k \in 1 .. t : SetToSeq(S)[j] = SetToSeq(S)[k] => j = k
<1>1. PICK f : f \in Bijection(1 .. Cardinality(S), S)
  BY FS_CardinalityType DEF ExistsBijection
<1>2. f \in [1 .. Cardinality(S) -> S] /\ IsInjective(f)
  BY <1>1 DEF Bijection, Injection
<1>3. SetToSeq(S) \in [1 .. Cardinality(S) -> S] /\ IsInjective(SetToSeq(S))
  BY <1>2, Zenon DEF SetToSeq
<1> QED
  BY <1>3 DEF IsInjective

(***************************************************************************)
(* Valid parameters have distinct keys other than the identity, and so     *)
(* fewer of them than there are scalars.                                   *)
(***************************************************************************)
LEMMA ValidKeys ==
    ASSUME NEW keys \in Seq(Scalar), NEW t, ValidatePublicSessionParams(keys, t).ok
    PROVE  /\ 1 <= t /\ t <= Len(keys) /\ Len(keys) < Order
           /\ \A i \in 1 .. Len(keys) : keys[i] # Identity
           /\ \A i, j \in 1 .. Len(keys) : keys[i] = keys[j] => i = j
<1> DEFINE n == Len(keys)
           repeat(i) == {j \in (i + 1) .. n : keys[i] = keys[j]}
           bad == {i \in 1 .. n : keys[i] = Identity \/ repeat(i) # {}}
           nonzero == 1 .. (Order - 1)
<1>1. 1 <= t /\ t <= n /\ bad = {}
  BY ErrIsNotOk, Zenon DEF ValidatePublicSessionParams
<1>2. n \in Nat /\ DOMAIN keys = 1 .. n /\ \A i \in 1 .. n : keys[i] \in Scalar
  BY LenProperties, ElementOfSeq
<1>3. ASSUME NEW i \in 1 .. n PROVE keys[i] # Identity
  BY <1>1, <1>3
<1>4. ASSUME NEW i \in 1 .. n, NEW j \in 1 .. n, i < j PROVE keys[i] # keys[j]
  <2>1. j \in (i + 1) .. n
    BY <1>2, <1>4
  <2> QED
    BY <1>1, <1>4, <2>1
<1> HIDE DEF n, bad
<1>5. keys \in [1 .. n -> nonzero]
  <2>1. \A x \in Scalar : x # Identity => x \in nonzero
    BY OrderAssumption DEF Scalar, Identity
  <2>2. keys \in [DOMAIN keys -> Scalar]
    BY LenProperties
  <2> QED
    BY <1>2, <1>3, <2>1, <2>2
<1>6. \A i, j \in 1 .. n : keys[i] = keys[j] => i = j
  BY <1>2, <1>4
<1>7. keys \in Injection(1 .. n, nonzero)
  BY <1>5, <1>6 DEF Injection, IsInjective
<1>8. IsFiniteSet(nonzero) /\ Cardinality(nonzero) = Order - 1
  <2>1. 1 \in Int /\ Order - 1 \in Int
        /\ (IF 1 > Order - 1 THEN 0 ELSE (Order - 1) - 1 + 1) = Order - 1
    BY OrderAssumption
  <2> QED
    BY <2>1, FS_Interval
<1>9. IsFiniteSet(1 .. n) /\ Cardinality(1 .. n) = n
  <2>1. 1 \in Int /\ n \in Int /\ (IF 1 > n THEN 0 ELSE n - 1 + 1) = n
    BY <1>2
  <2> QED
    BY <2>1, FS_Interval
<1>10. Cardinality(1 .. n) <= Cardinality(nonzero)
  BY <1>7, <1>8, FS_Injection
<1>11. n <= Order - 1
  BY <1>8, <1>9, <1>10
<1> QED
  BY <1>1, <1>2, <1>3, <1>6, <1>11, OrderAssumption DEF n

LEMMA PositionOf ==
    ASSUME NEW s, NEW T, T.host_pubkeys \in Seq(Scalar), PositionIn(s, T).ok
    PROVE  /\ PositionIn(s, T).val \in 1 .. Len(T.host_pubkeys)
           /\ T.host_pubkeys[PositionIn(s, T).val] = MulG(s)
<1> DEFINE keys == T.host_pubkeys
           mine == {i \in 1 .. Len(keys) : keys[i] = MulG(s)}
<1>1. mine # {}
  BY ErrIsNotOk DEF PositionIn, ValidateSessionParams
<1>2. PositionIn(s, T).val = Min(mine)
  BY <1>1, OkIsOk, ErrIsNotOk DEF PositionIn, ValidateSessionParams
<1>3. Min(mine) \in mine
  <2>1. mine \subseteq Nat
    OBVIOUS
  <2> QED
    BY <1>1, <2>1, MinIsMember
<1> QED
  BY <1>2, <1>3

(***************************************************************************)
(* The tweaked commitment is a commitment, to a usable key.                *)
(***************************************************************************)
LEMMA TweakedPoints ==
    ASSUME NEW T, CommitmentPoints(T), TweakOf(T).ok
    PROVE  TweakedOf(T) \in [1 .. T.t -> Scalar] /\ TweakedOf(T)[1] # Identity
<1> DEFINE c == T.sum_commitment
           p == c[1]
           w == TapHash(XOnly(p))
<1>1. T.t \in Nat \ {0} /\ c \in [1 .. T.t -> Scalar]
  BY DEF CommitmentPoints
<1>2. 1 \in 1 .. T.t /\ p \in Scalar
  BY <1>1
<1>3. p # Identity /\ TweakOf(T).val = w
  BY ErrIsNotOk, OkIsOk DEF TweakOf, TapTweakNoScript
<1> HIDE DEF c, p
<1>4. XOnly(p) \in Scalar
  BY <1>2, OrderAssumption, ScalarIsInt, ModType DEF XOnly, EvenYPoint, Neg
<1>5. w \in Scalar
  BY <1>4, TapHashAssumption
<1> HIDE DEF w
<1>6. MulG(w) = w
  BY <1>5, ModOfScalar DEF MulG
<1>7. (p + w) % Order # Identity
  BY <1>2, <1>3, TweakedKeyAssumption DEF w
<1>8. (p + w) % Order \in Scalar
  BY <1>2, <1>5, ScalarIsInt, ModType
<1>9. TweakedOf(T) = [c EXCEPT ![1] = (p + w) % Order]
  BY <1>3, <1>6 DEF TweakedOf, TweakCommitment, c, p
<1> QED
  BY <1>1, <1>2, <1>7, <1>8, <1>9

-----------------------------------------------------------------------------
(***************************************************************************)
(* A holder of an output is a member of its transcript, and its share is   *)
(* the secret of its public share.                                         *)
(***************************************************************************)
LEMMA HoldersShare ==
    ASSUME CertificateInv, RecoveryInv, NEW T, NEW p \in HoldersOf(T)
    PROVE  /\ T.host_pubkeys \in Seq(Scalar)
           /\ p \in HonestMembers(T)
           /\ OutputOf(p, T).idx \in 1 .. Len(T.host_pubkeys)
           /\ T.host_pubkeys[OutputOf(p, T).idx] = HostKey(p)
           /\ MulG(OutputOf(p, T).secshare) = EvalPubShare(TweakedOf(T), OutputOf(p, T).idx)
<1> DEFINE o == CHOOSE o \in output[p] : o.recovery.transcript = T
           i == PositionIn(HostSec[p], T).val
<1>1. p \in Honest /\ o \in output[p] /\ o.recovery.transcript = T
  BY DEF HoldersOf
<1>2. OutputOf(p, T) = o.output
  BY DEF OutputOf
<1> HIDE DEF o
<1>3. o \in Held
  BY <1>1 DEF Held
<1>4. T.host_pubkeys \in Seq(Scalar)
  BY <1>1, <1>3 DEF CertificateInv, Certified
<1>5. Rebuilds(HostSec[p], T) /\ o.output = Rebuilt(HostSec[p], T)
  BY <1>1 DEF RecoveryInv, OutputsRebuild, HeldOutput
<1>6. OutputOf(p, T).idx = i /\ OutputOf(p, T).secshare = SecshareFor(HostSec[p], T)
  BY <1>2, <1>5 DEF Rebuilt
<1>7. i \in 1 .. Len(T.host_pubkeys) /\ T.host_pubkeys[i] = HostKey(p)
  BY <1>4, <1>5, PositionOf DEF Rebuilds, HostKey
<1>8. MulG(SecshareFor(HostSec[p], T)) = PubsharesOf(T)[i]
  BY <1>5 DEF Rebuilds
<1> HIDE DEF i
<1>9. PubsharesOf(T)[i] = EvalPubShare(TweakedOf(T), i)
  BY <1>7 DEF PubsharesOf
<1>10. p \in HonestMembers(T)
  <2>1. DOMAIN T.host_pubkeys = 1 .. Len(T.host_pubkeys)
    BY <1>4, LenProperties
  <2> QED
    BY <1>1, <1>7, <2>1 DEF HonestMembers, Range
<1> QED
  BY <1>4, <1>6, <1>7, <1>8, <1>9, <1>10

(***************************************************************************)
(* Different holders stand at different positions.                         *)
(***************************************************************************)
LEMMA HoldersApart ==
    ASSUME CertificateInv, RecoveryInv, NEW T, NEW p \in HoldersOf(T), NEW q \in HoldersOf(T),
           OutputOf(p, T).idx = OutputOf(q, T).idx
    PROVE  p = q
<1>1. HostKey(p) = HostKey(q)
  BY HoldersShare
<1>2. p \in Parties /\ q \in Parties
  BY HoldersShare, PartiesAssumption DEF HonestMembers
<1> QED
  BY <1>1, <1>2, DistinctKeysAssumption

LEMMA GroupFinite ==
    ASSUME CertificateInv, RecoveryInv, NEW T, NEW group \in SUBSET HoldersOf(T)
    PROVE  IsFiniteSet(group)
<1> DEFINE n == Len(T.host_pubkeys)
           f == [p \in group |-> OutputOf(p, T).idx]
<1>1. CASE group = {}
  BY <1>1, FS_EmptySet
<1>2. CASE group # {}
  <2>1. n \in Nat
    BY <1>2, HoldersShare, LenProperties
  <2>2. f \in Injection(group, 1 .. n)
    BY HoldersShare, HoldersApart DEF Injection, IsInjective
  <2>3. IsFiniteSet(1 .. n)
    BY <2>1, FS_Interval
  <2> QED
    BY <2>2, <2>3, FS_Injection
<1> QED
  BY <1>1, <1>2

LEMMA GroupInterpolates ==
    ASSUME CertificateInv, RecoveryInv, PointsInv, NEW T, RebuildsPublic(T),
           NEW group \in SUBSET HoldersOf(T), Cardinality(group) = T.t,
           NEW members, members = SetToSeq(group),
           NEW ids, ids = [k \in DOMAIN members |-> OutputOf(members[k], T).idx],
           NEW shares, shares = [k \in DOMAIN members |-> MulG(OutputOf(members[k], T).secshare)]
    PROVE  InterpolatePubkey(ids, shares) = Ok(TweakedOf(T)[1])
<1> DEFINE n == Len(T.host_pubkeys)
           t == T.t
           c == TweakedOf(T)
<1>1. IsFiniteSet(group)
  BY GroupFinite
<1>2. ValidatePublicSessionParams(T.host_pubkeys, T.t).ok /\ TweakOf(T).ok
  BY DEF RebuildsPublic
<1>3. group # {}
  <2> SUFFICES ASSUME group = {} PROVE FALSE
    OBVIOUS
  <2>1. T.t = 0
    BY FS_EmptySet
  <2>2. 1 <= T.t
    BY <1>2, ErrIsNotOk, Zenon DEF ValidatePublicSessionParams
  <2> QED
    BY <2>1, <2>2
<1>4. T.host_pubkeys \in Seq(Scalar) /\ CommitmentPoints(T)
  <2>1. PICK p \in group : TRUE
    BY <1>3
  <2>2. T.host_pubkeys \in Seq(Scalar) /\ p \in HonestMembers(T)
    BY HoldersShare
  <2>3. \E o \in Held : o.recovery.transcript = T
    BY <2>1 DEF HoldersOf, Held
  <2>4. HasSigned(p, T)
    BY <2>2, <2>3, HeldIsCertifiedByAll DEF CertifiedByAll
  <2> QED
    BY <2>2, <2>4 DEF HasSigned, PointsInv, HonestMembers
<1>5. n \in Nat /\ n < Order /\ t \in Nat /\ 1 <= t
  BY <1>2, <1>4, ValidKeys, LenProperties DEF CommitmentPoints
<1>6. c \in [1 .. t -> Scalar] /\ c[1] # Identity
  BY <1>2, <1>4, TweakedPoints
<1>7. /\ members \in [1 .. t -> group]
      /\ \A j, k \in 1 .. t : members[j] = members[k] => j = k
  BY <1>1, ListedOnce
<1> HIDE DEF n, t, c
<1>8. ASSUME NEW k \in 1 .. t
      PROVE  /\ members[k] \in HoldersOf(T)
             /\ ids[k] = OutputOf(members[k], T).idx
             /\ ids[k] \in 1 .. n
             /\ shares[k] = EvalPubShare(c, ids[k])
             /\ shares[k] \in Int
  <2>1. members[k] \in HoldersOf(T) /\ k \in DOMAIN members
    BY <1>7
  <2>2. /\ ids[k] = OutputOf(members[k], T).idx
        /\ shares[k] = MulG(OutputOf(members[k], T).secshare)
    BY <2>1
  <2>3. ids[k] \in 1 .. n /\ shares[k] = EvalPubShare(c, ids[k])
    BY <2>1, <2>2, HoldersShare DEF n, c
  <2>4. EvalPubShare(c, ids[k]) \in Scalar
    <3>1. c \in [1 .. t -> Int]
      BY <1>6, ScalarIsInt
    <3>2. ids[k] \in Int
      BY <1>5, <2>3
    <3> QED
      BY <1>5, <3>1, <3>2, EvalPubShareType
  <2> QED
    BY <2>1, <2>2, <2>3, <2>4, ScalarIsInt
<1>9. ids \in [1 .. t -> 1 .. n] /\ shares \in [1 .. t -> Int]
  <2>1. DOMAIN members = 1 .. t
    BY <1>7
  <2>2. DOMAIN ids = 1 .. t /\ DOMAIN shares = 1 .. t
    BY <2>1
  <2>3. ids = [k \in 1 .. t |-> ids[k]] /\ shares = [k \in 1 .. t |-> shares[k]]
    BY <2>1
  <2> QED
    BY <1>8, <2>3
<1>10. ASSUME NEW j \in 1 .. t, NEW k \in 1 .. t, ids[j] = ids[k] PROVE j = k
  <2>1. members[j] = members[k]
    <3>1. \A p, q \in HoldersOf(T) : OutputOf(p, T).idx = OutputOf(q, T).idx => p = q
      BY HoldersApart
    <3>2. /\ members[j] \in HoldersOf(T) /\ ids[j] = OutputOf(members[j], T).idx
          /\ members[k] \in HoldersOf(T) /\ ids[k] = OutputOf(members[k], T).idx
      BY <1>8
    <3> QED
      BY <1>10, <3>1, <3>2, Zenon
  <2> QED
    BY <1>7, <2>1
<1>11. InterpolatePubkey(ids, shares) = Ok(c[1])
  <2>1. \A j, k \in 1 .. t : ids[j] = ids[k] => j = k
    BY <1>10
  <2>2. \A k \in 1 .. t : shares[k] = EvalPubShare(c, ids[k])
    BY <1>8
  <2> QED
    <3>1. Sharing(n, t, ids, c, shares)
      BY <1>5, <1>6, <1>9, <2>1, <2>2, Zenon DEF Sharing
    <3> QED
      BY <3>1, SharesInterpolate
<1> QED
  BY <1>11 DEF c

LEMMA HoldersUseTheKey ==
    CertificateInv /\ OutputInv /\ RecoveryInv /\ PointsInv => KeyUsable
<1> SUFFICES ASSUME CertificateInv, OutputInv, RecoveryInv, PointsInv, NEW o \in Held,
                    NEW group \in kSubset(o.output.t, HoldersOf(o.recovery.transcript))
             PROVE  LET T       == o.recovery.transcript
                        members == SetToSeq(group)
                        ids     == [k \in DOMAIN members |-> OutputOf(members[k], T).idx]
                        shares  == [k \in DOMAIN members |->
                                       MulG(OutputOf(members[k], T).secshare)]
                    IN  InterpolatePubkey(ids, shares) = Ok(o.output.threshold_pubkey)
  BY Zenon DEF KeyUsable
<1> DEFINE T       == o.recovery.transcript
           members == SetToSeq(group)
           ids     == [k \in DOMAIN members |-> OutputOf(members[k], T).idx]
           shares  == [k \in DOMAIN members |-> MulG(OutputOf(members[k], T).secshare)]
<1>1. o.output.t = T.t /\ o.output.threshold_pubkey = TweakedOf(T)[1]
  BY Zenon DEF OutputInv, OutputsPublished, Publishes, TweakedOf, TweakOf
<1>2. group \in SUBSET HoldersOf(T) /\ Cardinality(group) = T.t
  BY <1>1 DEF kSubset
<1>3. RebuildsPublic(T)
  <2>1. CASE o \in coutput
    BY <2>1 DEF RecoveryInv, CoordinatorRebuilds
  <2>2. ASSUME NEW p \in Honest, o \in output[p] PROVE RebuildsPublic(T)
    <3>1. Rebuilds(HostSec[p], T)
      BY <2>2 DEF RecoveryInv, OutputsRebuild, HeldOutput
    <3> QED
      BY <3>1, RebuildsForAll
  <2> QED
    BY <2>1, <2>2 DEF Held
<1>4. InterpolatePubkey(ids, shares) = Ok(TweakedOf(T)[1])
  BY <1>2, <1>3, GroupInterpolates
<1> QED
  BY <1>1, <1>4

(***************************************************************************)
(* The key is usable: the secret shares of any t holders of an output of   *)
(* one transcript interpolate (lagrange.rs, at zero) to the secret of its  *)
(* threshold public key, whatever the other parties and the coordinator    *)
(* sent.  Each holder has checked its share against the commitment that    *)
(* all of them signed; the shares of t positions determine its constant    *)
(* term.                                                                   *)
(***************************************************************************)
THEOREM KeyIsUsable == Spec => []KeyUsable
<1>1. Init => TypeOK /\ CertificateInv /\ OutputInv /\ RecoveryInv /\ PointsInv
  BY TypeOKInit, CertificateInvInit, OutputInvInit, RecoveryInvInit, PointsInvInit
<1>2. TypeOK /\ CertificateInv /\ OutputInv /\ RecoveryInv /\ PointsInv /\ [Next]_vars
         => (TypeOK /\ CertificateInv /\ OutputInv /\ RecoveryInv /\ PointsInv)'
  BY TypeOKStep, CertificateInvStep, OutputInvStep, RecoveryInvStep, PointsInvStep
<1>3. CertificateInv /\ OutputInv /\ RecoveryInv /\ PointsInv => KeyUsable
  BY HoldersUseTheKey
<1> QED
  BY <1>1, <1>2, <1>3, PTL DEF Spec

-----------------------------------------------------------------------------
(* Contributions *)

(***************************************************************************)
(* The invariant.  A driver in its first step remembers a first message of *)
(* its party; an aggregate holds, place by place, nonce and proof of a     *)
(* message that somebody sent, and proofs that somebody made; and the two  *)
(* properties hold of what is signed.                                      *)
(***************************************************************************)
Began(st, m) ==
    /\ st.pubnonce = m.pubnonce
    /\ st.com_to_secret = m.commitment[1]
    /\ m.pop = Pop(XOnly(m.commitment[1]), st.idx)

BeganWith(d, sent) == d.phase = "Step1" => \E m \in sent : Began(d.st, m)

DriversBegan ==
    \A p \in Honest : \A d \in {pst[p]} \cup copies[p] : BeganWith(d, pmsg1[p])

Gathered(m) ==
    \A i \in DOMAIN m.pops : \E q \in Parties : \E w \in Msg1From[q] :
        w.pubnonce = m.pubnonces[i] /\ w.pop = m.pops[i]

SentProofs(pops) == pops \in Seq(ProofsMade \cup {NoPop})

SignedContributions == \A p \in Honest : \A sig \in pmsg2[p] : Contributed(p, sig.transcript)

ContributionInv ==
    /\ DriversBegan
    /\ \A m \in cmsg1 : SentProofs(m.pops) /\ Gathered(m)
    /\ SignedContributions
    /\ SignedInPlace

LEMMA ContributionInvInit == Init => ContributionInv
BY DEF Init, ContributionInv, DriversBegan, BeganWith, SignedContributions, SignedInPlace,
       NewParticipant, Driver

(***************************************************************************)
(* The proofs in the first messages.                                       *)
(***************************************************************************)
LEMMA InitialNextBegins ==
    ASSUME NEW st, NEW params \in Params, NEW random,
           NEW res, res = InitialNext(st, params, random), res.ok
    PROVE  Began(res.st, res.out) /\ "pop" \in DOMAIN res.out
<1> DEFINE idx == ValidateSessionParams(st.s, params.host_pubkeys, params.t).val
           context == EncContext(params.t, params.host_pubkeys)
           seed == Seed(st.s, random, context)
           r == NonceHash(seed)
           coeffs == Coefficients(seed, params.t)
           commitment == Commit(coeffs)
           pop == PopSign(coeffs[1], idx)
           enc_shares == Encrypt(r, st.s, params.host_pubkeys, context, idx,
                                 EvalShares(coeffs, Len(params.host_pubkeys)))
           next == [idx |-> idx, t |-> params.t, s |-> st.s,
                    host_pubkeys |-> params.host_pubkeys,
                    pubnonce |-> MulG(r), com_to_secret |-> commitment[1]]
           out == [commitment |-> commitment, pop |-> pop.val, pubnonce |-> MulG(r),
                   enc_shares |-> enc_shares]
<1>1. res.out = out /\ res.st = next /\ pop.ok
  BY ErrIsNotOk, Zenon DEF InitialNext, Advance
<1>2. params.t \in Nat /\ params.t >= 1
  <2>1. params \in [host_pubkeys : Seq(Scalar), t : Nat]
    BY DEF Params
  <2> HIDE DEF idx, pop, commitment, enc_shares, coeffs, r, next, out, seed, context
  <2>2. res.st.t \in 1 .. Len(params.host_pubkeys)
    BY <2>1, InitialNextOk
  <2>3. res.st.t = params.t
    BY InitialNextKeeps
  <2> QED
    BY <2>1, <2>2, <2>3
<1>3. commitment[1] = MulG(coeffs[1])
  BY <1>2 DEF Commit, Coefficients
<1>4. pop.val = Pop(XOnly(MulG(coeffs[1])), idx)
  BY <1>1, ErrIsNotOk, OkIsOk DEF PopSign
<1> HIDE DEF idx, pop, commitment, enc_shares, coeffs, r
<1>5. /\ res.out.pubnonce = MulG(r) /\ res.out.commitment = commitment
      /\ res.out.pop = pop.val /\ "pop" \in DOMAIN res.out
      /\ res.st.pubnonce = MulG(r) /\ res.st.com_to_secret = commitment[1]
      /\ res.st.idx = idx
  BY <1>1
<1> QED
  BY <1>3, <1>4, <1>5 DEF Began

LEMMA ProofIsMade ==
    ASSUME NEW q \in Parties, NEW m \in ProtocolMsg1[q]
    PROVE  /\ m.pop \in ProofsMade
           /\ \A i \in Faulty : Pop(XOnly(Up(m.commitment[1])), i) \in ProofsMade
BY DEF ProofsMade

LEMMA WellFormedHasProof ==
    ASSUME NEW q \in Parties, NEW m \in WellFormedMsg1[q]
    PROVE  "pop" \in DOMAIN m
<1>1. PICK params \in CoordParams, random \in Randoms \cup FakeRandoms :
         /\ InitialNext([s |-> HostSec[q]], params, random).ok
         /\ m = InitialNext([s |-> HostSec[q]], params, random).out
  BY DEF WellFormedMsg1
<1>2. params \in Params
  BY ParamsAssumption
<1> QED
  BY <1>1, <1>2, InitialNextBegins

LEMMA Msg1Proofs ==
    ASSUME NEW q \in Parties, NEW m \in Msg1From[q]
    PROVE  m.pop \in ProofsMade \cup {NoPop}
<1>1. CASE q \in Honest
  BY <1>1, ProofIsMade DEF Msg1From, ProtocolMsg1
<1>2. ASSUME NEW w \in WellFormedMsg1[q] PROVE w.pop \in ProofsMade /\ "pop" \in DOMAIN w
  BY <1>2, ProofIsMade, WellFormedHasProof DEF ProtocolMsg1
<1>3. CASE q \notin Honest
  <2>1. m \in WellFormedMsg1[q] \/ \E w \in WellFormedMsg1[q] : m \in SpoiltMsg1(w)
    BY <1>3 DEF Msg1From, FaultyMsg1, Faulty
  <2>2. ASSUME NEW w \in WellFormedMsg1[q], m \in SpoiltMsg1(w)
        PROVE  m.pop = w.pop \/ m.pop = NoPop
    <3>1. "pop" \in DOMAIN w
      BY <1>2
    <3> QED
      BY <2>2, <3>1 DEF SpoiltMsg1
  <2> QED
    BY <1>2, <2>1, <2>2
<1> QED
  BY <1>1, <1>3

(***************************************************************************)
(* What was sent stays sent.                                               *)
(***************************************************************************)
LEMMA MadeWithMore ==
    ASSUME NEW T, NEW m, NEW i, NEW less, NEW more, less \subseteq more,
           MadeWith(T, m, i, less)
    PROVE  MadeWith(T, m, i, more)
<1> DEFINE proven(proofs) == {c \in Scalar : XOnly(c) \in {pop.key : pop \in proofs}}
<1>1. PICK coms \in [DOMAIN T.host_pubkeys -> proven(less)] :
         /\ coms[i] = m.commitment[1]
         /\ T.sum_commitment[1] = SumMod(coms)
         /\ \A j \in DOMAIN coms : Pop(XOnly(coms[j]), j) \in less
  BY DEF MadeWith
<1>2. proven(less) \subseteq proven(more)
  OBVIOUS
<1>3. T.pubnonces[i] = m.pubnonce
  BY DEF MadeWith
<1> HIDE DEF proven
<1>4. coms \in [DOMAIN T.host_pubkeys -> proven(more)]
  BY <1>2
<1>5. \A j \in DOMAIN coms : Pop(XOnly(coms[j]), j) \in more
  BY <1>1
<1> QED
  BY <1>1, <1>3, <1>4, <1>5, Zenon DEF MadeWith, proven

LEMMA ProofsStay ==
    ASSUME \A q \in Honest : pmsg1[q] \subseteq pmsg1'[q]
    PROVE  /\ ProofsMade \subseteq ProofsMade'
           /\ \A pops : SentProofs(pops) => SentProofs(pops)'
<1>1. ASSUME NEW q \in Parties, NEW m \in ProtocolMsg1[q] PROVE m \in (ProtocolMsg1[q])'
  BY <1>1 DEF ProtocolMsg1
<1>2. ProofsMade \subseteq ProofsMade'
  <2> SUFFICES ASSUME NEW x \in ProofsMade PROVE x \in ProofsMade'
    OBVIOUS
  <2>0. PICK q \in Parties : \E m \in ProtocolMsg1[q] :
           x = m.pop \/ \E i \in Faulty : x = Pop(XOnly(Up(m.commitment[1])), i)
    BY DEF ProofsMade
  <2>1. PICK m \in ProtocolMsg1[q] :
           x = m.pop \/ \E i \in Faulty : x = Pop(XOnly(Up(m.commitment[1])), i)
    BY <2>0
  <2>2. m \in (ProtocolMsg1[q])'
    BY <1>1
  <2>3. m \in UNION {(ProtocolMsg1[r])' : r \in Parties}
    BY <2>2
  <2> QED
    BY <2>1, <2>3 DEF ProofsMade
<1> QED
  BY <1>2 DEF SentProofs

LEMMA ContributionStays ==
    ASSUME \A q \in Honest : pmsg1[q] \subseteq pmsg1'[q],
           NEW p \in Honest, NEW T, Contributed(p, T)
    PROVE  Contributed(p, T)'
<1>1. PICK i \in DOMAIN T.host_pubkeys, m \in pmsg1[p] :
         T.host_pubkeys[i] = HostKey(p) /\ MadeWith(T, m, i, ProofsMade)
  BY DEF Contributed
<1>2. MadeWith(T, m, i, ProofsMade')
  BY <1>1, MadeWithMore, ProofsStay
<1>3. m \in pmsg1'[p]
  OBVIOUS
<1> QED
  BY <1>1, <1>2, <1>3 DEF Contributed

LEMMA SentMsg1Stays ==
    ASSUME \A q \in Honest : pmsg1[q] \subseteq pmsg1'[q]
    PROVE  \A q \in Parties : Msg1From[q] \subseteq (Msg1From[q])'
BY DEF Msg1From

(***************************************************************************)
(* In a list of messages each has come from the party in its place.        *)
(***************************************************************************)
LEMMA CollectedParts ==
    ASSUME NEW order \in Orders, NEW from, NEW ms \in Collected(order, from)
    PROVE  /\ Len(ms) \in Nat /\ DOMAIN order = 1 .. Len(ms)
           /\ \A i \in 1 .. Len(ms) : order[i] \in Parties /\ ms[i] \in from[order[i]]
<1>1. order \in Seq(Parties)
  BY OrdersAssumption
<1> DEFINE S == UNION {from[order[i]] : i \in DOMAIN order}
<1>2. ms \in [DOMAIN order -> S] /\ \A i \in DOMAIN order : ms[i] \in from[order[i]]
  BY DEF Collected
<1> HIDE DEF S
<1>3. /\ DOMAIN order = 1 .. Len(order) /\ Len(order) \in Nat
      /\ \A i \in 1 .. Len(order) : order[i] \in Parties
  BY <1>1, LenProperties, ElementOfSeq
<1>4. Len(ms) = Len(order)
  BY <1>2, <1>3
<1> QED
  BY <1>2, <1>3, <1>4

(***************************************************************************)
(* An aggregate holds, place by place, what the messages did.              *)
(***************************************************************************)
HoldsMembers(out, msgs, n) ==
    /\ Len(msgs) = n
    /\ {"coms_to_secrets", "pops", "pubnonces"} \subseteq DOMAIN out
    /\ out.coms_to_secrets = [i \in 1 .. n |-> msgs[i].commitment[1]]
    /\ out.pops = [i \in 1 .. n |-> msgs[i].pop]
    /\ out.pubnonces = [i \in 1 .. n |-> msgs[i].pubnonce]

LEMMA AggregateMembers ==
    ASSUME NEW st, NEW msgs, NEW res, res = CoordinatorInitialNext(st, msgs), res.ok
    PROVE  HoldsMembers(res.out, msgs, Len(st.host_pubkeys))
<1> DEFINE n == Len(st.host_pubkeys)
           sum == [k \in 1 .. st.t |-> SumMod([i \in 1 .. n |-> msgs[i].commitment[k]])]
           coms == [i \in 1 .. n |-> msgs[i].commitment[1]]
           pops == [i \in 1 .. n |-> msgs[i].pop]
           pubnonces == [i \in 1 .. n |-> msgs[i].pubnonce]
           secshares == [j \in 1 .. n |-> SumMod([i \in 1 .. n |-> msgs[i].enc_shares[j]])]
           out == [coms_to_secrets |-> coms, sum_coms_to_nonconst_terms |-> Tail(sum),
                   pops |-> pops, pubnonces |-> pubnonces, enc_secshares |-> secshares]
<1>1. ValidateParticipantMsg1(st, msgs).ok /\ res.out = out
  BY ErrIsNotOk, Zenon DEF CoordinatorInitialNext, Advance
<1>2. Len(msgs) = n
  BY <1>1, ErrIsNotOk, Zenon DEF ValidateParticipantMsg1
<1> HIDE DEF coms, sum, pops, pubnonces, secshares
<1>3. /\ {"coms_to_secrets", "pops", "pubnonces"} \subseteq DOMAIN res.out
      /\ res.out.coms_to_secrets = coms
      /\ res.out.pops = pops /\ res.out.pubnonces = pubnonces
  BY <1>1
<1> QED
  BY <1>2, <1>3 DEF HoldsMembers, coms, pops, pubnonces

(***************************************************************************)
(* The proofs in what may be delivered to a participant.                   *)
(***************************************************************************)
FromMessages(m) ==
    /\ {"coms_to_secrets", "pops", "pubnonces"} \subseteq DOMAIN m
    /\ SentProofs(m.pops)
    /\ m.pops = <<>> => m.pubnonces = <<>>
    /\ \A i \in DOMAIN m.pops : \E q \in Parties : \E w \in ProtocolMsg1[q] :
          m.coms_to_secrets[i] = w.commitment[1]

DeliveredProofs(m) == SentProofs(m.pops) \/ m.pubnonces = <<>>

LEMMA AggregatedFromMessages ==
    ASSUME NEW m \in AggregatedMsg1 PROVE FromMessages(m)
<1>0. PICK params \in CoordParams, order \in Orders :
         \E ms \in Collected(order, ProtocolMsg1) :
            /\ CoordinatorInitialNext(params, ms).ok
            /\ m = CoordinatorInitialNext(params, ms).out
  BY DEF AggregatedMsg1
<1>1. PICK ms \in Collected(order, ProtocolMsg1) :
         /\ CoordinatorInitialNext(params, ms).ok
         /\ m = CoordinatorInitialNext(params, ms).out
  BY <1>0
<1> DEFINE n == Len(params.host_pubkeys)
<1>2. /\ Len(ms) = n
      /\ {"coms_to_secrets", "pops", "pubnonces"} \subseteq DOMAIN m
      /\ m.coms_to_secrets = [i \in 1 .. n |-> ms[i].commitment[1]]
      /\ m.pops = [i \in 1 .. n |-> ms[i].pop]
      /\ m.pubnonces = [i \in 1 .. n |-> ms[i].pubnonce]
  BY <1>1, AggregateMembers DEF HoldsMembers
<1>3. n \in Nat /\ \A i \in 1 .. n : order[i] \in Parties /\ ms[i] \in ProtocolMsg1[order[i]]
  BY <1>2, CollectedParts
<1> HIDE DEF n
<1>4. \A i \in 1 .. n : ms[i].pop \in ProofsMade
  BY <1>3, ProofIsMade
<1>5. SentProofs(m.pops) /\ DOMAIN m.pops = 1 .. n
  BY <1>2, <1>3, <1>4 DEF SentProofs
<1>6. m.pops = <<>> => m.pubnonces = <<>>
  <2> SUFFICES ASSUME m.pops = <<>> PROVE m.pubnonces = <<>>
    OBVIOUS
  <2>1. n = 0
    <3>1. 1 \notin 1 .. n
      BY <1>5
    <3> QED
      BY <1>3, <3>1
  <2> QED
    BY <1>2, <2>1
<1>7. ASSUME NEW i \in 1 .. n
      PROVE  \E q \in Parties : \E w \in ProtocolMsg1[q] : m.coms_to_secrets[i] = w.commitment[1]
  BY <1>2, <1>3
<1> QED
  BY <1>2, <1>5, <1>6, <1>7 DEF FromMessages

LEMMA SpoiltProofs ==
    ASSUME NEW m, FromMessages(m), NEW s \in SpoiltCmsg1(m)
    PROVE  DeliveredProofs(s)
<1> DEFINE pops == m.pops
<1>1. {"pops", "pubnonces"} \subseteq DOMAIN m
  BY DEF FromMessages
<1>2. \/ s.pops = pops
      \/ s.pops = Tail(pops) /\ s.pubnonces = m.pubnonces
      \/ \E j \in DOMAIN pops : s.pops = [pops EXCEPT ![j] = NoPop]
  BY <1>1 DEF SpoiltCmsg1
<1>3. pops \in Seq(ProofsMade \cup {NoPop}) /\ (pops = <<>> => m.pubnonces = <<>>)
  BY DEF FromMessages, SentProofs
<1> HIDE DEF pops
<1>4. CASE s.pops = pops
  BY <1>3, <1>4 DEF DeliveredProofs, SentProofs
<1>5. CASE s.pops = Tail(pops) /\ s.pubnonces = m.pubnonces
  BY <1>3, <1>5, HeadTailProperties DEF DeliveredProofs, SentProofs
<1>6. CASE \E j \in DOMAIN pops : s.pops = [pops EXCEPT ![j] = NoPop]
  BY <1>3, <1>6, ChangedMember DEF DeliveredProofs, SentProofs
<1> QED
  BY <1>2, <1>4, <1>5, <1>6

LEMMA MovedProofs ==
    ASSUME NEW m, FromMessages(m), NEW i, NEW s,
           s = MovedSecret(m, i) \/ (i \in Faulty /\ s = MovedAndProven(m, i))
    PROVE  SentProofs(s.pops)
<1>1. {"coms_to_secrets", "pops", "pubnonces"} \subseteq DOMAIN m
      /\ m.pops \in Seq(ProofsMade \cup {NoPop})
  BY DEF FromMessages, SentProofs
<1>2. CASE s = MovedSecret(m, i)
  <2>1. s.pops = m.pops
    BY <1>1, <1>2 DEF MovedSecret
  <2> QED
    BY <1>1, <2>1 DEF SentProofs
<1>3. CASE i \in Faulty /\ s = MovedAndProven(m, i)
  <2>1. s.pops = [m.pops EXCEPT ![i] = ProvenPop(m, i)]
    <3>1. MovedSecret(m, i).pops = m.pops /\ "pops" \in DOMAIN MovedSecret(m, i)
      BY <1>1 DEF MovedSecret
    <3> QED
      BY <1>3, <3>1 DEF MovedAndProven
  <2>2. i \in DOMAIN m.pops => ProvenPop(m, i) \in ProofsMade
    BY <1>3, ProofIsMade DEF ProvenPop, FromMessages
  <2> QED
    BY <1>1, <2>1, <2>2, ChangedMember DEF SentProofs
<1> QED
  BY <1>2, <1>3

LEMMA DeliverableProofs ==
    ASSUME ContributionInv, NEW m \in DeliverableCmsg1
    PROVE  DeliveredProofs(m)
<1>1. CASE m \in cmsg1
  BY <1>1 DEF ContributionInv, DeliveredProofs
<1>2. CASE m \in AggregatedMsg1
  BY <1>2, AggregatedFromMessages DEF FromMessages, DeliveredProofs
<1>3. CASE \E w \in AggregatedMsg1 : \E i :
              m = MovedSecret(w, i) \/ (i \in Faulty /\ m = MovedAndProven(w, i))
  BY <1>3, AggregatedFromMessages, MovedProofs DEF DeliveredProofs
<1>4. CASE \E w \in AggregatedMsg1 : m \in SpoiltCmsg1(w)
  BY <1>4, AggregatedFromMessages, SpoiltProofs
<1>5. CASE \E w \in AggregatedMsg1 :
              m \in SpoiltCmsg1(w) \cup {MovedSecret(w, i) : i \in DOMAIN w.pops}
  <2>1. PICK w \in AggregatedMsg1 :
           m \in SpoiltCmsg1(w) \cup {MovedSecret(w, i) : i \in DOMAIN w.pops}
    BY <1>5
  <2>2. CASE m \in {MovedSecret(w, i) : i \in DOMAIN w.pops}
    <3>1. PICK i \in DOMAIN w.pops : m = MovedSecret(w, i)
      BY <2>2
    <3> QED
      BY <3>1, AggregatedFromMessages, MovedProofs DEF DeliveredProofs
  <2>3. CASE m \in SpoiltCmsg1(w)
    BY <1>4, <2>3
  <2> QED
    BY <2>1, <2>2, <2>3
<1> QED
  BY <1>1, <1>2, <1>3, <1>5 DEF DeliverableCmsg1, FaultyCmsg1

(***************************************************************************)
(* What step 2 has checked when it signs.                                  *)
(***************************************************************************)
SignsWith(st, msg, m, proofs, T) ==
    /\ T.host_pubkeys = st.host_pubkeys
    /\ T.pubnonces = msg.pubnonces
    /\ MadeWith(T, m, st.idx, proofs)
    /\ DOMAIN msg.pops = DOMAIN st.host_pubkeys
    /\ \A j \in DOMAIN st.host_pubkeys : j = st.idx \/ msg.pops[j].idx = j

LEMMA SignedContribution ==
    ASSUME NEW st, st.host_pubkeys \in Seq(Scalar), st.t \in 1 .. Len(st.host_pubkeys),
           st.idx \in DOMAIN st.host_pubkeys,
           NEW proofs, NEW m, Began(st, m), m.pop \in proofs,
           NEW msg, AggregatePoints(msg),
           msg.pops \in Seq(proofs \cup {NoPop}) \/ msg.pubnonces = <<>>,
           NEW res, res = Step1Next(st, msg), res.ok
    PROVE  SignsWith(st, msg, m, proofs, res.out.transcript)
<1> DEFINE sum == SumCommitment(msg)
           transcript == Transcript(st.t, sum, st.host_pubkeys, msg.pubnonces,
                                    msg.enc_secshares)
           sig == CertEqSign(st.s, transcript, st.idx)
           n == Len(st.host_pubkeys)
           coms == msg.coms_to_secrets
           T == res.out.transcript
<1>1. ValidateCoordinatorMsg1(st, msg).ok /\ Unproven(st, msg) = {} /\ sig.ok /\ res.out = sig.val
  BY ErrIsNotOk, Zenon DEF Step1Next, Advance
<1>2. /\ Len(msg.coms_to_secrets) = n
      /\ Len(msg.pops) = n /\ Len(msg.pubnonces) = n
      /\ msg.pubnonces[st.idx] = st.pubnonce
      /\ msg.coms_to_secrets[st.idx] = st.com_to_secret
  BY <1>1, ErrIsNotOk, Zenon DEF ValidateCoordinatorMsg1
<1>3. n \in Nat /\ n >= 1 /\ DOMAIN st.host_pubkeys = 1 .. n /\ st.idx \in 1 .. n
  BY LenProperties
<1>4. msg.pubnonces # <<>> /\ msg.pops # <<>>
  BY <1>2, <1>3
<1>5. coms \in Seq(Scalar) /\ msg.pops \in Seq(proofs \cup {NoPop})
  BY <1>4 DEF AggregatePoints, EmptyAggregate, TypedAggregate
<1>6. coms \in [1 .. n -> Scalar] /\ msg.pops \in [1 .. n -> proofs \cup {NoPop}]
  BY <1>2, <1>5
<1>7. T = transcript
  <2>1. sig.val = Sig(XOnly(MulG(st.s)), st.idx, transcript)
    BY <1>1, ErrIsNotOk, OkIsOk DEF CertEqSign
  <2> HIDE DEF transcript, sig
  <2> QED
    BY <1>1, <2>1 DEF Sig
<1>8. /\ transcript.sum_commitment = sum /\ transcript.host_pubkeys = st.host_pubkeys
      /\ transcript.pubnonces = msg.pubnonces
  BY DEF Transcript
<1>9. sum[1] = SumMod(coms)
  BY DEF SumCommitment
<1> HIDE DEF transcript, sum, sig, coms, T, n
<1>10. ASSUME NEW j \in 1 .. n, j # st.idx
       PROVE  msg.pops[j] = Pop(XOnly(coms[j]), j)
  BY <1>1, <1>10 DEF Unproven, PopVerify, coms, n
<1>11. ASSUME NEW j \in 1 .. n
       PROVE  Pop(XOnly(coms[j]), j) \in proofs
  <2>1. CASE j = st.idx
    BY <1>2, <2>1 DEF Began, coms
  <2>2. CASE j # st.idx
    <3>1. Pop(XOnly(coms[j]), j) \in proofs \cup {NoPop}
      BY <1>6, <1>10, <2>2
    <3>2. Pop(XOnly(coms[j]), j).idx = j /\ NoPop.idx = 0
      BY DEF Pop, NoPop
    <3>3. j # 0
      BY <1>3
    <3> QED
      BY <3>1, <3>2, <3>3
  <2> QED
    BY <2>1, <2>2
<1> DEFINE proven == {c \in Scalar : XOnly(c) \in {pop.key : pop \in proofs}}
<1>12. coms \in [1 .. n -> proven]
  <2>1. ASSUME NEW j \in 1 .. n PROVE coms[j] \in proven
    <3>1. Pop(XOnly(coms[j]), j).key = XOnly(coms[j])
      BY DEF Pop
    <3> QED
      BY <1>6, <1>11, <3>1
  <2> HIDE DEF proven
  <2> QED
    BY <1>6, <2>1
<1> HIDE DEF proven
<1>13. DOMAIN T.host_pubkeys = 1 .. n /\ DOMAIN coms = 1 .. n
  BY <1>3, <1>6, <1>7, <1>8
<1>14. T.pubnonces[st.idx] = m.pubnonce
  BY <1>2, <1>7, <1>8 DEF Began
<1>15. coms[st.idx] = m.commitment[1]
  BY <1>2 DEF Began, coms
<1>16. MadeWith(T, m, st.idx, proofs)
  <2>1. T.sum_commitment[1] = SumMod(coms)
    BY <1>7, <1>8, <1>9
  <2>2. \A j \in DOMAIN coms : Pop(XOnly(coms[j]), j) \in proofs
    BY <1>11, <1>13
  <2> QED
    BY <1>12, <1>13, <1>14, <1>15, <2>1, <2>2, Zenon DEF MadeWith, proven
<1>17. \A j \in 1 .. n : j = st.idx \/ msg.pops[j].idx = j
  <2> SUFFICES ASSUME NEW j \in 1 .. n, j # st.idx PROVE msg.pops[j].idx = j
    OBVIOUS
  <2>1. msg.pops[j] = Pop(XOnly(coms[j]), j)
    BY <1>10
  <2>2. Pop(XOnly(coms[j]), j).idx = j
    BY DEF Pop
  <2> QED
    BY <2>1, <2>2
<1>18. DOMAIN msg.pops = 1 .. n
  BY <1>6
<1>19. T.host_pubkeys = st.host_pubkeys /\ T.pubnonces = msg.pubnonces
  BY <1>7, <1>8
<1> HIDE DEF proven
<1> QED
  BY <1>3, <1>16, <1>17, <1>18, <1>19 DEF SignsWith, T

-----------------------------------------------------------------------------
LEMMA DriversStayBegun ==
    ASSUME TypeOK, DriversBegan, NEW p \in Honest, NEW driver,
           BeganWith(driver, pmsg1[p]'), pst' = [pst EXCEPT ![p] = driver], copies' = copies,
           \A q \in Honest : pmsg1[q] \subseteq pmsg1'[q]
    PROVE  DriversBegan'
<1> SUFFICES ASSUME NEW q \in Honest, NEW d \in {pst'[q]} \cup copies'[q]
             PROVE  BeganWith(d, pmsg1[q]')
  BY DEF DriversBegan
<1>1. DOMAIN pst = Honest
  BY DEF TypeOK
<1>2. CASE d \in copies[q] \/ q # p
  <2>1. d \in {pst[q]} \cup copies[q]
    BY <1>1, <1>2
  <2>2. BeganWith(d, pmsg1[q])
    BY <2>1 DEF DriversBegan
  <2> QED
    BY <2>2 DEF BeganWith
<1>3. CASE d = driver /\ q = p
  BY <1>3
<1> QED
  BY <1>1, <1>2, <1>3

LEMMA ContributionInvKept ==
    ASSUME ContributionInv, UNCHANGED <<cmsg1, pmsg2>>, DriversBegan',
           \A q \in Honest : pmsg1[q] \subseteq pmsg1'[q]
    PROVE  ContributionInv'
<1>1. ASSUME NEW m \in cmsg1 PROVE SentProofs(m.pops)' /\ Gathered(m)'
  <2>1. SentProofs(m.pops) /\ Gathered(m)
    BY DEF ContributionInv
  <2> DEFINE pops == m.pops
  <2>2. SentProofs(pops)'
    BY <2>1, ProofsStay
  <2>3. Gathered(m)'
    BY <2>1, SentMsg1Stays DEF Gathered
  <2> QED
    BY <2>2, <2>3
<1>2. SignedContributions'
  BY ContributionStays DEF ContributionInv, SignedContributions
<1>3. SignedInPlace'
  BY SentMsg1Stays DEF ContributionInv, SignedInPlace
<1> QED
  BY <1>1, <1>2, <1>3 DEF ContributionInv

LEMMA ContributionInvStep1 ==
    ASSUME TypeOK, ContributionInv, NEW p \in Honest, ParticipantStep1(p)
    PROVE  ContributionInv'
<1>1. PICK params \in ParamChoices[p], random \in Randoms :
         LET call == Transition(pst[p], "Initial", InitialNext(pst[p].st, params, random))
         IN  /\ pst' = [pst EXCEPT ![p] = call.state]
             /\ pmsg1' = [pmsg1 EXCEPT ![p] =
                            IF call.reply.ok THEN @ \cup {call.reply.val} ELSE @]
  BY DEF ParticipantStep1
<1> DEFINE res == InitialNext(pst[p].st, params, random)
           call == Transition(pst[p], "Initial", res)
<1>2. /\ UNCHANGED <<copies, cmsg1, pmsg2>>
      /\ pst' = [pst EXCEPT ![p] = call.state]
      /\ pmsg1' = [pmsg1 EXCEPT ![p] = IF call.reply.ok THEN @ \cup {call.reply.val} ELSE @]
  BY <1>1 DEF ParticipantStep1, cvars
<1>3. params \in Params
  BY ParamsAssumption
<1>4. ASSUME res.ok PROVE Began(res.st, res.out)
  BY <1>3, <1>4, InitialNextBegins
<1>5. \/ /\ res.ok /\ call.reply.ok
         /\ call.state = Driver(res.phase, res.st) /\ call.reply.val = res.out
      \/ call.state = pst[p] \/ call.state.phase = "Failed"
  BY TransitionCases
<1> HIDE DEF call, res
<1>6. \A q \in Honest : pmsg1[q] \subseteq pmsg1'[q]
  BY <1>2 DEF TypeOK
<1>7. BeganWith(call.state, pmsg1[p]')
  <2>1. CASE /\ res.ok /\ call.reply.ok
             /\ call.state = Driver(res.phase, res.st) /\ call.reply.val = res.out
    <3>1. res.out \in pmsg1'[p]
      BY <1>2, <2>1 DEF TypeOK
    <3>2. call.state.st = res.st
      BY <2>1 DEF Driver
    <3> QED
      BY <1>4, <2>1, <3>1, <3>2 DEF BeganWith
  <2>2. CASE call.state = pst[p]
    BY <1>6, <2>2 DEF ContributionInv, DriversBegan, BeganWith
  <2>3. CASE call.state.phase = "Failed"
    BY <2>3 DEF BeganWith
  <2> QED
    BY <1>5, <2>1, <2>2, <2>3
<1>8. DriversBegan'
  BY <1>2, <1>6, <1>7, DriversStayBegun DEF ContributionInv
<1> QED
  BY <1>2, <1>6, <1>8, ContributionInvKept

LEMMA ContributionInvStep2 ==
    ASSUME TypeOK, PointsInv, ContributionInv, NEW p \in Honest, ParticipantStep2(p)
    PROVE  ContributionInv'
<1>1. PICK msg \in DeliverableCmsg1 :
         LET call == Transition(pst[p], "Step1", Step1Next(pst[p].st, msg))
         IN  /\ pst' = [pst EXCEPT ![p] = call.state]
             /\ pmsg2' = [pmsg2 EXCEPT ![p] =
                            IF call.reply.ok THEN @ \cup {call.reply.val} ELSE @]
  BY DEF ParticipantStep2
<1> DEFINE st == pst[p].st
           res == Step1Next(st, msg)
           call == Transition(pst[p], "Step1", res)
           T == res.out.transcript
<1>2. /\ UNCHANGED <<copies, pmsg1, cmsg1>>
      /\ pst' = [pst EXCEPT ![p] = call.state]
      /\ pmsg2' = [pmsg2 EXCEPT ![p] = IF call.reply.ok THEN @ \cup {call.reply.val} ELSE @]
  BY <1>1 DEF ParticipantStep2, cvars
<1>3. \A q \in Honest : pmsg1[q] \subseteq pmsg1'[q]
  BY <1>2
<1>4. \/ /\ call.reply.ok /\ res.ok /\ pst[p].phase = "Step1"
         /\ call.state = Driver(res.phase, res.st) /\ call.reply.val = res.out
      \/ ~ call.reply.ok /\ (call.state = pst[p] \/ call.state.phase = "Failed")
  BY TransitionCases
<1>5. ASSUME res.ok, pst[p].phase = "Step1"
      PROVE  /\ res.phase = "Step2"
             /\ Contributed(p, T)
             /\ CoordHonest =>
                   \A j \in DOMAIN T.host_pubkeys : \E q \in Parties : \E w \in Msg1From[q] :
                       w.pubnonce = T.pubnonces[j] /\ w.pop.idx = j
  <2>1. /\ st.host_pubkeys \in Seq(Scalar) /\ st.t \in 1 .. Len(st.host_pubkeys)
        /\ st.idx \in DOMAIN st.host_pubkeys /\ st.host_pubkeys[st.idx] = HostKey(p)
    <3>1. ParticipantDriver(p, pst[p])
      BY OwnDriverTyped
    <3> QED
      BY <1>5, <3>1 DEF ParticipantDriver, NewParticipant, Driver
  <2>2. PICK m \in pmsg1[p] : Began(st, m)
    BY <1>5 DEF ContributionInv, DriversBegan, BeganWith
  <2>3. m.pop \in ProofsMade /\ p \in Parties
    BY PartiesAssumption, ProofIsMade DEF ProtocolMsg1
  <2>4. AggregatePoints(msg) /\ DeliveredProofs(msg)
    BY DeliverablePoints, DeliverableProofs
  <2> DEFINE proofs == ProofsMade
  <2>9. m.pop \in proofs /\ (msg.pops \in Seq(proofs \cup {NoPop}) \/ msg.pubnonces = <<>>)
    BY <2>3, <2>4 DEF DeliveredProofs, SentProofs
  <2>0. res = Step1Next(st, msg)
    OBVIOUS
  <2> HIDE DEF st, res, proofs
  <2>5. /\ T.host_pubkeys = st.host_pubkeys
        /\ T.pubnonces = msg.pubnonces
        /\ MadeWith(T, m, st.idx, proofs)
        /\ DOMAIN msg.pops = DOMAIN st.host_pubkeys
        /\ \A j \in DOMAIN st.host_pubkeys : j = st.idx \/ msg.pops[j].idx = j
    <3>1. SignsWith(st, msg, m, proofs, T)
      BY <1>5, <2>0, <2>1, <2>2, <2>4, <2>9, SignedContribution
    <3> QED
      BY <3>1 DEF SignsWith
  <2>6. res.phase = "Step2"
    BY <1>5, <2>0, <2>1, Step1NextOk
  <2> HIDE DEF T
  <2>7. Contributed(p, T)
    BY <2>1, <2>5 DEF Contributed, proofs
  <2>8. ASSUME CoordHonest, NEW j \in DOMAIN T.host_pubkeys
        PROVE  \E q \in Parties : \E w \in Msg1From[q] :
                  w.pubnonce = T.pubnonces[j] /\ w.pop.idx = j
    <3>1. CASE j = st.idx
      <4>1. m \in Msg1From[p]
        BY <2>3 DEF Msg1From
      <4>2. m.pop.idx = j
        BY <2>2, <3>1 DEF Began, Pop
      <4>3. m.pubnonce = T.pubnonces[j]
        BY <2>5, <3>1 DEF MadeWith
      <4> QED
        BY <2>3, <4>1, <4>2, <4>3
    <3>2. CASE j # st.idx
      <4>1. msg \in cmsg1
        BY <2>8 DEF DeliverableCmsg1
      <4>2. j \in DOMAIN msg.pops /\ msg.pops[j].idx = j
        BY <2>5, <3>2
      <4> QED
        BY <2>5, <4>1, <4>2 DEF ContributionInv, Gathered
    <3> QED
      BY <3>1, <3>2
  <2> QED
    BY <2>6, <2>7, <2>8
<1> HIDE DEF call, res, st
<1>6. BeganWith(call.state, pmsg1[p]')
  <2>1. CASE res.ok /\ pst[p].phase = "Step1" /\ call.state = Driver(res.phase, res.st)
    BY <1>5, <2>1 DEF BeganWith, Driver
  <2>2. CASE call.state = pst[p]
    BY <1>2, <2>2 DEF ContributionInv, DriversBegan, BeganWith
  <2>3. CASE call.state.phase = "Failed"
    BY <2>3 DEF BeganWith
  <2> QED
    BY <1>4, <2>1, <2>2, <2>3
<1>7. DriversBegan'
  BY <1>2, <1>3, <1>6, DriversStayBegun DEF ContributionInv
<1>8. ASSUME NEW q \in Honest, NEW sig \in pmsg2'[q]
      PROVE  \/ sig \in pmsg2[q]
             \/ q = p /\ sig = res.out /\ res.ok /\ pst[p].phase = "Step1"
  BY <1>2, <1>4 DEF TypeOK
<1>9. UNCHANGED <<ProofsMade, Msg1From>>
  BY <1>2 DEF ProofsMade, ProtocolMsg1, Msg1From
<1>10. SignedContributions'
  <2> SUFFICES ASSUME NEW q \in Honest, NEW sig \in pmsg2'[q]
               PROVE  Contributed(q, sig.transcript)'
    BY DEF SignedContributions
  <2> DEFINE U == sig.transcript
  <2>1. Contributed(q, U)
    BY <1>5, <1>8 DEF ContributionInv, SignedContributions, T
  <2>2. Contributed(q, U)'
    BY <1>3, <2>1, ContributionStays
  <2> QED
    BY <2>2
<1>11. SignedInPlace'
  BY <1>5, <1>8, <1>9 DEF ContributionInv, SignedInPlace, T
<1>12. \A m \in cmsg1' : SentProofs(m.pops)' /\ Gathered(m)'
  BY <1>2, <1>9 DEF ContributionInv, SentProofs, Gathered
<1> QED
  BY <1>7, <1>10, <1>11, <1>12 DEF ContributionInv

LEMMA ContributionInvFinalize ==
    ASSUME TypeOK, ContributionInv, NEW p \in Honest, ParticipantFinalize(p)
    PROVE  ContributionInv'
<1>1. PICK cert \in DeliverableCerts :
         pst' = [pst EXCEPT ![p] =
                   Transition(pst[p], "Step2", Step2Next(pst[p].st, cert)).state]
  BY DEF ParticipantFinalize
<1> DEFINE res == Step2Next(pst[p].st, cert)
           call == Transition(pst[p], "Step2", res)
<1>2. \/ call.state = pst[p] \/ call.state.phase = "Failed"
      \/ res.ok /\ call.state = Driver(res.phase, res.st)
  BY TransitionCases
<1>3. res.ok => res.phase = "Successful"
  BY Step2NextOk
<1>4. pst' = [pst EXCEPT ![p] = call.state] /\ UNCHANGED <<copies, pmsg1, cmsg1, pmsg2>>
  BY <1>1 DEF ParticipantFinalize, cvars
<1> HIDE DEF call, res
<1>5. call.state = pst[p] \/ call.state.phase \in {"Failed", "Successful"}
  BY <1>2, <1>3 DEF Driver
<1>6. BeganWith(call.state, pmsg1[p]')
  BY <1>4, <1>5 DEF ContributionInv, DriversBegan, BeganWith
<1>7. DriversBegan'
  BY <1>4, <1>6, DriversStayBegun DEF ContributionInv
<1> QED
  BY <1>4, <1>7, ContributionInvKept

LEMMA ContributionInvRestart ==
    ASSUME TypeOK, ContributionInv, NEW p \in Honest,
           ParticipantRestart(p) \/ ParticipantClone(p)
    PROVE  ContributionInv'
<1>1. UNCHANGED <<pmsg1, cmsg1, pmsg2>>
  BY DEF ParticipantRestart, ParticipantClone, cvars
<1>2. DriversBegan'
  <2>1. CASE ParticipantRestart(p)
    <3>1. PICK driver \in {NewParticipant(p)} \cup copies[p] :
             pst' = [pst EXCEPT ![p] = driver] /\ copies' = copies
      BY <2>1 DEF ParticipantRestart
    <3>2. BeganWith(driver, pmsg1[p]')
      <4>1. CASE driver \in copies[p]
        BY <1>1, <4>1 DEF ContributionInv, DriversBegan
      <4>2. CASE driver = NewParticipant(p)
        BY <4>2 DEF BeganWith, NewParticipant, Driver
      <4> QED
        BY <3>1, <4>1, <4>2
    <3> QED
      BY <1>1, <3>1, <3>2, DriversStayBegun DEF ContributionInv
  <2>2. CASE ParticipantClone(p)
    <3>1. copies' = [copies EXCEPT ![p] = @ \cup {pst[p]}] /\ pst' = pst
      BY <2>2 DEF ParticipantClone
    <3>2. \A q \in Honest : \A d \in {pst[q]} \cup copies'[q] : d \in {pst[q]} \cup copies[q]
      BY <3>1 DEF TypeOK
    <3> QED
      BY <1>1, <3>1, <3>2 DEF ContributionInv, DriversBegan
  <2> QED
    BY <2>1, <2>2
<1> QED
  BY <1>1, <1>2, ContributionInvKept

LEMMA ContributionInvCoordinator ==
    ASSUME TypeOK, ContributionInv, CoordinatorStep1 PROVE ContributionInv'
<1>0. \E order \in Orders : \E msgs \in Collected(order, Msg1From) :
         LET call == Transition(cst, "Initial", CoordinatorInitialNext(cst.st, msgs))
         IN  cmsg1' = IF call.reply.ok THEN cmsg1 \cup {call.reply.val} ELSE cmsg1
  BY DEF CoordinatorStep1
<1>1. PICK order \in Orders :
         \E msgs \in Collected(order, Msg1From) :
            LET call == Transition(cst, "Initial", CoordinatorInitialNext(cst.st, msgs))
            IN  cmsg1' = IF call.reply.ok THEN cmsg1 \cup {call.reply.val} ELSE cmsg1
  BY <1>0
<1>2. PICK msgs \in Collected(order, Msg1From) :
         LET call == Transition(cst, "Initial", CoordinatorInitialNext(cst.st, msgs))
         IN  cmsg1' = IF call.reply.ok THEN cmsg1 \cup {call.reply.val} ELSE cmsg1
  BY <1>1
<1> DEFINE st == cst.st
           res == CoordinatorInitialNext(st, msgs)
           call == Transition(cst, "Initial", res)
           n == Len(st.host_pubkeys)
<1>3. /\ UNCHANGED <<pst, copies, pmsg1, pmsg2>>
      /\ cmsg1' = IF call.reply.ok THEN cmsg1 \cup {call.reply.val} ELSE cmsg1
  BY <1>2 DEF CoordinatorStep1, pvars
<1>4. ASSUME res.ok PROVE SentProofs(res.out.pops) /\ Gathered(res.out)
  <2>1. /\ Len(msgs) = n
        /\ res.out.pops = [i \in 1 .. n |-> msgs[i].pop]
        /\ res.out.pubnonces = [i \in 1 .. n |-> msgs[i].pubnonce]
    <3>1. HoldsMembers(res.out, msgs, n)
      BY <1>4, AggregateMembers
    <3> QED
      BY <3>1 DEF HoldsMembers
  <2>2. n \in Nat /\ \A i \in 1 .. n : order[i] \in Parties /\ msgs[i] \in Msg1From[order[i]]
    BY <2>1, CollectedParts
  <2> HIDE DEF n, res
  <2>3. \A i \in 1 .. n : msgs[i].pop \in ProofsMade \cup {NoPop}
    BY <2>2, Msg1Proofs
  <2>4. SentProofs(res.out.pops) /\ DOMAIN res.out.pops = 1 .. n
    BY <2>1, <2>2, <2>3 DEF SentProofs
  <2>5. ASSUME NEW i \in 1 .. n
        PROVE  \E q \in Parties : \E w \in Msg1From[q] :
                  w.pubnonce = res.out.pubnonces[i] /\ w.pop = res.out.pops[i]
    BY <2>1, <2>2
  <2> QED
    BY <2>4, <2>5 DEF Gathered
<1>5. call = Transition(cst, "Initial", res)
  OBVIOUS
<1> HIDE DEF call, res
<1>6. call.reply.ok => res.ok /\ call.reply.val = res.out
  BY <1>5, TransitionCases
<1>7. UNCHANGED <<ProofsMade, Msg1From>>
  BY <1>3 DEF ProofsMade, ProtocolMsg1, Msg1From
<1>8. \A m \in cmsg1' : SentProofs(m.pops)' /\ Gathered(m)'
  <2>1. \A m \in cmsg1' : SentProofs(m.pops) /\ Gathered(m)
    BY <1>3, <1>4, <1>6 DEF ContributionInv
  <2> QED
    BY <1>7, <2>1 DEF SentProofs, Gathered
<1>9. DriversBegan' /\ SignedContributions' /\ SignedInPlace'
  BY <1>3, <1>7 DEF ContributionInv, DriversBegan, SignedContributions, SignedInPlace,
                    Contributed
<1> QED
  BY <1>8, <1>9 DEF ContributionInv

LEMMA ContributionInvStep ==
    TypeOK /\ PointsInv /\ ContributionInv /\ [Next]_vars => ContributionInv'
<1> SUFFICES ASSUME TypeOK, PointsInv, ContributionInv, [Next]_vars PROVE ContributionInv'
  OBVIOUS
<1>1. ASSUME UNCHANGED <<pst, copies, pmsg1, cmsg1, pmsg2>> PROVE ContributionInv'
  <2>1. DriversBegan'
    BY <1>1 DEF ContributionInv, DriversBegan
  <2> QED
    BY <1>1, <2>1, ContributionInvKept
<1>2. CASE UNCHANGED vars
  BY <1>1, <1>2 DEF vars
<1>3. ASSUME NEW p \in Honest, ParticipantRecover(p) PROVE ContributionInv'
  BY <1>1, <1>3 DEF ParticipantRecover, cvars
<1>4. CASE CoordinatorCreate \/ CoordinatorStep2 \/ CoordinatorRecovers
  BY <1>1, <1>4 DEF CoordinatorCreate, CoordinatorStep2, CoordinatorRecovers, pvars
<1> QED
  BY <1>2, <1>3, <1>4, ContributionInvStep1, ContributionInvStep2, ContributionInvFinalize,
     ContributionInvRestart, ContributionInvCoordinator
     DEF Next, Progress, ParticipantCall, CoordinatorCall

(***************************************************************************)
(* What an honest party signs, and what an honest holder keeps, was made   *)
(* with the contribution of every honest party concerned: in that party's  *)
(* place stand the nonce and, in the sum that the key is made from, the    *)
(* commitment of one first message of its own, and for every other place   *)
(* the sum has a commitment that somebody proved for that place.           *)
(***************************************************************************)
THEOREM AllContribute == Spec => []ContributionIncluded
<1>1. Init => TypeOK /\ PointsInv /\ ContributionInv
  BY TypeOKInit, PointsInvInit, ContributionInvInit
<1>2. TypeOK /\ PointsInv /\ ContributionInv /\ [Next]_vars
         => (TypeOK /\ PointsInv /\ ContributionInv)'
  BY TypeOKStep, PointsInvStep, ContributionInvStep
<1>3. CertifiedByAll /\ ContributionInv => ContributionIncluded
  <2> SUFFICES ASSUME CertifiedByAll, SignedContributions PROVE ContributionIncluded
    BY DEF ContributionInv
  <2>1. ASSUME NEW o \in Held, NEW q \in HonestMembers(o.recovery.transcript)
        PROVE  Contributed(q, o.recovery.transcript)
    BY DEF CertifiedByAll, HasSigned, SignedContributions, HonestMembers
  <2> QED
    BY <2>1 DEF ContributionIncluded, SignedContributions
<1> QED
  BY <1>1, <1>2, <1>3, CertificateMeansAllSigned, PTL DEF Spec

(***************************************************************************)
(* With an honest coordinator a participant signs only lists in which each *)
(* nonce came from a message made for the place that it stands in, in      *)
(* whatever order the coordinator's caller handed the messages over.       *)
(***************************************************************************)
THEOREM ListsAreInPlace == Spec => []SignedInPlace
<1>1. Init => TypeOK /\ PointsInv /\ ContributionInv
  BY TypeOKInit, PointsInvInit, ContributionInvInit
<1>2. TypeOK /\ PointsInv /\ ContributionInv /\ [Next]_vars
         => (TypeOK /\ PointsInv /\ ContributionInv)'
  BY TypeOKStep, PointsInvStep, ContributionInvStep
<1>3. ContributionInv => SignedInPlace
  BY DEF ContributionInv
<1> QED
  BY <1>1, <1>2, <1>3, PTL DEF Spec

-----------------------------------------------------------------------------
(* One signature for a nonce *)

(***************************************************************************)
(* The nonces that a party has used in its signatures, and the one that    *)
(* its driver, between its first and its second step, is about to use.     *)
(***************************************************************************)
UsedNonces(sigs) == {sig.transcript.pubnonces[sig.idx] : sig \in sigs}

NextNonce(d) == IF d.phase = "Step1" THEN {d.st.pubnonce} ELSE {}

InUse(d) == IF d.phase \in {"Initial", "Step1"} THEN 1 ELSE 0

(***************************************************************************)
(* The account of one party: what it has sent, what it has signed, its     *)
(* driver, and how many drivers were made.  A driver adds one nonce and    *)
(* one signature with it; whoever adds a signature with a nonce that has   *)
(* been used before, or adds no nonce, leaves fewer nonces than drivers.   *)
(***************************************************************************)
NonceAccount(sent, sigs, d, made) ==
    /\ IsFiniteSet(sent)
    /\ IsFiniteSet(sigs)
    /\ made \in Nat
    /\ UsedNonces(sigs) \cup NextNonce(d) \subseteq sent
    /\ Cardinality(sent) + Cardinality(sigs) + InUse(d)
          <= made + Cardinality(UsedNonces(sigs) \cup NextNonce(d))

NonceInv ==
    \A p \in Honest : NonceAccount(SentNonces(p), pmsg2[p], pst[p], sessions[p])

LEMMA PartOfFinite ==
    ASSUME NEW S, IsFiniteSet(S), NEW T, T \subseteq S
    PROVE  IsFiniteSet(T) /\ Cardinality(T) \in Nat /\ Cardinality(S) \in Nat
              /\ Cardinality(T) <= Cardinality(S)
<1>1. IsFiniteSet(T) /\ Cardinality(T) <= Cardinality(S)
  BY FS_Subset
<1> QED
  BY <1>1, FS_CardinalityType

LEMMA OneMore ==
    ASSUME NEW S, IsFiniteSet(S), NEW x
    PROVE  /\ IsFiniteSet(S \cup {x})
           /\ Cardinality(S) \in Nat
           /\ Cardinality(S \cup {x}) \in {Cardinality(S), Cardinality(S) + 1}
           /\ x \notin S => Cardinality(S \cup {x}) = Cardinality(S) + 1
           /\ x \in S => Cardinality(S \cup {x}) = Cardinality(S)
<1>1. /\ IsFiniteSet(S \cup {x})
      /\ Cardinality(S \cup {x}) = IF x \in S THEN Cardinality(S) ELSE Cardinality(S) + 1
  BY FS_AddElement, Zenon
<1>2. Cardinality(S) \in Nat
  BY FS_CardinalityType
<1> QED
  BY <1>1, <1>2

LEMMA AccountCloses ==
    ASSUME NEW sent, NEW sigs, NEW d, NEW made, NonceAccount(sent, sigs, d, made)
    PROVE  /\ UsedNonces(sigs) \subseteq sent
           /\ Cardinality(sent) + Cardinality(sigs) <= made + Cardinality(UsedNonces(sigs))
<1> DEFINE used == UsedNonces(sigs)
<1>1. /\ IsFiniteSet(sent) /\ IsFiniteSet(sigs) /\ made \in Nat
      /\ used \cup NextNonce(d) \subseteq sent
      /\ Cardinality(sent) + Cardinality(sigs) + InUse(d)
            <= made + Cardinality(used \cup NextNonce(d))
  BY DEF NonceAccount
<1> HIDE DEF used
<1>2. used \subseteq sent /\ IsFiniteSet(used) /\ Cardinality(used) \in Nat
      /\ Cardinality(sent) \in Nat /\ Cardinality(sigs) \in Nat
  BY <1>1, PartOfFinite
<1>3. CASE d.phase = "Step1"
  <2>1. NextNonce(d) = {d.st.pubnonce} /\ InUse(d) = 1
    BY <1>3 DEF NextNonce, InUse
  <2>2. Cardinality(used \cup {d.st.pubnonce}) \in {Cardinality(used), Cardinality(used) + 1}
    BY <1>2, OneMore
  <2>3. Cardinality(sent) + Cardinality(sigs) + 1
            <= made + Cardinality(used \cup {d.st.pubnonce})
    BY <1>1, <2>1
  <2>4. Cardinality(sent) + Cardinality(sigs) <= made + Cardinality(used)
    BY <1>1, <1>2, <2>2, <2>3
  <2> QED
    BY <1>2, <2>4 DEF used
<1>4. CASE d.phase # "Step1"
  <2>0. NextNonce(d) = {} /\ InUse(d) \in {0, 1}
    BY <1>4 DEF NextNonce, InUse
  <2>1. used \cup NextNonce(d) = used
    BY <2>0
  <2>2. Cardinality(sent) + Cardinality(sigs) <= made + Cardinality(used)
    BY <1>1, <1>2, <2>0, <2>1
  <2> QED
    BY <1>2, <2>2 DEF used
<1> QED
  BY <1>3, <1>4

LEMMA AccountEnds ==
    ASSUME NEW sent, NEW sigs, NEW d, NEW made, NonceAccount(sent, sigs, d, made),
           NEW e, e.phase \notin {"Initial", "Step1"}
    PROVE  NonceAccount(sent, sigs, e, made)
<1>1. NextNonce(e) = {} /\ InUse(e) = 0
  BY DEF NextNonce, InUse
<1>2. UsedNonces(sigs) \cup NextNonce(e) = UsedNonces(sigs)
  BY <1>1
<1>3. Cardinality(sent) \in Nat /\ Cardinality(sigs) \in Nat
  BY PartOfFinite DEF NonceAccount
<1>4. Cardinality(sent) + Cardinality(sigs) + InUse(e)
          <= made + Cardinality(UsedNonces(sigs))
  BY <1>1, <1>3, AccountCloses
<1> QED
  BY <1>2, <1>4, AccountCloses DEF NonceAccount

LEMMA AccountReopens ==
    ASSUME NEW sent, NEW sigs, NEW d, NEW made, NonceAccount(sent, sigs, d, made),
           NEW e, NextNonce(e) \subseteq sent
    PROVE  NonceAccount(sent, sigs, e, made + 1)
<1> DEFINE used == UsedNonces(sigs)
           then == used \cup NextNonce(e)
<1>1. /\ used \subseteq sent
      /\ Cardinality(sent) + Cardinality(sigs) <= made + Cardinality(used)
  BY AccountCloses
<1>2. IsFiniteSet(sent) /\ IsFiniteSet(sigs) /\ made \in Nat
  BY DEF NonceAccount
<1>3. then \subseteq sent /\ used \subseteq then
  BY <1>1
<1> HIDE DEF used, then
<1>4. IsFiniteSet(then) /\ Cardinality(then) \in Nat
  BY <1>2, <1>3, PartOfFinite
<1>5. Cardinality(used) \in Nat /\ Cardinality(used) <= Cardinality(then)
  BY <1>3, <1>4, PartOfFinite
<1>6. Cardinality(sent) \in Nat /\ Cardinality(sigs) \in Nat /\ InUse(e) \in {0, 1}
  BY <1>2, PartOfFinite DEF InUse
<1>7. Cardinality(sent) + Cardinality(sigs) + InUse(e) <= (made + 1) + Cardinality(then)
  BY <1>1, <1>2, <1>4, <1>5, <1>6
<1> QED
  BY <1>2, <1>3, <1>7 DEF NonceAccount, then, used

LEMMA AccountSends ==
    ASSUME NEW sent, NEW sigs, NEW d, NEW made, NonceAccount(sent, sigs, d, made),
           d.phase = "Initial", NEW e, e.phase = "Step1"
    PROVE  NonceAccount(sent \cup {e.st.pubnonce}, sigs, e, made)
<1> DEFINE used == UsedNonces(sigs)
           nonce == e.st.pubnonce
<1>1. NextNonce(d) = {} /\ InUse(d) = 1 /\ NextNonce(e) = {nonce} /\ InUse(e) = 1
  BY DEF NextNonce, InUse
<1>2. IsFiniteSet(sent) /\ IsFiniteSet(sigs) /\ made \in Nat
      /\ used \cup NextNonce(d) \subseteq sent
      /\ Cardinality(sent) + Cardinality(sigs) + InUse(d)
            <= made + Cardinality(used \cup NextNonce(d))
  BY DEF NonceAccount
<1> HIDE DEF used, nonce
<1>3. used \cup NextNonce(d) = used
  BY <1>1
<1>4. used \subseteq sent /\ Cardinality(sent) + Cardinality(sigs) + 1 <= made + Cardinality(used)
  BY <1>1, <1>2, <1>3
<1>5. IsFiniteSet(used) /\ Cardinality(used) \in Nat
      /\ Cardinality(sent) \in Nat /\ Cardinality(sigs) \in Nat
  BY <1>2, <1>4, PartOfFinite
<1>6. Cardinality(sent \cup {nonce}) + Cardinality(sigs) + 1
          <= made + Cardinality(used \cup {nonce})
  <2>1. CASE nonce \in sent
    <3>1. Cardinality(sent \cup {nonce}) = Cardinality(sent)
      BY <1>2, <2>1, OneMore
    <3>2. Cardinality(used \cup {nonce}) \in {Cardinality(used), Cardinality(used) + 1}
      BY <1>5, OneMore
    <3> QED
      BY <1>2, <1>4, <1>5, <3>1, <3>2
  <2>2. CASE nonce \notin sent
    <3>1. Cardinality(sent \cup {nonce}) = Cardinality(sent) + 1
      BY <1>2, <2>2, OneMore
    <3>2. nonce \notin used
      BY <1>4, <2>2
    <3>3. Cardinality(used \cup {nonce}) = Cardinality(used) + 1
      BY <1>5, <3>2, OneMore
    <3> QED
      BY <1>2, <1>4, <1>5, <3>1, <3>3
  <2> QED
    BY <2>1, <2>2
<1>7. IsFiniteSet(sent \cup {nonce}) /\ used \cup NextNonce(e) \subseteq sent \cup {nonce}
  BY <1>1, <1>2, <1>4, OneMore
<1>8. Cardinality(sent \cup {nonce}) + Cardinality(sigs) + InUse(e)
          <= made + Cardinality(used \cup NextNonce(e))
  BY <1>1, <1>6
<1> QED
  BY <1>2, <1>7, <1>8 DEF NonceAccount, used, nonce

LEMMA AccountSigns ==
    ASSUME NEW sent, NEW sigs, NEW d, NEW made, NonceAccount(sent, sigs, d, made),
           d.phase = "Step1", NEW e, e.phase = "Step2",
           NEW sig, sig.transcript.pubnonces[sig.idx] = d.st.pubnonce
    PROVE  NonceAccount(sent, sigs \cup {sig}, e, made)
<1> DEFINE used == UsedNonces(sigs)
           more == UsedNonces(sigs \cup {sig})
           both == sigs \cup {sig}
<1>1. NextNonce(d) = {d.st.pubnonce} /\ InUse(d) = 1 /\ NextNonce(e) = {} /\ InUse(e) = 0
  BY DEF NextNonce, InUse
<1>2. IsFiniteSet(sent) /\ IsFiniteSet(sigs) /\ made \in Nat
      /\ used \cup NextNonce(d) \subseteq sent
      /\ Cardinality(sent) + Cardinality(sigs) + InUse(d)
            <= made + Cardinality(used \cup NextNonce(d))
  BY DEF NonceAccount
<1>3. more = used \cup NextNonce(d)
  BY <1>1 DEF UsedNonces
<1>4. IsFiniteSet(both) /\ Cardinality(sigs) \in Nat
      /\ Cardinality(both) \in {Cardinality(sigs), Cardinality(sigs) + 1}
  BY <1>2, OneMore
<1> HIDE DEF used, more, both
<1>5. Cardinality(sent) \in Nat /\ Cardinality(more) \in Nat /\ more \subseteq sent
  BY <1>2, <1>3, PartOfFinite
<1>6. Cardinality(sent) + Cardinality(both) <= made + Cardinality(more)
  BY <1>1, <1>2, <1>3, <1>4, <1>5
<1>7. more \cup NextNonce(e) = more
  BY <1>1
<1>8. Cardinality(sent) + Cardinality(both) + InUse(e)
         <= made + Cardinality(more \cup NextNonce(e))
  BY <1>1, <1>4, <1>5, <1>6, <1>7
<1>9. more \cup NextNonce(e) \subseteq sent
  BY <1>5, <1>7
<1> QED
  BY <1>2, <1>4, <1>8, <1>9 DEF NonceAccount, more, both

(***************************************************************************)
(* With a nonce for every driver no nonce is used twice.                   *)
(***************************************************************************)
LEMMA AccountFull ==
    ASSUME NEW sent, NEW sigs, NEW d, NEW made, NonceAccount(sent, sigs, d, made),
           Cardinality(sent) = made,
           NEW sig1 \in sigs, NEW sig2 \in sigs,
           sig1.transcript.pubnonces[sig1.idx] = sig2.transcript.pubnonces[sig2.idx]
    PROVE  sig1 = sig2
<1> DEFINE used == UsedNonces(sigs)
           f == [sig \in sigs |-> sig.transcript.pubnonces[sig.idx]]
<1>1. IsFiniteSet(sigs) /\ made \in Nat
  BY DEF NonceAccount
<1>2. f \in Surjection(sigs, used)
  BY DEF Surjection, UsedNonces
<1>3. Cardinality(sent) + Cardinality(sigs) <= made + Cardinality(used)
  BY AccountCloses
<1>4. f[sig1] = f[sig2]
  OBVIOUS
<1> HIDE DEF used, f
<1>5. IsFiniteSet(used) /\ Cardinality(used) <= Cardinality(sigs)
  BY <1>1, <1>2, FS_Surjection
<1>6. Cardinality(used) \in Nat /\ Cardinality(sigs) \in Nat
  BY <1>1, <1>5, FS_CardinalityType
<1>7. Cardinality(used) = Cardinality(sigs)
  BY <1>1, <1>3, <1>5, <1>6
<1>8. f \in Injection(sigs, used)
  BY <1>1, <1>2, <1>7, FS_SurjSameCardinalityImpliesInj
<1> QED
  BY <1>4, <1>8 DEF Injection, IsInjective

-----------------------------------------------------------------------------
LEMMA NonceInvInit == Init => NonceInv
<1> SUFFICES ASSUME Init, NEW p \in Honest
             PROVE  NonceAccount(SentNonces(p), pmsg2[p], pst[p], sessions[p])
  BY DEF NonceInv
<1>1. SentNonces(p) = {} /\ pmsg2[p] = {} /\ UsedNonces({}) = {} /\ sessions[p] = 1
  BY DEF Init, SentNonces, UsedNonces
<1>2. NextNonce(pst[p]) = {} /\ InUse(pst[p]) = 1
  BY DEF Init, NewParticipant, Driver, NextNonce, InUse
<1>3. UsedNonces({}) \cup NextNonce(pst[p]) = {}
  BY <1>1, <1>2
<1> QED
  BY <1>1, <1>2, <1>3, FS_EmptySet DEF NonceAccount

(***************************************************************************)
(* A step of one party changes only that party's account.                  *)
(***************************************************************************)
LEMMA NonceInvKept ==
    ASSUME NonceInv, NEW p \in Honest,
           NonceAccount(SentNonces(p)', pmsg2[p]', pst[p]', sessions[p]'),
           \A q \in Honest \ {p} : /\ pmsg1'[q] = pmsg1[q] /\ pmsg2'[q] = pmsg2[q]
                                   /\ pst'[q] = pst[q] /\ sessions'[q] = sessions[q]
    PROVE  NonceInv'
<1> SUFFICES ASSUME NEW q \in Honest
             PROVE  NonceAccount(SentNonces(q)', pmsg2[q]', pst[q]', sessions[q]')
  BY DEF NonceInv
<1>1. CASE q = p
  BY <1>1
<1>2. CASE q # p
  <2>1. SentNonces(q)' = SentNonces(q)
    BY <1>2 DEF SentNonces
  <2> QED
    BY <1>2, <2>1 DEF NonceInv
<1> QED
  BY <1>1, <1>2

LEMMA OwnAccount ==
    ASSUME NonceInv, NEW p \in Honest
    PROVE  NonceAccount(SentNonces(p), pmsg2[p], pst[p], sessions[p])
BY DEF NonceInv

LEMMA NonceInvStep1 ==
    ASSUME TypeOK, NonceInv, NEW p \in Honest, ParticipantStep1(p) PROVE NonceInv'
<1>1. PICK params \in ParamChoices[p], random \in Randoms :
         LET call == Transition(pst[p], "Initial", InitialNext(pst[p].st, params, random))
         IN  /\ pst' = [pst EXCEPT ![p] = call.state]
             /\ pmsg1' = [pmsg1 EXCEPT ![p] =
                            IF call.reply.ok THEN @ \cup {call.reply.val} ELSE @]
  BY DEF ParticipantStep1
<1> DEFINE res == InitialNext(pst[p].st, params, random)
           call == Transition(pst[p], "Initial", res)
<1>2. /\ UNCHANGED <<pmsg2, sessions>>
      /\ pst' = [pst EXCEPT ![p] = call.state]
      /\ pmsg1' = [pmsg1 EXCEPT ![p] = IF call.reply.ok THEN @ \cup {call.reply.val} ELSE @]
  BY <1>1 DEF ParticipantStep1, cvars
<1>3. \/ /\ call.reply.ok /\ res.ok /\ pst[p].phase = "Initial"
         /\ call.state = Driver(res.phase, res.st) /\ call.reply.val = res.out
      \/ ~ call.reply.ok /\ (call.state = pst[p] \/ call.state.phase = "Failed")
  BY TransitionCases
<1>4. ASSUME res.ok PROVE res.phase = "Step1" /\ res.st.pubnonce = res.out.pubnonce
  BY <1>4, InitialNextKeeps
<1> HIDE DEF call, res
<1>5. pst'[p] = call.state
  BY <1>2 DEF TypeOK
<1>6. NonceAccount(SentNonces(p)', pmsg2[p]', pst[p]', sessions[p]')
  <2>1. CASE call.reply.ok
    <3>1. call.state.phase = "Step1" /\ call.state.st.pubnonce = res.out.pubnonce
          /\ pst[p].phase = "Initial"
      BY <1>3, <1>4, <2>1 DEF Driver
    <3>2. pmsg1'[p] = pmsg1[p] \cup {res.out}
      BY <1>2, <1>3, <2>1 DEF TypeOK
    <3>3. SentNonces(p)' = SentNonces(p) \cup {call.state.st.pubnonce}
      BY <3>1, <3>2 DEF SentNonces
    <3>4. NonceAccount(SentNonces(p) \cup {call.state.st.pubnonce}, pmsg2[p], call.state,
                       sessions[p])
      BY <3>1, OwnAccount, AccountSends
    <3> QED
      BY <1>2, <1>5, <3>3, <3>4
  <2>2. CASE ~ call.reply.ok
    <3>1. pmsg1'[p] = pmsg1[p]
      BY <1>2, <2>2 DEF TypeOK
    <3>2. SentNonces(p)' = SentNonces(p)
      BY <3>1 DEF SentNonces
    <3>3. NonceAccount(SentNonces(p), pmsg2[p], call.state, sessions[p])
      <4>1. CASE call.state.phase = "Failed"
        BY <4>1, OwnAccount, AccountEnds
      <4> QED
        BY <1>3, <2>2, <4>1, OwnAccount
    <3> QED
      BY <1>2, <1>5, <3>2, <3>3
  <2> QED
    BY <2>1, <2>2
<1> QED
  BY <1>2, <1>6, NonceInvKept DEF TypeOK

LEMMA NonceInvStep2 ==
    ASSUME TypeOK, NonceInv, NEW p \in Honest, ParticipantStep2(p) PROVE NonceInv'
<1>1. PICK msg \in DeliverableCmsg1 :
         LET call == Transition(pst[p], "Step1", Step1Next(pst[p].st, msg))
         IN  /\ pst' = [pst EXCEPT ![p] = call.state]
             /\ pmsg2' = [pmsg2 EXCEPT ![p] =
                            IF call.reply.ok THEN @ \cup {call.reply.val} ELSE @]
  BY DEF ParticipantStep2
<1> DEFINE st == pst[p].st
           res == Step1Next(st, msg)
           call == Transition(pst[p], "Step1", res)
<1>2. /\ UNCHANGED <<pmsg1, sessions>>
      /\ pst' = [pst EXCEPT ![p] = call.state]
      /\ pmsg2' = [pmsg2 EXCEPT ![p] = IF call.reply.ok THEN @ \cup {call.reply.val} ELSE @]
  BY <1>1 DEF ParticipantStep2, cvars
<1>3. \/ /\ call.reply.ok /\ res.ok /\ pst[p].phase = "Step1"
         /\ call.state = Driver(res.phase, res.st) /\ call.reply.val = res.out
      \/ ~ call.reply.ok /\ (call.state = pst[p] \/ call.state.phase = "Failed")
  BY TransitionCases
<1>4. ASSUME res.ok, pst[p].phase = "Step1"
      PROVE  /\ res.phase = "Step2"
             /\ res.out.transcript.pubnonces[res.out.idx] = st.pubnonce
  <2>1. st.host_pubkeys \in Seq(Scalar)
    BY <1>4 DEF TypeOK, ParticipantDriver, NewParticipant, Driver
  <2> QED
    BY <1>4, <2>1, Step1NextOk, Step1NextOwnNonce
<1> HIDE DEF call, res
<1>5. pst'[p] = call.state /\ SentNonces(p)' = SentNonces(p)
  BY <1>2 DEF TypeOK, SentNonces
<1>6. NonceAccount(SentNonces(p)', pmsg2[p]', pst[p]', sessions[p]')
  <2>1. CASE call.reply.ok
    <3>1. /\ call.state.phase = "Step2" /\ pst[p].phase = "Step1"
          /\ res.out.transcript.pubnonces[res.out.idx] = pst[p].st.pubnonce
      BY <1>3, <1>4, <2>1 DEF Driver
    <3>2. pmsg2'[p] = pmsg2[p] \cup {res.out}
      BY <1>2, <1>3, <2>1 DEF TypeOK
    <3>3. NonceAccount(SentNonces(p), pmsg2[p] \cup {res.out}, call.state, sessions[p])
      BY <3>1, OwnAccount, AccountSigns
    <3> QED
      BY <1>2, <1>5, <3>2, <3>3
  <2>2. CASE ~ call.reply.ok
    <3>1. pmsg2'[p] = pmsg2[p]
      BY <1>2, <2>2 DEF TypeOK
    <3>2. NonceAccount(SentNonces(p), pmsg2[p], call.state, sessions[p])
      <4>1. CASE call.state.phase = "Failed"
        BY <4>1, OwnAccount, AccountEnds
      <4> QED
        BY <1>3, <2>2, <4>1, OwnAccount
    <3> QED
      BY <1>2, <1>5, <3>1, <3>2
  <2> QED
    BY <2>1, <2>2
<1> QED
  BY <1>2, <1>6, NonceInvKept DEF TypeOK

LEMMA NonceInvFinalize ==
    ASSUME TypeOK, NonceInv, NEW p \in Honest, ParticipantFinalize(p) PROVE NonceInv'
<1>1. PICK cert \in DeliverableCerts :
         pst' = [pst EXCEPT ![p] =
                   Transition(pst[p], "Step2", Step2Next(pst[p].st, cert)).state]
  BY DEF ParticipantFinalize
<1> DEFINE res == Step2Next(pst[p].st, cert)
           call == Transition(pst[p], "Step2", res)
<1>2. \/ call.state = pst[p] \/ call.state.phase = "Failed"
      \/ res.ok /\ call.state = Driver(res.phase, res.st)
  BY TransitionCases
<1>3. res.ok => res.phase = "Successful"
  BY Step2NextOk
<1>4. pst' = [pst EXCEPT ![p] = call.state] /\ UNCHANGED <<pmsg1, pmsg2, sessions>>
  BY <1>1 DEF ParticipantFinalize
<1> HIDE DEF call, res
<1>5. call.state = pst[p] \/ call.state.phase \in {"Failed", "Successful"}
  BY <1>2, <1>3 DEF Driver
<1>6. pst'[p] = call.state /\ SentNonces(p)' = SentNonces(p)
  BY <1>4 DEF TypeOK, SentNonces
<1>7. NonceAccount(SentNonces(p), pmsg2[p], call.state, sessions[p])
  <2>1. CASE call.state.phase \in {"Failed", "Successful"}
    BY <2>1, OwnAccount, AccountEnds
  <2> QED
    BY <1>5, <2>1, OwnAccount
<1> QED
  BY <1>4, <1>6, <1>7, NonceInvKept DEF TypeOK

LEMMA NonceInvRestart ==
    ASSUME TypeOK, DriversFaithful, NonceInv, NEW p \in Honest, ParticipantRestart(p)
    PROVE  NonceInv'
<1>1. PICK driver \in {NewParticipant(p)} \cup copies[p] : pst' = [pst EXCEPT ![p] = driver]
  BY DEF ParticipantRestart
<1>2. UNCHANGED <<pmsg1, pmsg2>> /\ sessions' = [sessions EXCEPT ![p] = @ + 1]
  BY DEF ParticipantRestart
<1>3. NextNonce(driver) \subseteq SentNonces(p)
  <2>1. CASE driver \in copies[p]
    BY <2>1 DEF DriversFaithful, Faithful, NextNonce
  <2>2. CASE driver = NewParticipant(p)
    BY <2>2 DEF NewParticipant, Driver, NextNonce
  <2> QED
    BY <1>1, <2>1, <2>2
<1>4. NonceAccount(SentNonces(p), pmsg2[p], driver, sessions[p] + 1)
  BY <1>3, OwnAccount, AccountReopens
<1>5. pst'[p] = driver /\ SentNonces(p)' = SentNonces(p) /\ sessions'[p] = sessions[p] + 1
  BY <1>1, <1>2 DEF TypeOK, SentNonces
<1>6. NonceAccount(SentNonces(p)', pmsg2[p]', pst[p]', sessions[p]')
  BY <1>2, <1>4, <1>5
<1> QED
  BY <1>1, <1>2, <1>6, NonceInvKept DEF TypeOK

LEMMA NonceInvStep ==
    TypeOK /\ OutputInv /\ NonceInv /\ [Next]_vars => NonceInv'
<1> SUFFICES ASSUME TypeOK, OutputInv, NonceInv, [Next]_vars PROVE NonceInv'
  OBVIOUS
<1>1. ASSUME UNCHANGED <<pst, pmsg1, pmsg2, sessions>> PROVE NonceInv'
  BY <1>1 DEF NonceInv, SentNonces
<1>2. CASE UNCHANGED vars
  BY <1>1, <1>2 DEF vars
<1>3. ASSUME NEW p \in Honest, ParticipantRecover(p) \/ ParticipantClone(p) PROVE NonceInv'
  BY <1>1, <1>3 DEF ParticipantRecover, ParticipantClone
<1>4. CASE CoordinatorCall
  BY <1>1, <1>4 DEF CoordinatorCall, CoordinatorCreate, CoordinatorStep1, CoordinatorStep2,
                    CoordinatorRecovers, pvars
<1> QED
  BY <1>2, <1>3, <1>4, NonceInvStep1, NonceInvStep2, NonceInvFinalize, NonceInvRestart
     DEF Next, Progress, ParticipantCall, OutputInv

(***************************************************************************)
(* A party whose sessions all drew nonces of their own signs at most one   *)
(* transcript with each of them, clones and restarts included: a driver is *)
(* spent by its signature, and signs only with the nonce that it has sent. *)
(***************************************************************************)
THEOREM NoncesSignOnce == Spec => []ContributionSignedOnce
<1>1. Init => TypeOK /\ OutputInv /\ NonceInv
  BY TypeOKInit, OutputInvInit, NonceInvInit
<1>2. TypeOK /\ OutputInv /\ NonceInv /\ [Next]_vars => (TypeOK /\ OutputInv /\ NonceInv)'
  BY TypeOKStep, OutputInvStep, NonceInvStep
<1>3. NonceInv => ContributionSignedOnce
  <2> SUFFICES ASSUME NonceInv, NEW p \in Honest, Cardinality(SentNonces(p)) = sessions[p],
                      NEW sig1 \in pmsg2[p], NEW sig2 \in pmsg2[p],
                      sig1.transcript.pubnonces[sig1.idx] = sig2.transcript.pubnonces[sig2.idx]
               PROVE  sig1 = sig2
    BY DEF ContributionSignedOnce, SentNonces
  <2> QED
    BY OwnAccount, AccountFull
<1> QED
  BY <1>1, <1>2, <1>3, PTL DEF Spec
=============================================================================
