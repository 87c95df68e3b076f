----------------------------- MODULE DkgParty ------------------------------
(***************************************************************************)
(* The participant's side of a ChillDKG session as functions: the          *)
(* validations of src/dkg/party/mod.rs, the `next` of each state in        *)
(* src/dkg/party/transitions.rs, and src/dkg/party/recovery.rs.            *)
(* Session parameters are a record [host_pubkeys, t].                      *)
(***************************************************************************)
EXTENDS DkgCrypto

(***************************************************************************)
(* Mutant: only the keys are checked.                                      *)
(***************************************************************************)
ValidateKeysOnly(keys, t) ==
    IF \E i, j \in DOMAIN keys : i # j /\ keys[i] = keys[j]
    THEN Err(Error("DuplicateHostPubkey"))
    ELSE IF t = 0 THEN Err(Error("ThresholdOrCount"))
    ELSE Ok(Len(keys))

(***************************************************************************)
(* The threshold and count are checked first, then the keys in order: a    *)
(* key is bad when it is the identity or occurs again later, and the first *)
(* of its later places is named with it.  n fits in 32 bits for every list *)
(* TLC can enumerate.                                                      *)
(***************************************************************************)
ValidatePublicSessionParams(keys, t) ==
    LET n         == Len(keys)
        repeat(i) == {j \in (i + 1) .. n : keys[i] = keys[j]}
        bad       == {i \in 1 .. n : keys[i] = Identity \/ repeat(i) # {}}
    IN  IF ~(1 <= t /\ t <= n) THEN Err(Error("ThresholdOrCount"))
        ELSE IF bad = {} THEN Ok(n)
        ELSE IF keys[Min(bad)] = Identity
        THEN Err(Naming("InvalidHostPubkey", Min(bad)))
        ELSE Err(NamingBoth("DuplicateHostPubkey", Min(bad), Min(repeat(Min(bad)))))

(***************************************************************************)
(* The caller's position among the host keys.                              *)
(***************************************************************************)
ValidateSessionParams(s, keys, t) ==
    LET public == ValidatePublicSessionParams(keys, t)
        mine   == {i \in 1 .. Len(keys) : keys[i] = MulG(s)}
    IN  IF ~public.ok THEN public
        ELSE IF mine = {} THEN Err(Error("HostSeckey"))
        ELSE Ok(Min(mine))

-----------------------------------------------------------------------------
(***************************************************************************)
(* ParticipantInitialState::next.                                          *)
(***************************************************************************)
InitialNext(st, params, random) ==
    LET position   == ValidateSessionParams(st.s, params.host_pubkeys, params.t)
        idx        == position.val
        context    == EncContext(params.t, params.host_pubkeys)
        seed       == Seed(st.s, random, context)
        r          == NonceHash(seed)
        coeffs     == Coefficients(seed, params.t)
        commitment == Commit(coeffs)
        pop        == PopSign(coeffs[1], idx)
        shares     == EvalShares(coeffs, Len(params.host_pubkeys))
    IN  IF ~position.ok THEN position
        ELSE IF r = 0 THEN Err(Error("Runtime"))
        ELSE IF ~pop.ok THEN pop
        ELSE Advance("Step1",
                 [idx |-> idx, t |-> params.t, s |-> st.s,
                  host_pubkeys |-> params.host_pubkeys,
                  pubnonce |-> MulG(r), com_to_secret |-> commitment[1]],
                 [commitment |-> commitment, pop |-> pop.val, pubnonce |-> MulG(r),
                  enc_shares |-> Encrypt(r, st.s, params.host_pubkeys, context,
                                         idx, shares)])

-----------------------------------------------------------------------------
(***************************************************************************)
(* Mutant: the coordinator's echo is not compared.                         *)
(***************************************************************************)
ValidateShapeOnly(st, msg) ==
    IF \/ Len(msg.coms_to_secrets) # Len(st.host_pubkeys)
       \/ Len(msg.sum_coms_to_nonconst_terms) # st.t - 1
       \/ Len(msg.pops) # Len(st.host_pubkeys)
       \/ Len(msg.pubnonces) # Len(st.host_pubkeys)
       \/ Len(msg.enc_secshares) # Len(st.host_pubkeys)
    THEN Err(Error("FaultyCoordinator"))
    ELSE Ok(Len(msg.pops))

(***************************************************************************)
(* Mutant: only the coordinator's echo of the nonce is compared.           *)
(***************************************************************************)
ValidateNonceEcho(st, msg) ==
    IF ~ValidateShapeOnly(st, msg).ok \/ msg.pubnonces[st.idx] # st.pubnonce
    THEN Err(Error("FaultyCoordinator"))
    ELSE Ok(Len(msg.pops))

(***************************************************************************)
(* The shape of the coordinator's message, its echo of this party's nonce  *)
(* and commitment, and the other nonces, in the order they are checked.    *)
(***************************************************************************)
ValidateCoordinatorMsg1(st, msg) ==
    LET n        == Len(st.host_pubkeys)
        identity == {i \in 1 .. n : msg.pubnonces[i] = Identity}
    IN  IF \/ st.t < 1
           \/ Len(msg.coms_to_secrets) # n
           \/ Len(msg.sum_coms_to_nonconst_terms) # st.t - 1
           \/ Len(msg.pops) # n
           \/ Len(msg.pubnonces) # n
           \/ Len(msg.enc_secshares) # n
           \/ msg.pubnonces[st.idx] # st.pubnonce
        THEN Err(Error("FaultyCoordinator"))
        ELSE IF identity # {}
        THEN Err(Naming("FaultyParticipantOrCoordinator", Min(identity)))
        ELSE IF msg.coms_to_secrets[st.idx] # st.com_to_secret
        THEN Err(Error("FaultyCoordinator"))
        ELSE Ok(n)

(***************************************************************************)
(* Mutant: the proofs of the others verified for the verifier's index.     *)
(***************************************************************************)
UnprovenForOwnIndex(st, msg) ==
    {i \in 1 .. Len(st.host_pubkeys) :
        i # st.idx /\ ~PopVerify(msg.coms_to_secrets[i], st.idx, msg.pops[i])}

(***************************************************************************)
(* Mutant: a proof verifies for any index.                                 *)
(***************************************************************************)
UnprovenForAnyIndex(st, msg) ==
    {i \in 1 .. Len(st.host_pubkeys) :
        i # st.idx /\ msg.pops[i].key # XOnly(msg.coms_to_secrets[i])}

(***************************************************************************)
(* The other parties whose commitment is the identity or comes without a   *)
(* proof of possession.                                                    *)
(***************************************************************************)
Unproven(st, msg) ==
    {i \in 1 .. Len(st.host_pubkeys) :
        /\ i # st.idx
        /\ \/ msg.coms_to_secrets[i] = Identity
           \/ ~PopVerify(msg.coms_to_secrets[i], i, msg.pops[i])}

SumCommitment(msg) ==
    <<SumMod(msg.coms_to_secrets)>> \o msg.sum_coms_to_nonconst_terms

(***************************************************************************)
(* Mutant: every share is taken for a good one.                            *)
(***************************************************************************)
ShareUnchecked(secshare, commitment, i) == Len(commitment) > 0

(***************************************************************************)
(* The secret share of party i matches its public share.                   *)
(***************************************************************************)
ShareMatches(secshare, commitment, i) ==
    MulG(secshare) = EvalPubShare(commitment, i)

(***************************************************************************)
(* ParticipantStep1State::next: the decrypted share, moved by the tap      *)
(* tweak, must match the public share; the transcript holds the commitment *)
(* before the tweak.                                                       *)
(***************************************************************************)
Step1Next(st, msg) ==
    LET valid      == ValidateCoordinatorMsg1(st, msg)
        unproven   == Unproven(st, msg)
        decrypted  == Decrypt(st.s, msg.pubnonces, EncContext(st.t, st.host_pubkeys),
                              st.idx, msg.enc_secshares[st.idx])
        sum        == SumCommitment(msg)
        tweak      == TapTweakNoScript(sum[1])
        tweaked    == TweakCommitment(sum, tweak.val)
        secshare   == (decrypted.val + tweak.val) % Order
        transcript == Transcript(st.t, sum, st.host_pubkeys, msg.pubnonces,
                                 msg.enc_secshares)
        sig        == CertEqSign(st.s, transcript, st.idx)
    IN  IF ~valid.ok THEN valid
        ELSE IF unproven # {}
        THEN Err(Naming("FaultyParticipantOrCoordinator", Min(unproven)))
        ELSE IF ~decrypted.ok THEN decrypted
        ELSE IF ~tweak.ok THEN tweak
        ELSE IF ~ShareMatches(secshare, tweaked, st.idx)
        THEN Err(Error("UnknownFaultyParticipantOrCoordinator"))
        ELSE IF ~sig.ok THEN sig
        ELSE Advance("Step2",
                 [transcript |-> transcript,
                  dkg_output |->
                    [idx |-> st.idx, t |-> st.t, secshare |-> secshare,
                     threshold_pubkey |-> tweaked[1],
                     pubshares |-> [i \in 1 .. Len(st.host_pubkeys) |->
                                        EvalPubShare(tweaked, i)]]],
                 sig.val)

-----------------------------------------------------------------------------
(***************************************************************************)
(* ParticipantStep2State::next.                                            *)
(***************************************************************************)
Step2Next(st, cert) ==
    LET verified == VerifyCertificate(st.transcript, cert)
    IN  IF ~verified.ok
        THEN Err(FromCryptoError(verified.err))
        ELSE Finish([output   |-> st.dkg_output,
                     recovery |-> [transcript |-> st.transcript, cert |-> cert]])

-----------------------------------------------------------------------------
(***************************************************************************)
(* Participant::recover: the output rebuilt from the host secret key and   *)
(* the recovery data alone.  Every rejection but a missing key, a tweak of *)
(* the identity and a short nonce list is reported as RecoveryData.        *)
(***************************************************************************)
PartyRecover(s, recovery) ==
    LET T         == recovery.transcript
        position  == ValidateSessionParams(s, T.host_pubkeys, T.t)
        idx       == position.val
        tweak     == TapTweakNoScript(T.sum_commitment[1])
        tweaked   == TweakCommitment(T.sum_commitment, tweak.val)
        pubshares == [i \in 1 .. Len(T.host_pubkeys) |-> EvalPubShare(tweaked, i)]
        decrypted == Decrypt(s, T.pubnonces, EncContext(T.t, T.host_pubkeys), idx,
                             T.enc_secshares[idx])
        secshare  == (decrypted.val + tweak.val) % Order
    IN  IF ~position.ok
        THEN IF position.err.kind = "HostSeckey" THEN position
                                                 ELSE Err(Error("RecoveryData"))
        ELSE IF ~VerifyCertificate(T, recovery.cert).ok
        THEN Err(Error("RecoveryData"))
        ELSE IF ~tweak.ok THEN tweak
        ELSE IF ~decrypted.ok THEN decrypted
        ELSE IF MulG(secshare) # pubshares[idx]
        THEN Err(Error("RecoveryData"))
        ELSE Ok([idx |-> idx, t |-> T.t, secshare |-> secshare,
                 threshold_pubkey |-> tweaked[1], pubshares |-> pubshares])
=============================================================================
