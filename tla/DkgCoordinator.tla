--------------------------- MODULE DkgCoordinator --------------------------
(***************************************************************************)
(* The coordinator's side of a ChillDKG session as functions:              *)
(* src/dkg/coordinator/mod.rs, transitions.rs and recovery.rs.  It holds   *)
(* no secret.                                                              *)
(***************************************************************************)
EXTENDS DkgParty

(***************************************************************************)
(* CoordinatorInitialState::new.                                           *)
(***************************************************************************)
CoordinatorNew(params) ==
    LET valid == ValidatePublicSessionParams(params.host_pubkeys, params.t)
    IN  IF valid.ok THEN Advance("Initial", params, valid.val) ELSE valid

(***************************************************************************)
(* The first message, by position, with a wrong number of commitments or   *)
(* shares, or with the identity for its nonce or a commitment.             *)
(***************************************************************************)
ValidateParticipantMsg1(st, msgs) ==
    LET n   == Len(st.host_pubkeys)
        bad == {i \in 1 .. Len(msgs) :
                   \/ Len(msgs[i].commitment) # st.t
                   \/ Len(msgs[i].enc_shares) # n
                   \/ msgs[i].pubnonce = Identity
                   \/ \E k \in DOMAIN msgs[i].commitment :
                         msgs[i].commitment[k] = Identity}
    IN  IF Len(msgs) # n THEN Err(Error("Value"))
        ELSE IF bad # {} THEN Err(Naming("FaultyParticipant", Min(bad)))
        ELSE Ok(n)

(***************************************************************************)
(* CoordinatorInitialState::next: the messages aggregated field by field.  *)
(* Proofs of possession pass through unchecked.                            *)
(***************************************************************************)
CoordinatorInitialNext(st, msgs) ==
    LET n          == Len(st.host_pubkeys)
        valid      == ValidateParticipantMsg1(st, msgs)
        sum        == [k \in 1 .. st.t |->
                          SumMod([i \in 1 .. n |-> msgs[i].commitment[k]])]
        out        == [coms_to_secrets |-> [i \in 1 .. n |-> msgs[i].commitment[1]],
                       sum_coms_to_nonconst_terms |-> Tail(sum),
                       pops |-> [i \in 1 .. n |-> msgs[i].pop],
                       pubnonces |-> [i \in 1 .. n |-> msgs[i].pubnonce],
                       enc_secshares |-> [j \in 1 .. n |->
                           SumMod([i \in 1 .. n |-> msgs[i].enc_shares[j]])]]
        tweak      == TapTweakNoScript(sum[1])
        tweaked    == TweakCommitment(sum, tweak.val)
    IN  IF ~valid.ok THEN valid
        ELSE IF ~tweak.ok THEN tweak
        ELSE Advance("Step1",
                 [t |-> st.t, host_pubkeys |-> st.host_pubkeys,
                  transcript |-> Transcript(st.t, sum, st.host_pubkeys,
                                            out.pubnonces, out.enc_secshares),
                  dkg_output |->
                    [t |-> st.t, threshold_pubkey |-> tweaked[1],
                     pubshares |-> [i \in 1 .. n |-> EvalPubShare(tweaked, i)]]],
                 out)

(***************************************************************************)
(* CoordinatorStep1State::next: a signature that does not verify is blamed *)
(* on the participant whose place it takes.                                *)
(***************************************************************************)
CoordinatorStep1Next(st, sigs) ==
    LET verified == VerifyCertificate(st.transcript, sigs)
    IN  IF Len(sigs) # Len(st.host_pubkeys) THEN Err(Error("Value"))
        ELSE IF ~verified.ok
        THEN IF verified.err.kind = "InvalidCertificateSignature"
             THEN Err(Naming("FaultyParticipant", verified.err.who))
             ELSE Err(FromCryptoError(verified.err))
        ELSE Finish([cert     |-> sigs,
                     output   |-> st.dkg_output,
                     recovery |-> [transcript |-> st.transcript, cert |-> sigs]])

(***************************************************************************)
(* Mutant: the recovered key lacks the tap tweak.                          *)
(***************************************************************************)
CoordinatorRecoverUntweaked(recovery) ==
    LET T == recovery.transcript
    IN  IF ~VerifyCertificate(T, recovery.cert).ok
        THEN Err(Error("RecoveryData"))
        ELSE Ok([t |-> T.t, threshold_pubkey |-> T.sum_commitment[1],
                 pubshares |-> [i \in 1 .. Len(T.host_pubkeys) |->
                                    EvalPubShare(T.sum_commitment, i)]])

(***************************************************************************)
(* Coordinator::recover: the public output from the recovery data alone.   *)
(***************************************************************************)
CoordinatorRecover(recovery) ==
    LET T       == recovery.transcript
        tweak   == TapTweakNoScript(T.sum_commitment[1])
        tweaked == TweakCommitment(T.sum_commitment, tweak.val)
    IN  IF \/ ~CoordinatorNew([host_pubkeys |-> T.host_pubkeys, t |-> T.t]).ok
           \/ ~VerifyCertificate(T, recovery.cert).ok
        THEN Err(Error("RecoveryData"))
        ELSE IF ~tweak.ok THEN tweak
        ELSE Ok([t |-> T.t, threshold_pubkey |-> tweaked[1],
                 pubshares |-> [i \in 1 .. Len(T.host_pubkeys) |->
                                    EvalPubShare(tweaked, i)]])
=============================================================================
