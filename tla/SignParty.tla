------------------------------ MODULE SignParty ----------------------------
(***************************************************************************)
(* The signer's side of a FROST session as functions: PartialSign of       *)
(* src/sign/party/sign.rs and the `next` of each state in src/sign/party/  *)
(* transitions.rs.  A value the caller may leave out is a set of at most   *)
(* one element.                                                            *)
(***************************************************************************)
EXTENDS FrostCrypto

(***************************************************************************)
(* SignerInitialState, from the DKG output of participant id.              *)
(***************************************************************************)
SignerInitialState(id, t, secshare, pubshares, threshold_pubkey) ==
    [id |-> id, t |-> t, secshare |-> secshare, pubshares |-> pubshares,
     threshold_pubkey |-> threshold_pubkey]

(***************************************************************************)
(* The key a nonce is made for: the tweaked key, if tweaks are given.      *)
(***************************************************************************)
NonceKey(threshold_pubkey, tweaks) ==
    IF tweaks = {} THEN Ok(threshold_pubkey)
    ELSE SigningPubkey(threshold_pubkey, CHOOSE ts \in tweaks : TRUE)

(***************************************************************************)
(* Mutant of SignerInitialNext: the tweaked key is kept, to be tweaked     *)
(* again at round 2.                                                       *)
(***************************************************************************)
SignerInitialNextTweaked(st, msg, tweaks, random) ==
    LET key == NonceKey(st.threshold_pubkey, tweaks)
        k   == SampleNonce(random, st.secshare, st.id, MulG(st.secshare), key.val, msg)
    IN  IF ~key.ok THEN key
        ELSE IF ~k.ok THEN k
        ELSE Advance("Step1",
                 [msg |-> msg, tweaks |-> tweaks, secnonce |-> k.val]
                    @@ [st EXCEPT !.threshold_pubkey = key.val],
                 [id |-> st.id, nonce |-> PubNonce(k.val)])

(***************************************************************************)
(* SignerInitialState::next: the nonce is derived from what is bound to it *)
(* and from the key it will sign under.                                    *)
(***************************************************************************)
SignerInitialNext(st, msg, tweaks, random) ==
    LET key == NonceKey(st.threshold_pubkey, tweaks)
        k   == SampleNonce(random, st.secshare, st.id, MulG(st.secshare), key.val, msg)
    IN  IF st.id \notin 1 .. Len(st.pubshares) THEN Err(Error("Value"))
        ELSE IF ~key.ok THEN key
        ELSE IF ~k.ok THEN k
        ELSE Advance("Step1",
                 [id |-> st.id, t |-> st.t, secshare |-> st.secshare,
                  pubshares |-> st.pubshares,
                  threshold_pubkey |-> st.threshold_pubkey,
                  msg |-> msg, tweaks |-> tweaks, secnonce |-> k.val],
                 [id |-> st.id, nonce |-> PubNonce(k.val)])

(***************************************************************************)
(* The answer of a signer whose Lagrange coefficient is a: both nonces are *)
(* negated with the final nonce, and the share with the tweaked key.       *)
(***************************************************************************)
PartialSignature(st, a, v) ==
    LET k == EvenYNonce(st.secnonce, v.R)
        d == Times(Times(EvenSign(v.ctx), v.ctx.gacc), st.secshare)
    IN  (k.k1 + Times(v.b, k.k2) + Times(Times(v.e, a), d)) % Order

SelfChecked(st, s, v) ==
    IF PartialVerify(s, st.id, PubNonce(st.secnonce), MulG(st.secshare), v).ok
    THEN Ok(s) ELSE Err(Error("Runtime"))

(***************************************************************************)
(* partial_sign: the session is validated, then the secrets, then the      *)
(* result is checked as the coordinator will.  Nothing asks that the       *)
(* signer's own nonce be in the list.                                      *)
(***************************************************************************)
PartialSign(st, list, msg, tweaks) ==
    LET valid == ValidateSigners(st.t, st.pubshares, st.threshold_pubkey, IdsOf(list))
        v     == SessionValues(st.threshold_pubkey, list, msg, tweaks)
        a     == LagrangeCoefficient(IdsOf(list), st.id)
    IN  IF ~valid.ok THEN valid
        ELSE IF ~v.ok THEN v
        ELSE IF st.secnonce.k1 = 0 \/ st.secnonce.k2 = 0 \/ st.secshare = 0
        THEN Err(Error("Value"))
        ELSE IF ~a.ok THEN a
        ELSE IF MulG(st.secshare) # st.pubshares[st.id] THEN Err(Error("Value"))
        ELSE SelfChecked(st, PartialSignature(st, a.val, v.val), v.val)

Answer(id, s) == IF ~s.ok THEN s ELSE Finish([id |-> id, psig |-> s.val])

(***************************************************************************)
(* Mutant of SignerStep1Next: what the nonce was bound to is forgotten.    *)
(***************************************************************************)
SignerStep1NextUnbound(st, list, msg, tweaks) ==
    Answer(st.id, PartialSign(st, list, msg, tweaks))

(***************************************************************************)
(* SignerStep1State::next: only the message and the tweaks that the nonce  *)
(* was bound to, if it was, are signed.                                    *)
(***************************************************************************)
SignerStep1Next(st, list, msg, tweaks) ==
    IF st.msg \notin {{}, {msg}} \/ st.tweaks \notin {{}, {tweaks}}
    THEN Err(Error("Value"))
    ELSE Answer(st.id, PartialSign(st, list, msg, tweaks))
=============================================================================
