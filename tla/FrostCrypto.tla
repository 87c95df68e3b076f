----------------------------- MODULE FrostCrypto ---------------------------
(***************************************************************************)
(* The arithmetic of a FROST signing session: the stateless functions of   *)
(* src/sign/coordinator/verify.rs and the nonces of src/sign/party/        *)
(* nonce.rs.  Participant ids are evaluation points (the code's id + 1).   *)
(* A list of contributions is a sequence of records [id, nonce], and a     *)
(* request is what is to be signed, [msg, tweaks].                         *)
(***************************************************************************)
EXTENDS Lagrange, Tweak

CONSTANTS
    MaxParticipants,                    \* MAX_PARTICIPANTS
    FrostNonceHash(_, _, _, _, _, _),   \* rand, id, pubshare, x of the key, msg, i
    NonceCoefHash(_, _, _, _, _),       \* sorted ids, R1, R2, x of the key, msg
    ChallengeHash(_, _, _)              \* x of R, x of the key, msg

ASSUME MaxParticipantsAssumption == MaxParticipants \in Nat /\ MaxParticipants < Order

IdsOf(list) == [k \in DOMAIN list |-> list[k].id]

NoncesOf(list) == [k \in DOMAIN list |-> list[k].nonce]

-----------------------------------------------------------------------------
(* src/sign/party/nonce.rs *)

PubNonce(k) == [R1 |-> MulG(k.k1), R2 |-> MulG(k.k2)]

IsIdentity(pubnonce) == pubnonce.R1 = Identity \/ pubnonce.R2 = Identity

EvenYNonce(k, R) ==
    IF HasEvenY(R) THEN k ELSE [k1 |-> Neg(k.k1), k2 |-> Neg(k.k2)]

(***************************************************************************)
(* The randomness is masked with the secret share; msg is optional: a set  *)
(* of at most one message.  No caller in this repository gives an extra    *)
(* input, and the signer always gives the other ones.                      *)
(***************************************************************************)
SampleNonce(rand, secshare, id, pubshare, key, msg) ==
    LET Half(i) == FrostNonceHash(<<rand, secshare>>, id, pubshare, XOnly(key), msg, i)
        k       == [k1 |-> Half(0), k2 |-> Half(1)]
    IN  IF k.k1 = 0 \/ k.k2 = 0 THEN Err(Error("Runtime")) ELSE Ok(k)

-----------------------------------------------------------------------------
(* src/sign/coordinator/verify.rs *)

(***************************************************************************)
(* The ids are refused one by one, then as a set, then for their public    *)
(* shares: all with the same error.                                        *)
(***************************************************************************)
ValidateSigners(t, pubshares, threshold_pubkey, ids) ==
    LET n == Len(pubshares)
    IN  IF \/ ~(1 <= t /\ t <= n)
           \/ n > MaxParticipants
           \/ ~(t <= Len(ids) /\ Len(ids) <= n)
           \/ \E k \in DOMAIN ids : ids[k] \notin 1 .. n
           \/ \E k \in DOMAIN ids : pubshares[ids[k]] = Identity
           \/ ~IsInjective(ids)
           \/ InterpolatePubkey(ids, [k \in DOMAIN ids |-> pubshares[ids[k]]])
                # Ok(threshold_pubkey)
        THEN Err(Error("Value"))
        ELSE Ok(n)

SigningPubkey(threshold_pubkey, tweaks) ==
    LET res == TweakApplyAll(TweakContext(threshold_pubkey), tweaks)
    IN  IF res.ok THEN Ok(res.val.q) ELSE res

AggrPubnonces(pubnonces) ==
    [R1 |-> SumMod([k \in DOMAIN pubnonces |-> pubnonces[k].R1]),
     R2 |-> SumMod([k \in DOMAIN pubnonces |-> pubnonces[k].R2])]

(***************************************************************************)
(* The ids in ascending order: the one at position k is greater than k - 1 *)
(* of them.                                                                *)
(***************************************************************************)
Rank(S, id) == Cardinality({i \in S : i <= id})

Sorted(ids) ==
    [k \in 1 .. Cardinality(Range(ids)) |->
        CHOOSE id \in Range(ids) : Rank(Range(ids), id) = k]

(***************************************************************************)
(* The nonce coefficient b and the final nonce R, the generator standing   *)
(* in for the identity.                                                    *)
(***************************************************************************)
SigningNonce(ids, aggnonce, ctx, msg) ==
    LET b == NonceCoefHash(Sorted(ids), aggnonce.R1, aggnonce.R2, XOnly(ctx.q), msg)
        R == (aggnonce.R1 + Times(aggnonce.R2, b)) % Order
    IN  IF b = 0 THEN Err(Error("Runtime"))
        ELSE Ok([b |-> b, R |-> IF R = Identity THEN MulG(1) ELSE R])

Challenge(R, ctx, msg) ==
    LET e == ChallengeHash(XOnly(R), XOnly(ctx.q), msg)
    IN  IF e = 0 THEN Err(Error("Runtime")) ELSE Ok(e)

(***************************************************************************)
(* What a list of contributions and a request determine for everybody: the *)
(* tweak context, b, R and e.                                              *)
(***************************************************************************)
ValuesUnder(ctx, list, msg) ==
    LET nonce == SigningNonce(IdsOf(list), AggrPubnonces(NoncesOf(list)), ctx, msg)
        e     == Challenge(nonce.val.R, ctx, msg)
    IN  IF ~nonce.ok THEN nonce
        ELSE IF ~e.ok THEN e
        ELSE Ok([ids |-> IdsOf(list), ctx |-> ctx, b |-> nonce.val.b,
                 R |-> nonce.val.R, e |-> e.val])

SessionValues(threshold_pubkey, list, msg, tweaks) ==
    LET ctx == TweakApplyAll(TweakContext(threshold_pubkey), tweaks)
    IN  IF ~ctx.ok THEN ctx ELSE ValuesUnder(ctx.val, list, msg)

(***************************************************************************)
(* Mutant of PartialVerify: the parity of the final nonce is forgotten.    *)
(***************************************************************************)
PartialVerifyAnyParity(psig, id, pubnonce, pubshare, v) ==
    LET Re_s == (pubnonce.R1 + Times(pubnonce.R2, v.b)) % Order
        a    == LagrangeCoefficient(v.ids, id)
        g    == Times(EvenSign(v.ctx), v.ctx.gacc)
    IN  IF IsIdentity(pubnonce) THEN Err(Naming("InvalidContribution", id))
        ELSE IF ~a.ok THEN a
        ELSE IF MulG(psig) # (Re_s + Times(Times(v.e, a.val), Times(g, pubshare))) % Order
        THEN Err(Naming("InvalidContribution", id))
        ELSE Ok(id)

(***************************************************************************)
(* A partial signature answers for its signer's nonce and public share.    *)
(***************************************************************************)
PartialVerify(psig, id, pubnonce, pubshare, v) ==
    LET sum  == (pubnonce.R1 + Times(pubnonce.R2, v.b)) % Order
        Re_s == IF HasEvenY(v.R) THEN sum ELSE Neg(sum)
        a    == LagrangeCoefficient(v.ids, id)
        g    == Times(EvenSign(v.ctx), v.ctx.gacc)
    IN  IF IsIdentity(pubnonce) THEN Err(Naming("InvalidContribution", id))
        ELSE IF ~a.ok THEN a
        ELSE IF MulG(psig) # (Re_s + Times(Times(v.e, a.val), Times(g, pubshare))) % Order
        THEN Err(Naming("InvalidContribution", id))
        ELSE Ok(id)

(***************************************************************************)
(* Mutant of Combine: the tweaks' share of the secret is left out.         *)
(***************************************************************************)
CombineUntweaked(psigs, v) == [R |-> XOnly(v.R), s |-> SumMod(psigs)]

Combine(psigs, v) ==
    [R |-> XOnly(v.R),
     s |-> (SumMod(psigs) + Times(v.e, Times(EvenSign(v.ctx), v.ctx.tacc))) % Order]

(***************************************************************************)
(* BIP340 verification under the tweaked key (src/crypto/schnorr.rs): the  *)
(* nonce s * G - e * P must be an even point with the signature's x.       *)
(***************************************************************************)
SchnorrVerify(pubkey, sig, msg) ==
    LET e == ChallengeHash(sig.R, XOnly(pubkey), msg)
        R == (MulG(sig.s) + Neg(Times(e, EvenYPoint(pubkey)))) % Order
    IN  /\ pubkey # Identity
        /\ R # Identity
        /\ HasEvenY(R)
        /\ XOnly(R) = sig.R

VerifySignature(threshold_pubkey, sig, msg, tweaks) ==
    LET key == SigningPubkey(threshold_pubkey, tweaks)
    IN  IF ~key.ok THEN key
        ELSE IF ~SchnorrVerify(key.val, sig, msg) THEN Err(Error("Runtime"))
        ELSE Ok(sig)
=============================================================================
