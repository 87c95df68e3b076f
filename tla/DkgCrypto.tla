----------------------------- MODULE DkgCrypto -----------------------------
(***************************************************************************)
(* The cryptographic pieces a ChillDKG session is built from: the secret   *)
(* polynomial (src/crypto/poly.rs), the proof of possession (pop.rs), the  *)
(* multi-recipient encryption of shares (enc.rs) and the certificate of    *)
(* equality (certeq.rs).                                                   *)
(*                                                                         *)
(* Hash functions are constant operators.  A Schnorr signature is a record *)
(* of the key and the message it verifies for: a signature can be made     *)
(* only by a holder of the key and says nothing of any other message.      *)
(***************************************************************************)
EXTENDS Group

CONSTANTS
    NonceHash(_),               \* H("encpedpop secnonce", seed)
    CoeffHash(_, _),            \* H("vss coeffs", seed || k)
    PadHash(_, _, _, _),        \* H("encpedpop ecdh", ecdh || R || P || context)
    SelfPadHash(_, _, _)        \* H("encaps_multi self_pad", s || R || context)

EncContext(t, host_pubkeys) == <<t, host_pubkeys>>

Seed(s, random, context) == <<s, random, context>>

-----------------------------------------------------------------------------
(* src/crypto/poly.rs *)

Coefficients(seed, t) == [k \in 1 .. t |-> CoeffHash(seed, k - 1)]

Eval(coeffs, x) ==
    FoldRight(LAMBDA c, acc : (acc * x + c) % Order, coeffs, 0)

EvalShares(coeffs, n) == [j \in 1 .. n |-> Eval(coeffs, j)]

Commit(coeffs) == [k \in DOMAIN coeffs |-> MulG(coeffs[k])]

-----------------------------------------------------------------------------
(* src/crypto/pop.rs: a proof covers the x coordinate of the commitment    *)
(* and the index of the party that claims it.                              *)

Pop(key, i) == [key |-> key, idx |-> i]

NoPop == Pop(Identity, 0)

PopSign(a0, i) ==
    IF a0 = 0 THEN Err(Error("Runtime")) ELSE Ok(Pop(XOnly(MulG(a0)), i))

PopVerify(com, i, pop) == com # Identity /\ pop = Pop(XOnly(com), i)

-----------------------------------------------------------------------------
(* src/crypto/enc.rs: shares are hidden by additive pads.                  *)

Ecdh(P, s) == (P * s) % Order

SendPad(r, P, ctx) == PadHash(Ecdh(P, r), MulG(r), P, ctx)

ReceivePad(s, R, ctx) == PadHash(Ecdh(R, s), R, MulG(s), ctx)

SelfPad(s, R, ctx) == SelfPadHash(s, R, ctx)

(***************************************************************************)
(* Mutant of Encrypt: no pad of its own for the share kept by the sender.  *)
(***************************************************************************)
EncryptWithoutSelfPad(r, s, P, context, i, shares) ==
    [j \in 1 .. Len(P) |-> (shares[j] + SendPad(r, P[j], <<j, context>>)) % Order]

(***************************************************************************)
(* The only caller passes the position i of its own key in P and one share *)
(* per key, so the range errors of `encrypt` cannot occur.                 *)
(***************************************************************************)
Encrypt(r, s, P, context, i, shares) ==
    [j \in 1 .. Len(P) |->
        (shares[j] + IF j = i
                     THEN SelfPad(s, MulG(r), <<j, context>>)
                     ELSE SendPad(r, P[j], <<j, context>>)) % Order]

Decrypt(s, R, context, i, aggregate) ==
    LET pads == [j \in 1 .. Len(R) |-> IF j = i
                                       THEN SelfPad(s, R[j], <<i, context>>)
                                       ELSE ReceivePad(s, R[j], <<i, context>>)]
    IN  IF i > Len(R)
        THEN Err(Error("Runtime"))
        ELSE Ok((aggregate + Neg(SumMod(pads))) % Order)

-----------------------------------------------------------------------------
(* src/crypto/certeq.rs *)

Transcript(t, sum_commitment, host_pubkeys, pubnonces, enc_secshares) ==
    [t |-> t, sum_commitment |-> sum_commitment, host_pubkeys |-> host_pubkeys,
     pubnonces |-> pubnonces, enc_secshares |-> enc_secshares]

Sig(key, i, transcript) == [key |-> key, idx |-> i, transcript |-> transcript]

(***************************************************************************)
(* Bytes that no key verifies.                                             *)
(***************************************************************************)
NoSig == Sig(Identity, 0, Transcript(0, <<>>, <<>>, <<>>, <<>>))

CertEqSign(s, transcript, i) ==
    IF s = 0 THEN Err(Error("Runtime"))
             ELSE Ok(Sig(XOnly(MulG(s)), i, transcript))

CertEqVerify(host_pubkey, transcript, i, sig) ==
    host_pubkey # Identity /\ sig = Sig(XOnly(host_pubkey), i, transcript)

(***************************************************************************)
(* Mutants of VerifyCertificate: signatures on any transcript, or any      *)
(* bytes, are accepted.                                                    *)
(***************************************************************************)
VerifyCertificateOfKeys(transcript, cert) ==
    LET keys == transcript.host_pubkeys
        bad  == {i \in 1 .. Len(keys) : cert[i].key # XOnly(keys[i])}
    IN  IF Len(cert) # Len(keys)
        THEN Err(Error("InvalidCertificate"))
        ELSE IF bad # {}
        THEN Err(Naming("InvalidCertificateSignature", Min(bad)))
        ELSE Ok(Len(keys))

VerifyCertificateLength(transcript, cert) ==
    IF Len(cert) # Len(transcript.host_pubkeys)
    THEN Err(Error("InvalidCertificate"))
    ELSE Ok(Len(cert))

(***************************************************************************)
(* A certificate holds one signature per host key, in order; the first     *)
(* that does not verify is the one reported.                               *)
(***************************************************************************)
VerifyCertificate(transcript, cert) ==
    LET keys == transcript.host_pubkeys
        bad  == {i \in 1 .. Len(keys) : ~CertEqVerify(keys[i], transcript, i, cert[i])}
    IN  IF Len(cert) # Len(keys)
        THEN Err(Error("InvalidCertificate"))
        ELSE IF bad # {}
        THEN Err(Naming("InvalidCertificateSignature", Min(bad)))
        ELSE Ok(Len(keys))
=============================================================================
