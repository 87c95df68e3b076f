--------------------------- MODULE SigningProperties -----------------------
(***************************************************************************)
(* The properties of FROST signing sessions.                               *)
(***************************************************************************)
EXTENDS SigningSession

Coordinator == 0

(***************************************************************************)
(* A driver of p carries p's key material through the session, and its     *)
(* nonce is among those p has sent.                                        *)
(***************************************************************************)
SignerDriver(p, d, sent) ==
    \/ d = NewSigner(p)
    \/ /\ d.phase = "Step1"
       /\ d.st.id = p
       /\ d.st.secshare = SecShare[p]
       /\ d.st.threshold_pubkey = Key.threshold_pubkey
       /\ d.st.pubshares = Key.pubshares
       /\ d.st.t = Key.t
       /\ \E m \in sent : /\ m.nonce = PubNonce(d.st.secnonce)
                          /\ m.msg = d.st.msg
                          /\ m.tweaks = d.st.tweaks
    \/ d.phase = "Failed"
    \/ d.phase = "Successful"

SignCoordinatorDriver(d) ==
    \/ d = Absent
    \/ d = NewCoordinator
    \/ /\ d.phase = "Step1"
       /\ d.st.threshold_pubkey = Key.threshold_pubkey
       /\ d.st.pubshares = Key.pubshares
       /\ d.st.t = Key.t
    \/ d.phase = "Failed"
    \/ d.phase = "Successful"

(***************************************************************************)
(* Type invariant: the drivers are in one of their phases with what that   *)
(* phase holds, a driver that waits for the list has sent its nonce, and   *)
(* the counters are within their bounds.                                   *)
(***************************************************************************)
SignTypeOK ==
    /\ DOMAIN sst = Honest
    /\ DOMAIN serr = Honest
    /\ DOMAIN nonces = Honest
    /\ DOMAIN psigs = Honest
    /\ DOMAIN drawn = Honest
    /\ \A p \in Honest : SignerDriver(p, sst[p], nonces[p]) /\ drawn[p] \subseteq Randoms
    /\ SignCoordinatorDriver(kst)
    /\ request \in Requests
    /\ sessions \in [Honest -> 1 .. MaxSessions]
    /\ ksessions \in 0 .. MaxSessions

-----------------------------------------------------------------------------
(* Nonces *)

(***************************************************************************)
(* A nonce answers for one partial signature (src/sign/mod.rs: "a nonce    *)
(* can only ever be used once"), whatever lists the coordinator hands out, *)
(* however often, and whenever the signer stops and starts again.          *)
(***************************************************************************)
NonceUsedOnce ==
    \A p \in Honest : \A x, y \in psigs[p] : x.pubnonce = y.pubnonce => x = y

(***************************************************************************)
(* Even a signer whose randomness repeats never signs two messages, or     *)
(* under two keys, with one nonce, if it gives message and tweaks whenever *)
(* it makes that nonce: they enter the hash that the nonce is made from,   *)
(* and round 2 refuses others (nonce.rs, nonce_hash; transitions.rs,       *)
(* SignerStep1State::next).                                                *)
(***************************************************************************)
TweakedKey(tweaks) == SigningPubkey(Key.threshold_pubkey, tweaks).val

AlwaysTied(p, pubnonce) ==
    \A m \in nonces[p] : m.nonce = pubnonce => m.msg # {} /\ m.tweaks # {}

NonceKeepsItsRequest ==
    \A p \in Honest : \A x, y \in psigs[p] :
        (x.pubnonce = y.pubnonce /\ AlwaysTied(p, x.pubnonce)) =>
            /\ x.msg = y.msg
            /\ XOnly(TweakedKey(x.tweaks)) = XOnly(TweakedKey(y.tweaks))

-----------------------------------------------------------------------------
(* Signatures *)

(***************************************************************************)
(* The honest members of a list with the nonces they have in it.           *)
(***************************************************************************)
TicketsOf(list) ==
    [q \in Honest \cap Range(IdsOf(list)) |->
        (CHOOSE m \in Range(list) : m.id = q).nonce]

(***************************************************************************)
(* Signers whose partial signatures were combined had one view of the      *)
(* session: the same set of signers, the same aggregate nonce, the same    *)
(* message and the same key, and the nonce that stands for them in the     *)
(* list is their own.                                                      *)
(***************************************************************************)
View(list, msg, tweaks) ==
    [ids |-> Range(IdsOf(list)), aggnonce |-> AggrPubnonces(NoncesOf(list)),
     msg |-> msg, key |-> TweakedKey(tweaks)]

OneViewPerSignature ==
    \A s \in sigs : \A q \in Honest \cap Range(IdsOf(s.list)) :
        \E x \in psigs[q] :
            /\ x.pubnonce = TicketsOf(s.list)[q]
            /\ View(x.list, x.msg, x.tweaks) = View(s.list, s.msg, s.tweaks)

(***************************************************************************)
(* The lists that may be put together, of nonces that are not the identity,*)
(* and that the hashes of such a list are scalars.                         *)
(***************************************************************************)
PossibleNonces == UNION {{PubNonce(k) : k \in SecretNonces(p)} : p \in Honest}

PossibleFrom ==
    [q \in Ids |->
        IF q \in Honest THEN {[id |-> q, nonce |-> PubNonce(k)] : k \in SecretNonces(q)}
        ELSE {[id |-> q, nonce |-> n] :
                 n \in KnownNonces \cup {[R1 |-> Neg(m.R1), R2 |-> Neg(m.R2)] :
                                              m \in PossibleNonces}}]

PossibleLists == UNION {ListsOf(group, PossibleFrom) : group \in Groups}

ASSUME HashesAssumption ==
    \A list \in PossibleLists, r \in Requests :
        LET v == SessionValues(Key.threshold_pubkey, list, r.msg, r.tweaks)
        IN  v.ok => v.val.b \in Scalar /\ v.val.e \in Scalar

(***************************************************************************)
(* What the hashes are trusted with: no two answers that an honest signer  *)
(* may give are equal unless they are made with one nonce for one view.    *)
(* An answer is k1 + b * k2 + e * a * d, with b and e hashes of the view,  *)
(* and all but k1 is fixed when b and e are.                               *)
(***************************************************************************)
Answers(p) ==
    {[pubnonce |-> PubNonce(c[1]), view |-> View(c[2], c[3].msg, c[3].tweaks),
      psig |-> PartialSign(KeyMaterial(p, c[1]), c[2], c[3].msg, c[3].tweaks).val] :
        c \in {d \in SecretNonces(p) \X PossibleLists \X Requests :
                   PartialSign(KeyMaterial(p, d[1]), d[2], d[3].msg, d[3].tweaks).ok}}

AnswersTellViews ==
    \A p \in Honest : \A x, y \in Answers(p) : x.psig = y.psig => x = y

(***************************************************************************)
(* The session implements threshold signing with one-time tickets.         *)
(***************************************************************************)
TS == INSTANCE ThresholdSigning WITH
          KeyOf   <- TweakedKey,
          issued  <- nonces,
          spent   <- [p \in Honest |->
                         {[nonce |-> x.pubnonce, msg |-> x.msg, tweaks |-> x.tweaks] :
                             x \in psigs[p]}],
          granted <- {[msg |-> s.msg, tweaks |-> s.tweaks, tickets |-> TicketsOf(s.list)] :
                         s \in sigs}

ImplementsThresholdSigning == TS!Spec

-----------------------------------------------------------------------------
(* Blame and drivers *)

(***************************************************************************)
(* With an honest coordinator, callers that agree and one session each,    *)
(* step 1 or step 2 fails only by naming a faulty signer, never without a  *)
(* culprit, and no honest signer fails at all (sign/mod.rs: "a bad one is  *)
(* reported as SignError::InvalidContribution naming the participant").    *)
(***************************************************************************)
AbortNamesFaulty ==
    /\ kerr # NoError => kerr.kind = "InvalidContribution" /\ kerr.who \in Faulty
    /\ \A p \in Honest : serr[p] = NoError

(***************************************************************************)
(* What this rests on.  The callers choose signers that may sign, no hash  *)
(* gives zero and no tweak leads to the identity; and where the nonces of  *)
(* a list cancel each other, as they do when a faulty signer repeats an    *)
(* honest nonce with the opposite sign, then one of its faulty signers has *)
(* no answer, for it does not know the secret of such a nonce.             *)
(***************************************************************************)
GroupsCanSign ==
    \A group \in Groups :
        ValidateSigners(Key.t, Key.pubshares, Key.threshold_pubkey, group).ok

HashesDoNotFail ==
    /\ \A p \in Honest, random \in Randoms, a \in NonceInputs :
          SampledNonce(p, random, a.msg, a.tweaks).ok
    /\ \A list \in PossibleLists, r \in Requests :
          SessionValues(Key.threshold_pubkey, list, r.msg, r.tweaks).ok

NoncesCancel(list, v) ==
    LET sum == AggrPubnonces(NoncesOf(list))
    IN  (sum.R1 + Times(sum.R2, v.b)) % Order = Identity

Unanswered(c, list, r, v) ==
    /\ c.id \in Faulty
    /\ \A m \in FaultyPsigs(c.id, list, {r}) :
          ~PartialVerify(m.psig, c.id, c.nonce, Key.pubshares[c.id], v).ok

CancelledUnanswered ==
    \A l \in PossibleLists, r \in Requests :
        LET list == ById(l)
            v    == SessionValues(Key.threshold_pubkey, list, r.msg, r.tweaks).val
        IN  NoncesCancel(list, v) => \E k \in DOMAIN list : Unanswered(list[k], list, r, v)

LC == INSTANCE Lifecycle WITH
          Drivers    <- Honest \cup {Coordinator},
          Steps      <- [d \in Honest \cup {Coordinator} |-> <<"Initial", "Step1">>],
          MayRestart <- MaxSessions > 1,
          MayClone   <- FALSE,
          phase      <- [d \in Honest \cup {Coordinator} |->
                            IF d = Coordinator THEN kst.phase ELSE sst[d].phase]

(***************************************************************************)
(* Every driver passes its phases in order and stays failed or successful, *)
(* even if its caller runs steps out of order.                             *)
(***************************************************************************)
ImplementsSignLifecycle == LC!Spec

-----------------------------------------------------------------------------
(* Liveness *)

(***************************************************************************)
(* Any group of at least t signers that do not stay silent, in any order,  *)
(* ends with a signature under the tweaked key, or with the name of the    *)
(* faulty signer that is in the way (README.md: "any t of the n            *)
(* participants produce a signature").                                     *)
(***************************************************************************)
SigningCompletes ==
    <>(\/ kst.phase = "Successful" /\ sigs # {}
       \/ kst.phase = "Failed" /\ kerr.who \in Faulty)
=============================================================================
