------------------------- MODULE ChillDKGProperties ------------------------
(***************************************************************************)
(* The properties of a ChillDKG session.                                   *)
(***************************************************************************)
EXTENDS ChillDKG, Lagrange

(***************************************************************************)
(* No key is moved to the identity by its tap tweak: the code does not     *)
(* check it, and nobody knows a key of which it would not be so.           *)
(***************************************************************************)
ASSUME TweakedKeyAssumption ==
    \A p \in Scalar \ {Identity} : (p + TapHash(XOnly(p))) % Order # Identity

Coordinator == 0

Held == coutput \cup UNION {output[p] : p \in Honest}

HonestMembers(T) == {q \in Honest : HostKey(q) \in Range(T.host_pubkeys)}

HasSigned(q, T) == \E sig \in pmsg2[q] : sig.transcript = T

(***************************************************************************)
(* A driver of party p holds p's own secret key, and once the parameters   *)
(* are known the position of p's own host key in them.                     *)
(***************************************************************************)
ParticipantDriver(p, d) ==
    \/ d = NewParticipant(p)
    \/ /\ d.phase = "Step1"
       /\ d.st.s = HostSec[p]
       /\ d.st.host_pubkeys \in Seq(Scalar)
       /\ d.st.idx \in DOMAIN d.st.host_pubkeys
       /\ d.st.host_pubkeys[d.st.idx] = HostKey(p)
       /\ d.st.t \in 1 .. Len(d.st.host_pubkeys)
    \/ /\ d.phase = "Step2"
       /\ d.st.transcript.host_pubkeys \in Seq(Scalar)
       /\ d.st.dkg_output.idx \in DOMAIN d.st.transcript.host_pubkeys
       /\ d.st.transcript.host_pubkeys[d.st.dkg_output.idx] = HostKey(p)
       /\ d.st.dkg_output.t = d.st.transcript.t
       /\ Len(d.st.dkg_output.pubshares) = Len(d.st.transcript.host_pubkeys)
    \/ d.phase = "Failed"
    \/ d.phase = "Successful"

CoordinatorDriver(d) ==
    \/ d = Absent
    \/ /\ d.phase = "Initial"
       /\ d.st.host_pubkeys \in Seq(Scalar)
       /\ d.st.t \in 1 .. Len(d.st.host_pubkeys)
    \/ /\ d.phase = "Step1"
       /\ d.st.host_pubkeys \in Seq(Scalar)
       /\ d.st.transcript.host_pubkeys = d.st.host_pubkeys
       /\ d.st.transcript.t = d.st.t
       /\ Len(d.st.dkg_output.pubshares) = Len(d.st.host_pubkeys)
    \/ d.phase = "Failed"
    \/ d.phase = "Successful"

(***************************************************************************)
(* Type invariant: the drivers are in one of their phases with what that   *)
(* phase holds, and the counters are within their bounds.                  *)
(***************************************************************************)
TypeOK ==
    /\ DOMAIN pst = Honest
    /\ DOMAIN copies = Honest
    /\ \A p \in Honest : \A d \in {pst[p]} \cup copies[p] : ParticipantDriver(p, d)
    /\ CoordinatorDriver(cst)
    /\ DOMAIN perr = Honest
    /\ DOMAIN pmsg1 = Honest
    /\ DOMAIN pmsg2 = Honest
    /\ DOMAIN output = Honest
    /\ sessions \in [Honest -> 1 .. MaxSessions]
    /\ csessions \in 0 .. MaxSessions

-----------------------------------------------------------------------------
(* Agreement *)

(***************************************************************************)
(* A certificate means what it says: whoever holds an output, every honest *)
(* member of its transcript has signed exactly that transcript             *)
(* (transitions.rs, Step2State::next; certeq.rs,                           *)
(* verify_certeq_certificate).                                             *)
(***************************************************************************)
CertifiedByAll ==
    \A o \in Held : \A q \in HonestMembers(o.recovery.transcript) :
        HasSigned(q, o.recovery.transcript)

(***************************************************************************)
(* Without restarts two held outputs that have an honest member in common  *)
(* come from one transcript: no coordinator can make two honest parties    *)
(* finish with different keys.                                             *)
(***************************************************************************)
Agreement ==
    (\A p \in Honest : sessions[p] = 1) =>
        \A o1, o2 \in Held :
            LET T1 == o1.recovery.transcript
                T2 == o2.recovery.transcript
            IN  HonestMembers(T1) \cap HonestMembers(T2) # {} => T1 = T2

(***************************************************************************)
(* Nobody holds an output for parameters that an honest member was not     *)
(* given by its caller: the transcript binds the threshold and the ordered *)
(* host keys, and each member signs its own view of them.                  *)
(***************************************************************************)
ParametersAgreed ==
    \A o \in Held : \A q \in HonestMembers(o.recovery.transcript) :
        [host_pubkeys |-> o.recovery.transcript.host_pubkeys,
         t            |-> o.recovery.transcript.t] \in ParamChoices[q]

(***************************************************************************)
(* The proofs of possession that anybody has made.                         *)
(***************************************************************************)
ProofsMade ==
    LET msgs == UNION {ProtocolMsg1[q] : q \in Parties}
    IN  {m.pop : m \in msgs}
        \cup {Pop(XOnly(Up(m.commitment[1])), i) : m \in msgs, i \in Faulty}

(***************************************************************************)
(* Transcript T holds, in place i, the nonce of first message m, and its   *)
(* key is a sum with m's commitment in place i, of commitments of which    *)
(* each has one of the given proofs for its place.                         *)
(***************************************************************************)
MadeWith(T, m, i, proofs) ==
    LET proven == {c \in Scalar : XOnly(c) \in {pop.key : pop \in proofs}}
    IN  /\ T.pubnonces[i] = m.pubnonce
        /\ \E coms \in [DOMAIN T.host_pubkeys -> proven] :
              /\ coms[i] = m.commitment[1]
              /\ T.sum_commitment[1] = SumMod(coms)
              /\ \A j \in DOMAIN coms : Pop(XOnly(coms[j]), j) \in proofs

Contributed(q, T) ==
    \E i \in DOMAIN T.host_pubkeys, m \in pmsg1[q] :
        T.host_pubkeys[i] = HostKey(q) /\ MadeWith(T, m, i, ProofsMade)

(***************************************************************************)
(* An honest party signs, and an honest holder keeps, only what every      *)
(* honest party concerned contributed to: nonce and commitment of one of   *)
(* its own first messages are in it, whichever messages the coordinator    *)
(* replaced, changed or put in another order (party/mod.rs,                *)
(* validate_coordinator_msg1 and verify_pops).                             *)
(***************************************************************************)
ContributionIncluded ==
    /\ \A q \in Honest : \A sig \in pmsg2[q] : Contributed(q, sig.transcript)
    /\ \A o \in Held : \A q \in HonestMembers(o.recovery.transcript) :
          Contributed(q, o.recovery.transcript)

(***************************************************************************)
(* If every session of a party drew a nonce of its own, the party has      *)
(* signed at most one transcript with each, whatever the coordinator kept  *)
(* of an abandoned session and replayed to a later one (transitions.rs:    *)
(* Step1State is consumed by `next`).                                      *)
(***************************************************************************)
ContributionSignedOnce ==
    \A p \in Honest :
        Cardinality({m.pubnonce : m \in pmsg1[p]}) = sessions[p] =>
            \A sig1, sig2 \in pmsg2[p] :
                sig1.transcript.pubnonces[sig1.idx] = sig2.transcript.pubnonces[sig2.idx]
                    => sig1 = sig2

(***************************************************************************)
(* However the caller of an honest coordinator orders, repeats or drops    *)
(* first messages, a participant signs only a list in which each nonce     *)
(* came from a message made for the place it stands in (pop.rs: the proof  *)
(* covers the index; coordinator/transitions.rs does not look at it).      *)
(***************************************************************************)
SignedInPlace ==
    CoordHonest =>
        \A p \in Honest : \A sig \in pmsg2[p] :
            \A i \in DOMAIN sig.transcript.host_pubkeys :
                \E q \in Parties : \E m \in Msg1From[q] :
                    m.pubnonce = sig.transcript.pubnonces[i] /\ m.pop.idx = i

(***************************************************************************)
(* A driver, or a clone of it that is put to use, signs at most one        *)
(* transcript, whatever its caller does and however often the              *)
(* coordinator's message is delivered to it.                               *)
(***************************************************************************)
SignOncePerSession == \A p \in Honest : Cardinality(pmsg2[p]) <= sessions[p]

(***************************************************************************)
(* The session implements the certificate of equality.                     *)
(***************************************************************************)
CertEqSigned == [p \in Honest |-> {sig.transcript : sig \in pmsg2[p]}]

CertEqAccepted ==
    [h \in Honest \cup {Coordinator} |->
        {o.recovery.transcript : o \in IF h = Coordinator THEN coutput ELSE output[h]}]

CE == INSTANCE CertEq WITH
          Holders   <- Honest \cup {Coordinator},
          MembersOf <- HonestMembers,
          signed    <- CertEqSigned,
          accepted  <- CertEqAccepted

ImplementsCertEq == CE!Spec

-----------------------------------------------------------------------------
(* Outputs *)

(***************************************************************************)
(* Recovery data that any honest holder keeps lets the coordinator, and    *)
(* every honest member of its transcript, rebuild its output, the same     *)
(* output that the party obtained by `finalize` if it did (README.md:      *)
(* "can later rebuild its DKGOutput").                                     *)
(***************************************************************************)
Recoverable ==
    \A recovery \in PublishedRecovery :
        /\ CoordinatorRecover(recovery).ok
        /\ \A q \in HonestMembers(recovery.transcript) :
              LET res == PartyRecover(HostSec[q], recovery)
              IN  /\ res.ok
                  /\ \A o \in output[q] :
                        o.recovery.transcript = recovery.transcript => o.output = res.val

(***************************************************************************)
(* All holders of one transcript, participants and coordinator, finalized  *)
(* or recovered, have the same threshold, key and public shares.           *)
(***************************************************************************)
SamePublicOutput ==
    \A o1, o2 \in Held :
        o1.recovery.transcript = o2.recovery.transcript =>
            /\ o1.output.t = o2.output.t
            /\ o1.output.threshold_pubkey = o2.output.threshold_pubkey
            /\ o1.output.pubshares = o2.output.pubshares

(***************************************************************************)
(* The key is usable: the secret shares of any t parties that hold an      *)
(* output of one transcript interpolate to the secret of its threshold     *)
(* public key, however faulty the others and the coordinator were.         *)
(***************************************************************************)
HoldersOf(T) == {p \in Honest : \E o \in output[p] : o.recovery.transcript = T}

OutputOf(p, T) == (CHOOSE o \in output[p] : o.recovery.transcript = T).output

KeyUsable ==
    \A o \in Held :
        LET T == o.recovery.transcript
        IN  \A group \in kSubset(o.output.t, HoldersOf(T)) :
                LET members == SetToSeq(group)
                    ids     == [k \in DOMAIN members |-> OutputOf(members[k], T).idx]
                    shares  == [k \in DOMAIN members |->
                                   MulG(OutputOf(members[k], T).secshare)]
                IN  InterpolatePubkey(ids, shares) = Ok(o.output.threshold_pubkey)

-----------------------------------------------------------------------------
(* Blame *)

GivenParams == CHOOSE params \in CoordParams : TRUE

KeyAt(i) == GivenParams.host_pubkeys[i]

IsFaultyIndex(i) == \E q \in Faulty : HostKey(q) = KeyAt(i)

(***************************************************************************)
(* What blame rests on: all are given the same parameters for a single     *)
(* session, and the coordinator's caller puts the message of each party in *)
(* the place of its key.                                                   *)
(***************************************************************************)
OneAgreedSession ==
    /\ MaxSessions = 1
    /\ CoordParams = {GivenParams}
    /\ \A p \in Honest : ParamChoices[p] = {GivenParams}
    /\ \A order \in Orders : \A i \in DOMAIN order :
          i <= Len(GivenParams.host_pubkeys) => HostKey(order[i]) = KeyAt(i)

(***************************************************************************)
(* The hashes of that session are scalars, and no coefficient but the      *)
(* constant one is zero: the code refuses a zero nonce and a zero constant *)
(* coefficient itself, and a zero anywhere else only the coordinator sees. *)
(***************************************************************************)
HashesAreScalars ==
    /\ \A seed \in SessionSeeds :
          /\ NonceHash(seed) \in Scalar
          /\ \A k \in 1 .. (seed[3][1] - 1) : CoeffHash(seed, k) # 0
    /\ \A j \in DOMAIN GivenParams.host_pubkeys :
          LET ctx == <<j, EncContext(GivenParams.t, GivenParams.host_pubkeys)>>
          IN  /\ \A e, R, P \in Scalar : PadHash(e, R, P, ctx) \in Scalar
              /\ \A s, R \in Scalar : SelfPadHash(s, R, ctx) \in Scalar

(***************************************************************************)
(* Blame falls on no honest party (src/dkg/errors.rs): an honest           *)
(* coordinator is not called faulty and blames faulty participants only; a *)
(* participant blames another (or the coordinator) only if one of the two  *)
(* is faulty.  It holds when all are given the same parameters, steps are  *)
(* called in order, and no session is mixed with an earlier one.           *)
(***************************************************************************)
BlameSound ==
    /\ cerr.kind # "FaultyCoordinator"
    /\ cerr.kind = "FaultyParticipant" => IsFaultyIndex(cerr.who)
    /\ CoordHonest =>
          \A p \in Honest :
              /\ perr[p].kind # "FaultyCoordinator"
              /\ perr[p].kind = "FaultyParticipantOrCoordinator"
                    => IsFaultyIndex(perr[p].who)
              /\ perr[p].kind = "UnknownFaultyParticipantOrCoordinator"
                    => Faulty # {}

-----------------------------------------------------------------------------
(* Drivers *)

LC == INSTANCE Lifecycle WITH
          Drivers    <- Honest \cup {Coordinator},
          Steps      <- [d \in Honest \cup {Coordinator} |->
                            IF d = Coordinator THEN <<"Initial", "Step1">>
                                               ELSE <<"Initial", "Step1", "Step2">>],
          MayRestart <- MaxSessions > 1,
          MayClone   <- AllowClones,
          phase      <- [d \in Honest \cup {Coordinator} |->
                            IF d = Coordinator THEN cst.phase ELSE pst[d].phase]

(***************************************************************************)
(* Every driver passes its phases in order and stays failed or successful, *)
(* even if its caller runs steps out of order.                             *)
(***************************************************************************)
ImplementsLifecycle == LC!Spec

(***************************************************************************)
(* README.md: "any error moves the driver to a terminal failed state".     *)
(***************************************************************************)
ErrorMovesToFailed ==
    \A p \in Honest : perr[p] # NoError => pst[p].phase = "Failed"

-----------------------------------------------------------------------------
(* Liveness *)

(***************************************************************************)
(* When all are honest and every message is delivered in the end, every    *)
(* driver succeeds.                                                        *)
(***************************************************************************)
HonestSessionCompletes ==
    <>(/\ cst.phase = "Successful"
       /\ \A p \in Honest : pst[p].phase = "Successful")

(***************************************************************************)
(* Once an honest party holds an output, every honest member of the        *)
(* session holds one of the same transcript in the end, even if its own    *)
(* driver failed: the recovery data suffices.                              *)
(***************************************************************************)
OneSucceedsAllSucceed ==
    \A p, q \in Honest :
        (\E o \in output[p] : q \in HonestMembers(o.recovery.transcript))
            ~> (\E o1 \in output[p], o2 \in output[q] :
                    o1.recovery.transcript = o2.recovery.transcript)
=============================================================================
