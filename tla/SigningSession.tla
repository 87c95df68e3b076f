---------------------------- MODULE SigningSession -------------------------
(***************************************************************************)
(* FROST signing sessions over the key of a finished DKG: the drivers      *)
(* Signer and Coordinator of src/sign/mod.rs, their callers, and what      *)
(* faulty parties may send.  Nothing sent is ever lost for good and        *)
(* anything sent may be delivered late, twice or never.                    *)
(***************************************************************************)
EXTENDS SignCoordinator

CONSTANTS
    Parties,        \* the participants, 1 .. n
    Key,            \* the public DKG output: [t, pubshares, threshold_pubkey]
    SecShare,       \* SecShare[p]: the secret share of p
    Honest,         \* the parties that run this code
    CoordHonest,    \* whether the coordinator runs this code
    FaultyNonces,   \* secret nonces of the faulty parties
    Requests,       \* what may be signed, [msg, tweaks]
    CallersAgree,   \* whether all callers ask for the same request
    Bindings,       \* what a caller gives at round 1, [msg, tweaks] of BOOLEAN
    Randoms,        \* randomness of the signers
    FreshRandoms,   \* whether a signer never draws the same randomness twice
    Groups,         \* ids of the lists of messages that are put together
    MaxSessions,    \* drivers a caller creates
    AllowMisuse     \* whether callers run steps out of order

Faulty == Parties \ Honest

ASSUME HonestAssumption == Honest \subseteq Parties /\ 0 \notin Parties

(***************************************************************************)
(* What a finished DKG hands out: everybody's share belongs to its public  *)
(* share (src/dkg/mod.rs, DkgOutput).                                      *)
(***************************************************************************)
ASSUME KeyAssumption ==
    /\ Key.threshold_pubkey \in Scalar \ {Identity}
    /\ Key.pubshares \in Seq(Scalar)
    /\ Parties = 1 .. Len(Key.pubshares)
    /\ \A p \in Parties : SecShare[p] \in Scalar /\ MulG(SecShare[p]) = Key.pubshares[p]

ASSUME InputsAssumption ==
    /\ \A r \in Requests : r.tweaks \in Seq([value : Nat, is_xonly : BOOLEAN])
    /\ \A group \in Groups : group \in Seq(Nat)
    /\ FaultyNonces \subseteq [k1 : Scalar, k2 : Scalar]

ASSUME SwitchesAssumption ==
    /\ {CoordHonest, CallersAgree, FreshRandoms, AllowMisuse} \subseteq BOOLEAN
    /\ Bindings \subseteq [msg : BOOLEAN, tweaks : BOOLEAN]
    /\ MaxSessions \in Nat \ {0}

Optional(given, x) == IF given THEN {x} ELSE {}

(***************************************************************************)
(* What callers may bind a nonce to, and the secret nonce that p makes for *)
(* it from a random value.  Different inputs make different nonces.        *)
(***************************************************************************)
NonceInputs ==
    {[msg |-> Optional(b.msg, r.msg), tweaks |-> Optional(b.tweaks, r.tweaks)] :
        b \in Bindings, r \in Requests}

SampledNonce(p, random, msg, tweaks) ==
    LET key == NonceKey(Key.threshold_pubkey, tweaks)
    IN  IF ~key.ok THEN key
        ELSE SampleNonce(random, SecShare[p], p, MulG(SecShare[p]), key.val, msg)

ASSUME NoncesAssumption ==
    \A p \in Honest, r1, r2 \in Randoms, a1, a2 \in NonceInputs :
        LET k1 == SampledNonce(p, r1, a1.msg, a1.tweaks)
            k2 == SampledNonce(p, r2, a2.msg, a2.tweaks)
        IN  (k1.ok /\ k2.ok /\ PubNonce(k1.val) = PubNonce(k2.val)) =>
                /\ r1 = r2
                /\ a1.msg = a2.msg
                /\ XOnly(NonceKey(Key.threshold_pubkey, a1.tweaks).val)
                      = XOnly(NonceKey(Key.threshold_pubkey, a2.tweaks).val)

(***************************************************************************)
(* The secret nonces that p may make: their halves are scalars.            *)
(***************************************************************************)
SecretNonces(p) ==
    {k.val : k \in {s \in {SampledNonce(p, random, a.msg, a.tweaks) :
                              random \in Randoms, a \in NonceInputs} : s.ok}}

ASSUME ScalarsAssumption == \A p \in Honest : SecretNonces(p) \subseteq [k1 : Scalar, k2 : Scalar]

VARIABLES
    request,    \* the request that agreeing callers ask for
    sst,        \* sst[p]: driver of honest signer p
    serr,       \* serr[p]: the error of p's last call, or NoError
    nonces,     \* nonces[p]: nonces sent by p, each with what it is bound to
    psigs,      \* psigs[p]: partial signatures of p, each with what it signs
    drawn,      \* drawn[p]: randomness p has drawn
    sessions,   \* sessions[p]: drivers created by p
    kst,        \* driver of the coordinator
    kerr,       \* the error of its last call
    relayed,    \* lists relayed by the honest coordinator
    sigs,       \* signatures it has output, each with what it signs
    ksessions   \* drivers created by the coordinator

svars == <<sst, serr, nonces, psigs, drawn, sessions>>
kvars == <<kst, kerr, relayed, sigs, ksessions>>
vars  == <<request, sst, serr, nonces, psigs, drawn, sessions,
           kst, kerr, relayed, sigs, ksessions>>

NewSigner(p) ==
    Driver("Initial", SignerInitialState(p, Key.t, SecShare[p], Key.pubshares,
                                         Key.threshold_pubkey))

NewCoordinator ==
    Driver("Initial", SignCoordinatorInitialState(Key.t, Key.pubshares,
                                                  Key.threshold_pubkey))

(***************************************************************************)
(* Callers that do not agree have no use for the request.                  *)
(***************************************************************************)
Init ==
    /\ request \in Requests
    /\ CallersAgree \/ request = (CHOOSE r \in Requests : TRUE)
    /\ sst = [p \in Honest |-> NewSigner(p)]
    /\ serr = [p \in Honest |-> NoError]
    /\ nonces = [p \in Honest |-> {}]
    /\ psigs = [p \in Honest |-> {}]
    /\ drawn = [p \in Honest |-> {}]
    /\ sessions = [p \in Honest |-> 1]
    /\ kst = Absent
    /\ kerr = NoError
    /\ relayed = {}
    /\ sigs = {}
    /\ ksessions = 0

Asked == IF CallersAgree THEN {request} ELSE Requests

-----------------------------------------------------------------------------
(***************************************************************************)
(* What faulty parties may send: nonces they know, the identity, and the   *)
(* negation of an honest nonce (whose secret they do not know); responses  *)
(* by the protocol for a nonce they know, and the next scalar.             *)
(***************************************************************************)
IdentityNonce == [R1 |-> Identity, R2 |-> Identity]

KnownNonces == {PubNonce(k) : k \in FaultyNonces}

NegatedNonces ==
    {[R1 |-> Neg(m.nonce.R1), R2 |-> Neg(m.nonce.R2)] : m \in UNION {nonces[p] : p \in Honest}}

Contributions(p) == {[id |-> p, nonce |-> m.nonce] : m \in nonces[p]}

FaultyContributions(q) ==
    {[id |-> q, nonce |-> n] : n \in KnownNonces \cup NegatedNonces \cup {IdentityNonce}}

KeyMaterial(q, k) ==
    [id |-> q, t |-> Key.t, secshare |-> SecShare[q], pubshares |-> Key.pubshares,
     threshold_pubkey |-> Key.threshold_pubkey, secnonce |-> k]

FaultyPsigs(q, list, requests) ==
    LET answers == {PartialSign(KeyMaterial(q, k), list, r.msg, r.tweaks) :
                       k \in FaultyNonces, r \in requests}
    IN  {[id |-> q, psig |-> (a.val + wrong) % Order] :
            a \in {b \in answers : b.ok}, wrong \in {0, 1}}

(***************************************************************************)
(* Lists with one message for each id of a group; an id that is nobody's   *)
(* comes with a nonce the faulty parties know.                             *)
(***************************************************************************)
Extended(lists, messages) == {Append(list, m) : list \in lists, m \in messages}

ListsOf(group, from) ==
    FoldLeft(LAMBDA lists, q : Extended(lists, from[q]), {<<>>}, group)

Ids == UNION {Range(group) : group \in Groups}

ContributionsFrom ==
    [q \in Ids |-> IF q \in Honest THEN Contributions(q) ELSE FaultyContributions(q)]

PsigsFrom ==
    [q \in Ids |->
        IF q \in Honest THEN {[id |-> q, psig |-> s.psig] : s \in psigs[q]}
        ELSE IF q \in Faulty /\ kst.phase = "Step1"
        THEN FaultyPsigs(q, kst.st.pubnonces, Asked)
        ELSE {[id |-> q, psig |-> 1]}]

(***************************************************************************)
(* A faulty coordinator may replace the nonces of honest signers, too.     *)
(***************************************************************************)
MadeUpFrom ==
    [q \in Ids |->
        FaultyContributions(q) \cup IF q \in Honest THEN Contributions(q) ELSE {}]

DeliverableLists ==
    IF CoordHonest THEN relayed
    ELSE UNION {ListsOf(group, MadeUpFrom) : group \in Groups}

-----------------------------------------------------------------------------
(***************************************************************************)
(* Calls of the signer's driver.  Unless misuse is allowed a caller runs   *)
(* the step its driver is in, with a list that its party is in.            *)
(***************************************************************************)
MayCall(driver, phase) == AllowMisuse \/ driver.phase = phase

(***************************************************************************)
(* Only the id and the nonce are sent.                                     *)
(***************************************************************************)
SignerStep1(p) ==
    /\ MayCall(sst[p], "Initial")
    /\ \E r \in Asked, binding \in Bindings,
          random \in IF FreshRandoms THEN Randoms \ drawn[p] ELSE Randoms :
          LET msg    == Optional(binding.msg, r.msg)
              tweaks == Optional(binding.tweaks, r.tweaks)
              call   == Transition(sst[p], "Initial",
                                   SignerInitialNext(sst[p].st, msg, tweaks, random))
          IN  /\ sst' = [sst EXCEPT ![p] = call.state]
              /\ serr' = [serr EXCEPT ![p] = ErrorOf(call.reply)]
              /\ nonces' = [nonces EXCEPT ![p] =
                               IF call.reply.ok
                               THEN @ \cup {[nonce |-> call.reply.val.nonce,
                                             msg |-> msg, tweaks |-> tweaks]}
                               ELSE @]
              /\ drawn' = [drawn EXCEPT ![p] = @ \cup {random}]
    /\ UNCHANGED <<request, psigs, sessions, kvars>>

(***************************************************************************)
(* Only the id and psig of a partial signature are sent; the rest of the   *)
(* record remembers what it was made from.                                 *)
(***************************************************************************)
SignerFinalize(p) ==
    /\ MayCall(sst[p], "Step1")
    /\ \E r \in Asked, list \in DeliverableLists :
          LET call == Transition(sst[p], "Step1",
                                 SignerStep1Next(sst[p].st, list, r.msg, r.tweaks))
          IN  /\ ~AllowMisuse => p \in Range(IdsOf(list))
              /\ sst' = [sst EXCEPT ![p] = call.state]
              /\ serr' = [serr EXCEPT ![p] = ErrorOf(call.reply)]
              /\ psigs' = [psigs EXCEPT ![p] =
                              IF call.reply.ok
                              THEN @ \cup {[pubnonce |-> PubNonce(sst[p].st.secnonce),
                                            list |-> list, msg |-> r.msg,
                                            tweaks |-> r.tweaks,
                                            psig |-> call.reply.val.psig]}
                              ELSE @]
    /\ UNCHANGED <<request, nonces, drawn, sessions, kvars>>

(***************************************************************************)
(* The process stops and starts again: the driver and its secret nonce are *)
(* lost, and a new driver is made from the same DKG output.                *)
(***************************************************************************)
SignerRestart(p) ==
    /\ sessions[p] < MaxSessions
    /\ sessions' = [sessions EXCEPT ![p] = @ + 1]
    /\ sst' = [sst EXCEPT ![p] = NewSigner(p)]
    /\ serr' = [serr EXCEPT ![p] = NoError]
    /\ UNCHANGED <<request, nonces, psigs, drawn, kvars>>

-----------------------------------------------------------------------------
(***************************************************************************)
(* Calls of the coordinator's driver.                                      *)
(***************************************************************************)
CoordinatorCreate ==
    /\ CoordHonest
    /\ ksessions < MaxSessions
    /\ ksessions' = ksessions + 1
    /\ kst' = NewCoordinator
    /\ kerr' = NoError
    /\ UNCHANGED <<request, relayed, sigs, svars>>

CoordinatorStep1 ==
    /\ kst.phase # "Absent"
    /\ MayCall(kst, "Initial")
    /\ \E group \in Groups : \E list \in ListsOf(group, ContributionsFrom) :
          LET call == Transition(kst, "Initial", SignCoordinatorInitialNext(kst.st, list))
          IN  /\ kst' = call.state
              /\ kerr' = ErrorOf(call.reply)
              /\ relayed' = IF call.reply.ok THEN relayed \cup {call.reply.val}
                                             ELSE relayed
    /\ UNCHANGED <<request, sigs, ksessions, svars>>

(***************************************************************************)
(* Unless misuse is allowed the caller waits for a partial signature of    *)
(* every signer whose nonce it relayed.                                    *)
(***************************************************************************)
CoordinatorStep2 ==
    /\ kst.phase # "Absent"
    /\ MayCall(kst, "Step1")
    /\ \E group \in Groups, r \in Asked : \E list \in ListsOf(group, PsigsFrom) :
          LET call == Transition(kst, "Step1",
                                 SignCoordinatorStep1Next(kst.st, list, r.msg, r.tweaks))
          IN  /\ ~AllowMisuse => IdsOf(ById(list)) = IdsOf(kst.st.pubnonces)
              /\ kst' = call.state
              /\ kerr' = ErrorOf(call.reply)
              /\ sigs' = IF call.reply.ok
                         THEN sigs \cup {[sig |-> call.reply.val, msg |-> r.msg,
                                          tweaks |-> r.tweaks,
                                          list |-> kst.st.pubnonces]}
                         ELSE sigs
    /\ UNCHANGED <<request, relayed, ksessions, svars>>

-----------------------------------------------------------------------------
SignerCall(p) == SignerStep1(p) \/ SignerFinalize(p)

CoordinatorCall == CoordinatorCreate \/ CoordinatorStep1 \/ CoordinatorStep2

Progress == CoordinatorCall \/ \E p \in Honest : SignerCall(p)

Next == Progress \/ \E p \in Honest : SignerRestart(p)

Spec == Init /\ [][Next]_vars

(***************************************************************************)
(* The callers keep calling: while some caller has all that the next call  *)
(* of its driver needs, calls are made.  This is weak fairness of Progress *)
(* with its enabling condition written out.  No fairness is asked between  *)
(* parties, nor of restarts.                                               *)
(***************************************************************************)
CallDue ==
    \/ \E p \in Honest : sst[p].phase = "Initial"
    \/ \E p \in Honest : /\ sst[p].phase = "Step1"
                         /\ \E list \in DeliverableLists : p \in Range(IdsOf(list))
    \/ CoordHonest /\ ksessions < MaxSessions
    \/ /\ kst.phase = "Initial"
       /\ \E group \in Groups : \A q \in Range(group) : ContributionsFrom[q] # {}
    \/ /\ kst.phase = "Step1"
       /\ \A q \in Range(IdsOf(kst.st.pubnonces)) : PsigsFrom[q] # {}

FairSpec == Spec /\ ([]<>~CallDue \/ []<><<Progress>>_vars)
=============================================================================
