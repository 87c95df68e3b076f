------------------------------ MODULE ChillDKG -----------------------------
(***************************************************************************)
(* A ChillDKG session: the participants' and the coordinator's drivers     *)
(* (src/dkg/mod.rs) composed over a network that may delay, duplicate,     *)
(* reorder and lose messages, with faulty participants and, if             *)
(* CoordHonest is FALSE, a faulty coordinator.  One action per driver      *)
(* call.  Every message ever sent stays available for delivery.            *)
(***************************************************************************)
EXTENDS DkgCoordinator

CONSTANTS
    Parties,        \* every party that has a host key
    Honest,         \* the parties that run this code
    HostSec,        \* host secret keys, by party
    CoordHonest,    \* whether the coordinator runs this code
    ParamChoices,   \* ParamChoices[p]: the session parameters p may be given
    CoordParams,    \* the session parameters the coordinator may be given
    Randoms,        \* the per-session randomness a caller may draw
    FakeRandoms,    \* randomness a faulty coordinator uses to make up the
                    \* messages of honest parties
    Orders,         \* the orders (sequences of parties) in which the
                    \* coordinator's caller may hand over messages
    MaxSessions,    \* bound: drivers created per party and for the coordinator
    AllowClones,    \* whether callers keep clones of drivers and use them
    AllowMisuse     \* whether callers may run a step out of order

Faulty == Parties \ Honest

HostKey(p) == MulG(HostSec[p])

(***************************************************************************)
(* 0 is not a party: it stands for nobody, or for the coordinator.         *)
(***************************************************************************)
ASSUME PartiesAssumption == Honest \subseteq Parties /\ 0 \notin Parties

ASSUME HostSecAssumption == HostSec \in [Parties -> Scalar \ {0}]

(***************************************************************************)
(* Host keys are distinct as x-only keys: no party knows the secret key of *)
(* another, nor its negation.                                              *)
(***************************************************************************)
ASSUME DistinctKeysAssumption ==
    \A p, q \in Parties : XOnly(HostKey(p)) = XOnly(HostKey(q)) => p = q

(***************************************************************************)
(* The types of the code: lists of points and a 32-bit unsigned threshold; *)
(* lists of messages come from parties.                                    *)
(***************************************************************************)
Params == [host_pubkeys : Seq(Scalar), t : Nat]

ASSUME ParamsAssumption ==
    /\ \A p \in Honest : ParamChoices[p] \subseteq Params
    /\ CoordParams \subseteq Params

(***************************************************************************)
(* Coefficients are scalars, in every session that parties may run.        *)
(***************************************************************************)
SessionSeeds ==
    {Seed(HostSec[q], random, EncContext(params.t, params.host_pubkeys)) :
        q \in Parties, random \in Randoms \cup FakeRandoms,
        params \in CoordParams \cup UNION {ParamChoices[p] : p \in Honest}}

ASSUME CoeffHashAssumption ==
    \A seed \in SessionSeeds : \A k \in 0 .. (seed[3][1] - 1) : CoeffHash(seed, k) \in Scalar

ASSUME OrdersAssumption == Orders \subseteq Seq(Parties)

ASSUME SwitchesAssumption ==
    /\ CoordHonest \in BOOLEAN
    /\ AllowClones \in BOOLEAN
    /\ AllowMisuse \in BOOLEAN
    /\ MaxSessions \in Nat \ {0}

VARIABLES
    pst,        \* pst[p]: driver of honest party p
    copies,     \* copies[p]: clones of p's driver that its caller has kept
    perr,       \* perr[p]: the error of p's last call, or NoError
    cst,        \* driver of the coordinator
    cerr,       \* the error of its last call
    pmsg1,      \* pmsg1[p]: first messages sent by p
    cmsg1,      \* first messages broadcast by the honest coordinator
    pmsg2,      \* pmsg2[p]: CertEq signatures sent by p
    certs,      \* certificates broadcast by the honest coordinator
    output,     \* output[p]: outputs p has obtained, with their recovery data
    coutput,    \* the same for the coordinator
    sessions,   \* sessions[p]: drivers created by p, clones in use included
    csessions   \* drivers created by the coordinator

pvars == <<pst, copies, perr, pmsg1, pmsg2, output, sessions>>
cvars == <<cst, cerr, cmsg1, certs, coutput, csessions>>
vars  == <<pst, copies, perr, cst, cerr, pmsg1, cmsg1, pmsg2, certs, output, coutput,
           sessions, csessions>>

NewParticipant(p) == Driver("Initial", [s |-> HostSec[p]])

Init ==
    /\ pst = [p \in Honest |-> NewParticipant(p)]
    /\ copies = [p \in Honest |-> {}]
    /\ perr = [p \in Honest |-> NoError]
    /\ cst = Absent
    /\ cerr = NoError
    /\ pmsg1 = [p \in Honest |-> {}]
    /\ cmsg1 = {}
    /\ pmsg2 = [p \in Honest |-> {}]
    /\ certs = {}
    /\ output = [p \in Honest |-> {}]
    /\ coutput = {}
    /\ sessions = [p \in Honest |-> 1]
    /\ csessions = 0

-----------------------------------------------------------------------------
(***************************************************************************)
(* What faulty parties may send.  A faulty participant knows the protocol  *)
(* and its key: it sends the message the code would, or that message with  *)
(* one field spoilt.                                                       *)
(***************************************************************************)
Up(x) == (x + 1) % Order

SpoiltMsg1(m) ==
    {[m EXCEPT !.commitment = Tail(@)],
     [m EXCEPT !.commitment[1] = Identity],
     [m EXCEPT !.commitment[Len(m.commitment)] = Identity],
     [m EXCEPT !.commitment[1] = Up(@)],
     [m EXCEPT !.commitment[Len(m.commitment)] = Up(@)],
     [m EXCEPT !.pop = NoPop],
     [m EXCEPT !.pubnonce = Identity],
     [m EXCEPT !.pubnonce = Up(@)],
     [m EXCEPT !.enc_shares = Tail(@)]}
    \cup {[m EXCEPT !.enc_shares[j] = Up(@)] : j \in DOMAIN m.enc_shares}

(***************************************************************************)
(* The messages that follow the protocol: a faulty party's own, and those  *)
(* a faulty coordinator makes up for an honest one (host keys do not       *)
(* authenticate a first message).                                          *)
(***************************************************************************)
WellFormedMsg1 ==
    [q \in Parties |->
        LET randoms == IF q \in Faulty THEN Randoms ELSE FakeRandoms
            results == {InitialNext([s |-> HostSec[q]], params, random) :
                            params \in CoordParams, random \in randoms}
        IN  {res.out : res \in {r \in results : r.ok}}]

(***************************************************************************)
(* The first messages that a coordinator aggregates by the protocol.       *)
(***************************************************************************)
ProtocolMsg1 ==
    [q \in Parties |-> WellFormedMsg1[q] \cup IF q \in Honest THEN pmsg1[q] ELSE {}]

FaultyMsg1 ==
    [q \in Faulty |->
        WellFormedMsg1[q] \cup UNION {SpoiltMsg1(m) : m \in WellFormedMsg1[q]}]

(***************************************************************************)
(* The transcripts a faulty party has seen enough of to sign, and the      *)
(* signatures it can put in its place.                                     *)
(***************************************************************************)
SeenTranscripts ==
    {sig.transcript : sig \in UNION {pmsg2[p] : p \in Honest}}
    \cup (IF cst.phase = "Step1" THEN {cst.st.transcript} ELSE {})

SignedBy(q, T) ==
    {Sig(XOnly(HostKey(q)), i, T) :
        i \in {j \in DOMAIN T.host_pubkeys :
                  XOnly(T.host_pubkeys[j]) = XOnly(HostKey(q))}}

FaultySigs(q) == {NoSig} \cup UNION {SignedBy(q, T) : T \in SeenTranscripts}

Msg1From == [q \in Parties |-> IF q \in Honest THEN pmsg1[q] ELSE FaultyMsg1[q]]

SigsFrom == [q \in Parties |-> IF q \in Honest THEN pmsg2[q] ELSE FaultySigs(q)]

(***************************************************************************)
(* One message from each party of a list, in the order of the list.        *)
(***************************************************************************)
Collected(order, from) ==
    {ms \in [DOMAIN order -> UNION {from[order[i]] : i \in DOMAIN order}] :
        \A i \in DOMAIN order : ms[i] \in from[order[i]]}

(***************************************************************************)
(* A faulty coordinator: an aggregate of messages that follow the protocol *)
(* - sent by the parties or made up -, that aggregate with one field       *)
(* spoilt, one in which the secret of any party is moved (commitment and   *)
(* shares), with the proof that it had, or one in which a faulty party's   *)
(* secret is moved and proven anew, so that every check of a participant   *)
(* passes and only the transcripts differ.                                 *)
(***************************************************************************)
AggregatedMsg1 ==
    LET results == UNION {{CoordinatorInitialNext(params, ms) :
                              ms \in Collected(order, ProtocolMsg1)} :
                             params \in CoordParams, order \in Orders}
    IN  {res.out : res \in {r \in results : r.ok}}

SpoiltCmsg1(m) ==
    {[m EXCEPT !.coms_to_secrets = Tail(@)],
     [m EXCEPT !.sum_coms_to_nonconst_terms = Append(@, Identity)],
     [m EXCEPT !.pops = Tail(@)],
     [m EXCEPT !.pubnonces = Tail(@)],
     [m EXCEPT !.enc_secshares = Tail(@)]}
    \cup {[m EXCEPT !.sum_coms_to_nonconst_terms[k] = Up(@)] :
              k \in DOMAIN m.sum_coms_to_nonconst_terms}
    \cup UNION {{[m EXCEPT !.coms_to_secrets[j] = Identity],
                 [m EXCEPT !.coms_to_secrets[j] = Up(@)],
                 [m EXCEPT !.pops[j] = NoPop],
                 [m EXCEPT !.pubnonces[j] = Identity],
                 [m EXCEPT !.pubnonces[j] = Up(@)],
                 [m EXCEPT !.enc_secshares[j] = Up(@)]} : j \in DOMAIN m.pops}

MovedSecret(m, i) ==
    [m EXCEPT !.coms_to_secrets[i] = Up(@),
              !.enc_secshares = [j \in DOMAIN @ |-> Up(@[j])]]

ProvenPop(m, i) == Pop(XOnly(Up(m.coms_to_secrets[i])), i)

MovedAndProven(m, i) == [MovedSecret(m, i) EXCEPT !.pops[i] = ProvenPop(m, i)]

FaultyCmsg1 ==
    AggregatedMsg1
    \cup {MovedAndProven(m, i) : m \in AggregatedMsg1, i \in Faulty}
    \cup UNION {SpoiltCmsg1(m) \cup {MovedSecret(m, i) : i \in DOMAIN m.pops} :
                    m \in AggregatedMsg1}

KnownSigs == {NoSig} \cup UNION {SigsFrom[q] : q \in Parties}

FaultyCerts == UNION {[DOMAIN order -> KnownSigs] : order \in Orders}

(***************************************************************************)
(* What may be delivered to a participant, and the recovery data it may be *)
(* handed: that of the honest holders and, from a faulty coordinator,      *)
(* anything put together from what has been seen.                          *)
(***************************************************************************)
DeliverableCmsg1 == IF CoordHonest THEN cmsg1 ELSE FaultyCmsg1

DeliverableCerts == IF CoordHonest THEN certs ELSE FaultyCerts

PublishedRecovery == {o.recovery : o \in coutput \cup UNION {output[p] : p \in Honest}}

DeliverableRecovery ==
    PublishedRecovery
    \cup (IF CoordHonest THEN {}
          ELSE {[transcript |-> T, cert |-> c] : T \in SeenTranscripts, c \in FaultyCerts})

-----------------------------------------------------------------------------
(***************************************************************************)
(* Calls of the participant's driver.  Unless misuse is allowed a caller   *)
(* runs the step its driver is in.                                         *)
(***************************************************************************)
MayCall(driver, phase) == AllowMisuse \/ driver.phase = phase

ParticipantStep1(p) ==
    /\ MayCall(pst[p], "Initial")
    /\ \E params \in ParamChoices[p], random \in Randoms :
          LET call == Transition(pst[p], "Initial", InitialNext(pst[p].st, params, random))
          IN  /\ pst' = [pst EXCEPT ![p] = call.state]
              /\ perr' = [perr EXCEPT ![p] = ErrorOf(call.reply)]
              /\ pmsg1' = [pmsg1 EXCEPT ![p] =
                              IF call.reply.ok THEN @ \cup {call.reply.val} ELSE @]
    /\ UNCHANGED <<copies, pmsg2, output, sessions, cvars>>

ParticipantStep2(p) ==
    /\ MayCall(pst[p], "Step1")
    /\ \E msg \in DeliverableCmsg1 :
          LET call == Transition(pst[p], "Step1", Step1Next(pst[p].st, msg))
          IN  /\ pst' = [pst EXCEPT ![p] = call.state]
              /\ perr' = [perr EXCEPT ![p] = ErrorOf(call.reply)]
              /\ pmsg2' = [pmsg2 EXCEPT ![p] =
                              IF call.reply.ok THEN @ \cup {call.reply.val} ELSE @]
    /\ UNCHANGED <<copies, pmsg1, output, sessions, cvars>>

ParticipantFinalize(p) ==
    /\ MayCall(pst[p], "Step2")
    /\ \E cert \in DeliverableCerts :
          LET call == Transition(pst[p], "Step2", Step2Next(pst[p].st, cert))
          IN  /\ pst' = [pst EXCEPT ![p] = call.state]
              /\ perr' = [perr EXCEPT ![p] = ErrorOf(call.reply)]
              /\ output' = [output EXCEPT ![p] =
                              IF call.reply.ok THEN @ \cup {call.reply.val} ELSE @]
    /\ UNCHANGED <<copies, pmsg1, pmsg2, sessions, cvars>>

(***************************************************************************)
(* Participant::recover needs no driver, and changes none.                 *)
(***************************************************************************)
ParticipantRecover(p) ==
    /\ \E recovery \in DeliverableRecovery :
          LET res == PartyRecover(HostSec[p], recovery)
          IN  /\ res.ok
              /\ output' = [output EXCEPT ![p] =
                               @ \cup {[output |-> res.val, recovery |-> recovery]}]
    /\ UNCHANGED <<copies, pst, perr, pmsg1, pmsg2, sessions, cvars>>

(***************************************************************************)
(* A driver is Clone: the caller keeps a copy of it as it is now.          *)
(***************************************************************************)
ParticipantClone(p) ==
    /\ AllowClones
    /\ IsActive(pst[p])
    /\ copies' = [copies EXCEPT ![p] = @ \cup {pst[p]}]
    /\ UNCHANGED <<pst, perr, pmsg1, pmsg2, output, sessions, cvars>>

(***************************************************************************)
(* The process stops and starts again: the driver's state is lost, what    *)
(* was sent and the outputs obtained are not, and the new driver is made   *)
(* from the same host secret key.  Or the caller puts the driver aside and *)
(* goes on with a clone that it has kept.                                  *)
(***************************************************************************)
ParticipantRestart(p) ==
    /\ sessions[p] < MaxSessions
    /\ sessions' = [sessions EXCEPT ![p] = @ + 1]
    /\ \E driver \in {NewParticipant(p)} \cup copies[p] :
          pst' = [pst EXCEPT ![p] = driver]
    /\ perr' = [perr EXCEPT ![p] = NoError]
    /\ UNCHANGED <<copies, pmsg1, pmsg2, output, cvars>>

-----------------------------------------------------------------------------
(***************************************************************************)
(* Calls of the coordinator's driver.                                      *)
(***************************************************************************)
CoordinatorCreate ==
    /\ CoordHonest
    /\ csessions < MaxSessions
    /\ csessions' = csessions + 1
    /\ \E params \in CoordParams :
          LET res == CoordinatorNew(params)
          IN  /\ cst' = IF res.ok THEN Driver(res.phase, res.st) ELSE Absent
              /\ cerr' = IF res.ok THEN NoError ELSE res.err
    /\ UNCHANGED <<cmsg1, certs, coutput, pvars>>

CoordinatorStep1 ==
    /\ cst.phase # "Absent"
    /\ MayCall(cst, "Initial")
    /\ \E order \in Orders : \E msgs \in Collected(order, Msg1From) :
          LET call == Transition(cst, "Initial", CoordinatorInitialNext(cst.st, msgs))
          IN  /\ cst' = call.state
              /\ cerr' = ErrorOf(call.reply)
              /\ cmsg1' = IF call.reply.ok THEN cmsg1 \cup {call.reply.val} ELSE cmsg1
    /\ UNCHANGED <<certs, coutput, csessions, pvars>>

CoordinatorStep2 ==
    /\ cst.phase # "Absent"
    /\ MayCall(cst, "Step1")
    /\ \E order \in Orders : \E sigs \in Collected(order, SigsFrom) :
          LET call == Transition(cst, "Step1", CoordinatorStep1Next(cst.st, sigs))
          IN  /\ cst' = call.state
              /\ cerr' = ErrorOf(call.reply)
              /\ IF call.reply.ok
                 THEN /\ certs' = certs \cup {call.reply.val.cert}
                      /\ coutput' = coutput \cup
                             {[output   |-> call.reply.val.output,
                               recovery |-> call.reply.val.recovery]}
                 ELSE UNCHANGED <<certs, coutput>>
    /\ UNCHANGED <<cmsg1, csessions, pvars>>

(***************************************************************************)
(* Coordinator::recover needs no driver and no secret: anybody may run it. *)
(***************************************************************************)
CoordinatorRecovers ==
    /\ \E recovery \in DeliverableRecovery :
          LET res == CoordinatorRecover(recovery)
          IN  /\ res.ok
              /\ coutput' = coutput \cup {[output |-> res.val, recovery |-> recovery]}
    /\ UNCHANGED <<cst, cerr, cmsg1, certs, csessions, pvars>>

-----------------------------------------------------------------------------
ParticipantCall(p) ==
    \/ ParticipantStep1(p)
    \/ ParticipantStep2(p)
    \/ ParticipantFinalize(p)
    \/ ParticipantRecover(p)

CoordinatorCall ==
    \/ CoordinatorCreate
    \/ CoordinatorStep1
    \/ CoordinatorStep2
    \/ CoordinatorRecovers

Progress == CoordinatorCall \/ \E p \in Honest : ParticipantCall(p)

Next == Progress \/ \E p \in Honest : ParticipantClone(p) \/ ParticipantRestart(p)

Spec == Init /\ [][Next]_vars

(***************************************************************************)
(* The callers keep calling: while some call would change something, one   *)
(* is made.  No fairness is asked between parties, nor of restarts.        *)
(***************************************************************************)
FairSpec == Spec /\ WF_vars(Progress)

(***************************************************************************)
(* Only this is asked: nobody leaves recovery data of a holder untried for *)
(* ever.  As outputs are never lost it is weak fairness of                 *)
(* ParticipantRecover(p), for published data.  No other call is ever made  *)
(* for certain.                                                            *)
(***************************************************************************)
RecoveryDue(p) ==
    \E recovery \in PublishedRecovery :
        LET res == PartyRecover(HostSec[p], recovery)
        IN  res.ok /\ [output |-> res.val, recovery |-> recovery] \notin output[p]

FairRecoverySpec == Spec /\ \A p \in Honest : []<>~RecoveryDue(p)
=============================================================================
