# ChillDKG in TLA+

A model of [chilldkg-rs](../src/README.md), a Rust implementation of the ChillDKG
distributed key generation protocol and of FROST signing with the keys it makes.
TLC checks it on small sessions. For every number of parties, every threshold and every
group order (a prime, where one must divide) TLAPS proves type correctness, agreement, recovery, the life cycles of the
drivers, the tweak arithmetic and the single use of signing nonces; that a signature
combines answers that were made for one view, and a signing session implements
threshold signing with one-time tickets; that the shares of a generated key interpolate
to its secret; and that blame, in key generation as in signing, falls on faulty parties
only.

Paths such as `dkg/mod.rs` are below `src/src/`.

1. [The system](#1-the-system)
2. [Modules](#2-modules)
3. [Abstractions](#3-abstractions)
4. [Properties and runs](#4-properties-and-runs)
5. [Fairness](#5-fairness)
6. [Proofs](#6-proofs)
7. [Where the code and its documentation disagree](#7-where-the-code-and-its-documentation-disagree)
8. [What is not modelled](#8-what-is-not-modelled)
9. [Plan](#9-plan)

## 1. The system

`n` participants, known to each other by their *host public keys*, want a `t`-of-`n`
threshold key. They talk to a *coordinator* that nobody has to trust. The crate
contains no network and no storage: callers move messages and keep outputs. All
state is in drivers (`Participant`, `Coordinator`) that a caller advances step by step.

| Component | State | Operations | What makes it correct |
|---|---|---|---|
| DKG drivers (`dkg/mod.rs`) | one enum value: `Initial`, `Step1`, `Step2` (participant only), `Successful`, `Failed` | `new`, `step1`, `step2`, `finalize`, `recover` | phases pass in order; a driver signs once; terminal is terminal |
| Participant states (`dkg/party/`) | own secret key and index; parameters, own nonce and commitment; transcript and output | `next` of the three states, validation of parameters and of the coordinator's message | signs a transcript only if its own contribution and a good share are in it |
| Coordinator states (`dkg/coordinator/`) | parameters; transcript and public output | `new`, `next` of the two states, aggregation | adds up what it was sent; blames the right participant |
| Recovery (`*/recovery.rs`) | none | `recover` of either side from `RecoveryData` | the same output as the session gave |
| Certificate of equality (`crypto/certeq.rs`) | none | transcript, signature, `verify_certeq_certificate` | a certificate means that everybody signed the same transcript |
| Polynomial, encryption, proof of possession, Schnorr, curve helpers (`crypto/`) | none | pure functions | shares lie on the committed polynomial; pads cancel |
| Lagrange (`crypto/lagrange.rs`) | none | coefficients, interpolation of the key | any `t` shares give the key |
| Tweaks (`crypto/tweak.rs`) | a context: key, accumulators `gacc`, `tacc` | `apply`, `apply_all` | signers and verifiers flip the same signs |
| Signing drivers (`sign/mod.rs`) | `Initial`, `Step1`, `Successful`, `Failed` | `new`, `step1`, `finalize` or `step2` | rounds pass in order; a nonce is consumed by the one step that uses it |
| Signer states (`sign/party/`) | share and key; secret nonce, optionally bound to message and tweaks | nonce generation, partial signature | a nonce signs one message under one key |
| Signing coordinator (`sign/coordinator/`) | key; the nonces by id | validation of the signers, nonce aggregation, partial verification, aggregation | blames only the signer at fault; combines what was made for one view only |
| Messages and errors (`dkg/msg.rs`, `*/errors.rs`) | none | serialization; who is at fault | |

How they interact. A participant's `step1` produces `ParticipantMsg1` (commitment,
proof of possession, nonce, encrypted shares). The coordinator's `step1` takes a list
of them, *in the order of the host keys and with no sender attached*, and aggregates
it into `CoordinatorMsg1`. A participant's `step2` checks the aggregate against its
own contribution, decrypts its share, verifies it, and signs the transcript. The
coordinator's `step2` puts the signatures into a certificate, and `finalize` verifies
it and releases the output. Anyone who has recovery data may run `recover`.

Signing starts from DKG outputs. A signer's `step1` makes a nonce pair and publishes
it with the signer's id; the coordinator's `step1` takes the list of them (who is in
it is the signing subset), validates and relays it. A signer's `finalize` takes that
list, the message and the tweaks *from its own caller* and answers with a partial
signature; the coordinator's `step2` takes the partial signatures, a message and
tweaks from *its* caller, verifies each one, adds them up and verifies the sum.
Nothing in a message tells which session it belongs to.

What is hard here:

- the coordinator may be faulty, alone or with participants: it may tell each party a
  different story, replace messages (host keys do not authenticate the first one), or
  certify to some and not to others;
- processes restart with the same host key while the messages of the abandoned
  session are still around;
- callers run steps twice, out of order, after an error, or with wrong parameters;
- some parties fail at the last step after others already hold the key;
- shares of all senders are added up under pads, so that a fault cannot be located,
  and two separate pieces of code (`next` and `recover`) derive the same output;
- a signing nonce that answers twice reveals the secret share, whatever makes it
  answer twice: a step run again, another list, a restart, randomness that repeats;
- the parities of three points (final nonce, key, tweaked key) decide about signs in
  four places, on both sides; a mistake shows in half of the sessions.

`PROJECT.json` lists these as hazards, each at its line with the properties for it.

## 2. Modules

| Module | Models |
|---|---|
| `Results` | `Ok`, `Err` and the error variants with the participant they name (`dkg/errors.rs`); the driver's wrapper: `Transition` is `Participant::transition` and `Coordinator::transition` (terminal check, conversion of the state, `next`, store) |
| `Group` | scalars and points, x-only keys, tap tweak, public shares (`crypto/ec.rs`) |
| `DkgCrypto` | `crypto/poly.rs`, `pop.rs`, `enc.rs`, `certeq.rs` |
| `DkgParty` | `dkg/party/mod.rs`, `transitions.rs`, `recovery.rs` as functions from state and message to a result |
| `DkgCoordinator` | the same for `dkg/coordinator/` |
| `Lagrange` | `crypto/lagrange.rs` |
| `ChillDKG` | the session: the drivers of the honest parties and of the coordinator as variables, one action per call, the network, restarts, and what faulty parties may send |
| `CertEq` | abstract: what the certificate of equality promises |
| `Lifecycle` | abstract: what a driver promises its caller |
| `ChillDKGProperties` | the properties, and the refinement mappings to the two abstract modules |
| `Tweak` | `crypto/tweak.rs` |
| `TweakChain` | a key to which a caller applies one tweak after another, and its properties |
| `FrostCrypto` | the arithmetic of signing: `sign/coordinator/verify.rs`, `sign/party/nonce.rs`, BIP340 verification (`crypto/schnorr.rs`) |
| `SignParty` | `sign/party/sign.rs`, `sign/party/transitions.rs` as functions |
| `SignCoordinator` | `sign/coordinator/transitions.rs` as functions |
| `SigningSession` | the signing session: the drivers of `sign/mod.rs` as variables, one action per call, the network, restarts, faulty signers and coordinator |
| `ThresholdSigning` | abstract: one-time tickets, spent on what they are tied to, and signatures granted for spent tickets |
| `SigningProperties` | the properties of signing, and the refinement mappings to `ThresholdSigning` and `Lifecycle` |
| `MCHashes`, `MCChillDKG`, `MCTweakChain`, `MCSigning` | values of the constants for TLC |
| `MCFaultyParticipant` | `MCChillDKG` with the assumptions of the theorem about blame in the DKG, for TLC to evaluate |
| `MCStaleLists`, `MCFaultySigner` | `MCSigning` with the assumptions of the theorems about views and about blame, for TLC to evaluate |
| `ChillDKGProofs` | proofs: types, certificates, agreement, life cycles |
| `ChillDKGOutputProofs` | proofs: what outputs were made from, that recovery data rebuilds them, and that the key they hold is usable |
| `ChillDKGBlameProofs` | proof: no honest party of a DKG is blamed; what dealers share adds up |
| `FieldLemmas` | lemmas: induction, sums, products and inverses modulo the order, Lagrange coefficients, linearity of commitments, tweaks |
| `TweakProofs` | proofs about tweaks |
| `SigningProofs` | lemmas: lists of nonces in the order of ids, session values, the verification equation and its sum; proofs about nonces and signing drivers |
| `SigningViewProofs` | proofs: one view per signature, the refinement of `ThresholdSigning` |
| `SigningBlameProofs` | proof: only faulty signers are named |

`Results` <- `Group` <- `DkgCrypto` <- `DkgParty` <- `DkgCoordinator` <- `ChillDKG` <-
`ChillDKGProperties` (with `Lagrange`) <- `MCChillDKG` <- `MCFaultyParticipant`; and
`ChillDKGProperties` <- `ChillDKGProofs` <- `ChillDKGOutputProofs` (with `FieldLemmas`)
<- `ChillDKGBlameProofs`.

`Group` <- `Tweak`, `Lagrange` <- `FrostCrypto` <- `SignParty` <- `SignCoordinator` <-
`SigningSession` <- `SigningProperties` <- `SigningProofs` (with `FieldLemmas`) <-
`SigningViewProofs` <- `SigningBlameProofs`; and `SigningProperties` <- `MCSigning` <- `MCStaleLists`, `MCFaultySigner`. `MCSigning` also extends the DKG modules: the key of its instances is the output of an honest DKG, which
TLC computes by the functions of `DkgParty` and `DkgCoordinator` and compares with the
numbers written there (`KeyIsDkgOutput`).

Variables of `ChillDKG` and the code:

| Variable | Code |
|---|---|
| `pst[p]`, `cst` | `Participant.state`, `Coordinator.state`: a phase and the fields of its state |
| `copies[p]` | clones of `Participant` that the caller has kept |
| `perr[p]`, `cerr` | the error that the last call returned (nothing if it succeeded) |
| `pmsg1`, `cmsg1`, `pmsg2`, `certs` | messages returned to the callers, kept for ever: delivery may be late, repeated, reordered or not happen |
| `output[p]`, `coutput` | outputs with their recovery data, in the caller's keeping (they survive a restart) |
| `sessions[p]`, `csessions` | number of drivers made, bounded by `MaxSessions` |

| Action | Code |
|---|---|
| `ParticipantStep1/Step2/Finalize(p)` | `Participant::step1`, `step2`, `finalize` |
| `ParticipantRecover(p)` | `Participant::recover`, any number of times |
| `ParticipantClone(p)` | `Participant::clone`, of an active driver |
| `ParticipantRestart(p)` | the process loses its driver; `Participant::new_with_secret` with the same key, or a clone made before |
| `CoordinatorCreate` | `Coordinator::new`, also after a failed or abandoned session |
| `CoordinatorStep1/Step2` | `Coordinator::step1`, `step2` |
| `CoordinatorRecovers` | `Coordinator::recover`: it needs no secret, so anybody may call it |

An honest coordinator is a driver; with `CoordHonest = FALSE` there is none, and a
participant is handed any message from `FaultyCmsg1`, `FaultyCerts` or made-up
recovery data: aggregates of real and made-up messages, such aggregates with any one
field spoilt or any list shortened, aggregates in which the secret of any participant is
moved (commitment and shares; the old proof fits it if the point was only negated),
aggregates in which that of a faulty one is moved and proven anew, and certificates put together from every signature ever seen.
A faulty participant sends what the code would, that with any one field spoilt, and
signatures on any transcript it has seen, or none that verifies. These sets are what
"faulty" means in the runs and in the theorems: they are built to pass all checks but
one, or all of them, and are not every message there is.

Variables of `SigningSession` and the code:

| Variable | Code |
|---|---|
| `request` | the message and tweaks that callers have agreed on (used if `CallersAgree`) |
| `sst[p]`, `kst` | `Signer.state` and the signing `Coordinator.state` |
| `serr[p]`, `kerr` | the error of the last call |
| `nonces[p]`, `psigs[p]` | what `p` has sent; each is kept with what it was made for, which the message itself does not carry |
| `drawn[p]` | randomness `p`'s caller has used |
| `relayed`, `sigs` | lists and signatures the coordinator has returned |
| `sessions[p]`, `ksessions` | number of drivers made, bounded by `MaxSessions` |

`SignerStep1`, `SignerFinalize`, `CoordinatorStep1` and `CoordinatorStep2` are the
calls of the same names, `CoordinatorCreate` and `SignerRestart` make drivers. With
`CoordHonest = FALSE` a signer is handed every list over its groups of ids, with its
own nonce, that of a faulty party, the negation of an honest one or the identity at
each place. A faulty signer answers for the nonces it knows, correctly or off by one.

## 3. Abstractions

*Indices.* The code counts parties from 0 and evaluates the polynomial at `idx + 1`.
TLA+ sequences count from 1, so party `i` here is `idx = i - 1` there and its
evaluation point is `i`. An index that an error names is shifted in the same way.

*Group.* Points are written by their discrete logarithm modulo `Order`, so that
`MulG` is reduction and adding points is addition; nothing in the model reads a
logarithm that the code could not. `Neg` is the other point with the same x
coordinate. The runs use the order 11 (`restarts`: 23): prime (Lagrange divides), larger than `n`, and
with 5 x coordinates, enough for distinct x-only host keys of three parties. A small
group makes collisions *more* likely than the real one, so that the checked
properties hold in spite of them.

*Hashes* are constant operators, one per tag. What the proofs assume of them is listed in
section 6. For TLC they mix all their inputs and are never zero; `MCTapHash` is chosen so that no
x-only key of this group is tweaked into the identity, an event the real hash
produces with negligible probability and the code does not check for.

*Signing* needs a larger group: nonces, coefficients and challenges of different
sessions must not collide by chance, since no check could tell them apart then. Its
runs use the prime order 40009, and `NoncesAssumption` states for the instance what is
needed of the nonce hash (different inputs make different nonces); TLC evaluates it.
Here signatures are scalars and points, and BIP340 verification is the real equation.

*Signatures* of the DKG are records of the key and the message for which they verify: a Schnorr
signature or proof of possession can be made by the holder of the key only, and says
nothing of other messages. Keys in signatures are x-only, as in the code. A proof of
possession covers the x-only commitment and the index of its party.

*Byte formats.* The encryption context and the transcript are tuples and records of
what is serialized: their encodings are injective, which is all that the protocol
needs of them.

*Randomness.* `Randoms` is the set of session randomness a caller draws from; drawing
a value twice is possible, and the real hazard (a restarted party that repeats its
randomness) is included.

*Parameters.* `ParamChoices[p]` is what the caller of `p` may pass to `step1`, valid
or not, and `CoordParams` the same for the coordinator.

*Faulty signers* answer only for nonces whose secrets they know: to answer for the
negation of an honest nonce one would have to forge. *Senders* of nonces and partial
signatures are authentic: the ids come from the callers, who know whom they heard
from, so that nobody sends under the id of an honest signer to an honest coordinator.

*Optional values* (message and tweaks at round 1) are sets of at most one element.

*Bounds.* `MaxSessions` (drivers per party and for the coordinator) is the only bound
in a guard. `AllowMisuse` lets callers run a step in any phase; without it they run
the step the driver is in, which cuts down states in runs that are not about misuse.

## 4. Properties and runs

The runs of the DKG use order 11, but `restarts`, which uses 23. Deadlock is not checked in sessions, which really
end; it is in `tweak_chain`.

| Run | Instance | Checks |
|---|---|---|
| `honest_session` | 3 honest parties, t = 2, honest coordinator, 2 draws of randomness | `HonestSessionCompletes`: every driver succeeds in the end. Fails as soon as a check of one side rejects what the other side sends |
| `faulty_participant` | party 3 faulty, honest coordinator, 2 draws | `BlameSound`: no honest party is ever blamed; `SamePublicOutput`: finalized and recovered outputs of one transcript agree, on both sides |
| `faulty_coordinator` | party 3 and the coordinator faulty together; party 2 may have been given another threshold or key order, and the coordinator knows all of them | `Agreement`, `ContributionIncluded`, `Recoverable`, `KeyUsable`; `ParametersAgreed`: nobody ends with parameters that an honest member was not given; the refinement `ImplementsCertEq`; `OneSucceedsAllSucceed`: once one honest party holds the output, every other gets it in the end through recovery |
| `restarts` | 2 honest parties, one restart each, faulty coordinator replaying the abandoned session | `CertifiedByAll`; `ContributionIncluded`: what a party signs, and what a holder keeps, was made with the nonce and the commitment of one first message of each honest party concerned; `ContributionSignedOnce`: with a nonce of its own for each session, a party signs one transcript with each nonce |
| `misuse` | 3 honest but careless callers: thresholds 0 and 4, keys repeated, missing, reordered or the identity, message lists out of order, short or with repeats | `TypeOK`; `SignedInPlace`: a participant signs no list in which a message stands in another's place; the refinement `ImplementsLifecycle` |
| `clones` | 1 honest party of 2, faulty coordinator; its caller runs steps in any order, clones its driver in any phase and goes on from a clone | `SignOncePerSession` (a retry from a clone counts as a session), `Recoverable` |
| `terminal_error` | 2 honest parties, steps in any order | violation of `ErrorMovesToFailed`, see section 7 |

| Run | Instance | Checks |
|---|---|---|
| `tweak_chain` | order 13: every key, every chain of tweaks | `TypeOK`; `AccumulatorsTrack`: the tweaked key is `gacc * key + tacc`; `SignersHoldEvenKey`: what signers multiply by and what the aggregator adds make the even tweaked key |
| `faulty_signer` | party 3 faulty, honest coordinator, callers agree; t = 2, nine orders of pairs and of the whole group, five tweak chains | `AbortNamesFaulty`: nobody fails but the coordinator, and it names party 3; `SigningCompletes`: a signature that verifies, or that name, comes out in the end |
| `nonce_once` | 1 honest signer, faulty coordinator and partner, two messages, bound or not, steps in any order, one restart with fresh randomness | `NonceUsedOnce`: a nonce is in one partial signature only |
| `stale_lists` | 1 honest signer and a faulty one, honest coordinator, restarts, messages of the abandoned session delivered; callers disagree on message and tweaks and bind them or not | `OneViewPerSignature`: signers whose answers are combined agreed on set, aggregate nonce, message and key, and on their own nonce; the refinement `ImplementsThresholdSigning` |
| `signing_misuse` | as `stale_lists`, with two messages under one key and one of them under a second, all nonces bound, steps in any order, short lists and lists with repeats, and randomness that repeats after a restart | `SignTypeOK`; `NonceKeepsItsRequest`: a nonce made with message and tweaks signs one message under one key; the refinement `ImplementsSignLifecycle` |

Why the instances are enough. Every check in the code compares one party's data with
the coordinator's message or sums over parties; what goes wrong in such checks shows
with one honest verifier, a second honest party that could be told something else, and
one faulty party, hence n = 3 and t = 2 (both the constant term, with its tweak, and a
further coefficient are there; with t < n the shares of a proper subset must suffice).
Runs in which drivers are made again (`restarts`, `clones`) use n = t = 2. `restarts`
takes the larger group because it compares commitments: among the scalars of a small
one a replaced commitment is too often a right one by chance. One restart
suffices to have an old and a current session. Field changes are one at a time; since
checks are made in order and stop at the first that fails, two spoilt fields act as
one of them. Every property is accompanied by a mutant of the code it is about (listed
in `PROJECT.json`, defined next to the definition it replaces), under which its run
finds a violation: the interesting cases are reached.

`BlameSound` is stated for equal parameters and lists in order. It is *not* true when
a caller hands the coordinator a list out of order: the messages carry no sender, and
the coordinator blames whoever is at that position. That is the interface's contract
(`misuse` runs through it), not a claim about the code. What the code does guarantee
then is `SignedInPlace`: the proof of possession covers the index of its maker, so that
no participant signs such a list, and no key comes of it.

`ContributionIncluded` does not ask that the commitments of *other* parties be those
they sent: a transcript holds only the sum, and the coordinator may put in another
commitment that was proven for the same place. It asks for a sum with the party's own
commitment in it and, in every other place, a commitment that somebody proved for that
place. A faulty party can prove any commitment for its place, so that with one in the
group (`faulty_coordinator`) nearly every sum is such a sum and the run is about the
nonce; in `restarts` all parties are honest, the proofs are few, and a participant that
does not compare the echo of its commitment is found out.

For signing, t = 2 and n = 3 let a subset sign and leave one out, so that Lagrange
coefficients differ by group; keys and nonces of both parities and tweak chains with
and without flips are among the instances (the mutants that forget one flip fail).
Requests that differ in the message (`nonce_once`), in message and key (`stale_lists`) or
in one of them (`signing_misuse`) are what disagreeing callers need; a view is compared with the
coordinator's, signer by signer, so that one honest signer and one faulty partner show
what can go wrong with it. `MaxSessions = 2` gives an old and a current session.

`OneViewPerSignature` is about aggregates, not lists: swapping which signer a nonce is
listed for does not change the aggregate, and a signer does not look for its own nonce
in the list. The coordinator's own list is what ties a nonce to its signer.
`NonceKeepsItsRequest` says nothing of lists: with repeated randomness a nonce may
answer for two of them, which already reveals the share. It is what the code's hash
inputs do guarantee, for a nonce that is made with message and tweaks whenever it is
made; `NonceUsedOnce` needs fresh randomness, as the code's documentation
asks.

`Agreement` needs the premise that no party restarted: a party that starts over with
the same host key signs again, and then two transcripts may both be certified.
`CertifiedByAll`, `ContributionIncluded` and `ContributionSignedOnce` are what remains
true with restarts. The last needs nonces that differ: if randomness repeats, the
aggregate of the abandoned session fits the new one and is signed again (with the same
transcript, or with another if the coordinator changed what else is in it). That is why
it counts nonces and sessions: `restarts` has both, repeated randomness and fresh.

## 5. Fairness

`FairSpec` (`honest_session`) adds `WF_vars(Progress)`: while some call of some driver
would change something, one is made in the end. The crate runs nothing by itself, so
liveness can only mean "if callers keep calling and messages arrive". There is no
fairness between parties, between messages, or of restarts. In this run every call
moves a driver to a later phase or adds an output, so the weak form is enough for the
session to end.

`FairRecoverySpec` (`faulty_coordinator`) asks for less: a party that could recover
from the data of a holder does so in the end (`RecoveryDue`). No step of a driver need
ever be taken, and the coordinator need never send a good message. Outputs are never
lost, so this is weak fairness of `ParticipantRecover(p)` for published data, written
as a condition on states.

`SigningSession!FairSpec` (`faulty_signer`) is like `FairSpec`, with the enabling
condition written out (`CallDue`: some caller has all that the next call of its driver
needs): in a session where every list is one of thousands, evaluating `ENABLED` is
what TLC would spend its time on. `CallDue` is a condition on what has been delivered,
not on what a call would return. It makes faulty signers keep answering, too: a signer
that stays silent stops a session for ever, and the code has no timeout. What the
answer says is left to the faulty signer.

## 6. Proofs

For all values of the constants:

| Theorem | Property | Module |
|---|---|---|
| `TypeCorrect` | `TypeOK` | `ChillDKGProofs` |
| `CertificateMeansAllSigned` | `CertifiedByAll` | |
| `OneSignaturePerSession` | `SignOncePerSession` | |
| `AllAgree` | `Agreement` | |
| `SessionImplementsCertEq` | `ImplementsCertEq` (the session refines `CertEq`) | |
| `OneOutputPerTranscript` | `SamePublicOutput` | `ChillDKGOutputProofs` |
| `ParametersAreAgreed` | `ParametersAgreed` | |
| `AllContribute` | `ContributionIncluded` | |
| `ListsAreInPlace` | `SignedInPlace` | |
| `NoncesSignOnce` | `ContributionSignedOnce` | |
| `RecoveryDataRecovers` | `Recoverable` | |
| `KeyIsUsable` | `KeyUsable` | |
| `BlameIsSound` | `BlameSound`, in one agreed session | `ChillDKGBlameProofs` |
| `DriversKeepTheirLifecycle` | `ImplementsLifecycle` | `ChillDKGProofs` |
| `ChainTypeCorrect`, `AccumulatorsCorrect`, `EvenKeyHeld` | `TypeOK`, `AccumulatorsTrack`, `SignersHoldEvenKey` of `TweakChain` | `TweakProofs` |
| `SigningTypeCorrect` | `SignTypeOK` | `SigningProofs` |
| `NoncesAreUsedOnce` | `NonceUsedOnce`, if randomness is fresh | |
| `NoncesKeepTheirRequest` | `NonceKeepsItsRequest` | |
| `SignDriversKeepTheirLifecycle` | `ImplementsSignLifecycle` | |
| `SignersHadOneView` | `OneViewPerSignature` | `SigningViewProofs` |
| `SigningIsThresholdSigning` | `ImplementsThresholdSigning` (the session refines `ThresholdSigning`), if randomness is fresh | |
| `OnlyFaultyAreNamed` | `AbortNamesFaulty` | `SigningBlameProofs` |

Assumptions, all named in the modules that declare the constants and evaluated by TLC.
For the DKG: the group order is greater than 2 (`OrderAssumption`);
honest parties are parties (`PartiesAssumption`), host secrets are not zero
(`HostSecAssumption`), x-only host keys are distinct (`DistinctKeysAssumption`),
parameters have the types of the code (`ParamsAssumption`), lists of messages come
from parties (`OrdersAssumption`). Any number of parties may be faulty, with the
coordinator; `n`, `t`, the set of restarts and clones and what callers pass are
arbitrary. `AllContribute` and `ListsAreInPlace` need that the coefficients' hash gives
scalars (`CoeffHashAssumption`). Two theorems need more. `KeyIsUsable`: that the order is a prime (`OrderPrime`, to
divide), that the hashes for tap tweaks and coefficients give scalars
(`TapHashAssumption`, `CoeffHashAssumption`: the code parses them and refuses a hash
out of range, which no input is known to give), and that no key is tweaked into the identity
(`TweakedKeyAssumption`): the code does not check it, and interpolation would refuse
that key. `BlameIsSound` does not need the prime. Of the other hashes nothing is
assumed, but by `BlameIsSound`, which states its premises; `MCFaultyParticipant` has TLC
evaluate them for the instance of its run:

- `OneAgreedSession`: the parameters are agreed, each party has one driver, and the
  coordinator's caller hands it lists whose messages stand at the place of their
  sender's key. Section 4 says why blame is about such sessions only; the list may
  still be too short or too long.
- `HashesAreScalars`: pads and nonces are scalars (the code parses the hashes), and no
  coefficient after the constant one is zero. The code refuses a zero nonce and a zero
  constant coefficient where they are made, but an honest dealer with a zero in a later
  place sends a commitment that the coordinator refuses, and is blamed for a hash.

`TweakProofs` needs keys that are points and
tweaks that are numbers (`KeysAssumption`, `TweaksAssumption`).

For signing: the order is a prime (`OrderPrime`) greater than the largest number of
participants (`MaxParticipantsAssumption`; 128 in the code), the key has one public
share per party, that of its secret share (`KeyAssumption`), inputs have their types
(`InputsAssumption`, `ScalarsAssumption`, `HashesAssumption`), and a signer's nonces
that are equal were made from the same randomness, message and x-only key
(`NoncesAssumption`). That is what the real hash gives except with negligible
probability, and what the theorems about nonces cannot do without. Two theorems
assume more, in their statements; `MCStaleLists` and `MCFaultySigner` have TLC evaluate
it for the instances of their runs:

- `SignersHadOneView`, `SigningIsThresholdSigning`: `AnswersTellViews`, that no two
  answers an honest signer may give are equal unless they are made with one nonce for
  one view. The coordinator can only compare an answer with the verification equation;
  an answer to another view that happens to satisfy it would be combined.
- `OnlyFaultyAreNamed`: callers that agree and one session each, as the property says
  (`OneAgreedSession`); groups of members whose public shares give the key
  (`GroupsCanSign`; the code refuses others before it blames anybody); no hash that is
  zero and no tweak to the identity (`HashesDoNotFail`); and `CancelledUnanswered`. The
  code replaces a final nonce that is the identity by the generator, and then correct
  answers do not add up. Nonces add up to it when a faulty signer sends the opposite of
  the others' nonces; it cannot answer for such a nonce, and this is what is assumed.

The argument. `TypeOK` says what each phase holds; in particular a participant's index
is the position of its own host key. It is inductive by itself.

`CertifiedByAll` is not inductive: to know that a held certificate was signed by the
honest members one must know where signatures come from. `CertificateInv` adds that
signatures in `pmsg2[p]` are of `p`'s own key, that every signature by the key of an
honest party that occurs in a certificate or in recovery data was made by that party
(`Authentic`; by distinctness of x-only keys a faulty party's signature is never
taken for it), and that everything held comes with a certificate that verifies. The
lemmas about them say what each `next` function returns when it succeeds, so that
the step proofs do not unfold them.

`SignOncePerSession` is strengthened by counting the drivers that can still sign:
`Cardinality(pmsg2[p])` plus one if `p`'s driver is before its second step is at most
`sessions[p]`. `Agreement` follows: two held transcripts with an honest member in
common are both signed by it, and it has signed one. The refinement maps what parties
have signed and what holders hold; each action is a `Sign`, an `Accept` or a stutter.

`ParametersAgreed` and `SamePublicOutput` follow from `OutputInv` (with
`CertificateInv` for the first): whatever a driver, a clone, a signature or a held
output consists of, it has parameters its own caller gave, a nonce it has sent at its
own position, and the public output that its transcript determines.

`ContributionIncluded` and `SignedInPlace` need `ContributionInv`. A driver past its
first step, and a clone of one, holds nonce and commitment of one message that it has
sent (`BeganWith`). Every proof that an aggregate carries has been made by somebody
(`SentProofs`: for what a faulty coordinator delivers, too), and an honest
coordinator's aggregate carries the nonce and the proof of one message in each place
(`Gathered`). The second step compares nonce and commitment with the driver's own and
verifies each other proof for its index: so what it signs is made with the one message,
and the proofs name a proven commitment for each other place. For held outputs
`CertifiedByAll` says that each honest member has signed.

`ContributionSignedOnce` is a count (`NonceAccount`). Write s for the nonces a party has
sent, c for its signatures, u for the nonces in them together with that of its waiting
driver: s + c + 1 (while the driver can still sign) is at most the number of drivers
made plus u. A first step adds to s only what it adds to u; a signature adds one to c
and leaves a driver that cannot sign; a restart, or a clone put to use, may take the
waiting nonce from u and adds a driver. If there are as many nonces as drivers, c is at
most the number of nonces in signatures: none is in two.

`Recoverable` needs `RecoveryInv`: what a driver computed at its second step is what
`recover` would compute from the transcript it signed (`Rebuilds`, `Rebuilt`), and a
certificate in hand verifies. Since steps and `recover` are different code, the lemmas
that each of them makes `Rebuilt` are the core of the proof; the rest carries the fact
through clones, restarts and finalization.

`KeyUsable` is where the arithmetic is. `PointsInv` says that the commitments that are
sent, aggregated and signed are lists of points, a signed one with as many terms as its
threshold: the lemmas go through all that faulty parties may send, and an aggregate of
no messages, which may hold anything, is refused by every party. With `RecoveryInv` the
share of a holder is the value at its position of the polynomial that the signed
commitment, tweaked, stands for (`HoldersShare`); holders stand at different positions
(`HoldersApart`), all of them below the order, since valid keys are distinct and not
the identity (`ValidKeys`). The rest is `SharesInterpolate` in `FieldLemmas`, Lagrange
interpolation at zero in the code's own form: the coefficients of any set of positions
add up to one (`WeightsSumToOne`) and cancel every power of the position below the
number of positions (`PowersVanish`), both by induction on that number.

`BlameSound` needs completeness: what honest parties send passes every check. Without
an honest coordinator there is none to be blamed by, and that is the invariant. With
one, `SessionInv` says that the session has one of everything: an honest party has sent
one message, that of its first step with the randomness it holds (`OneStepEach`); the
coordinator has sent one aggregate, of messages it took in the order of the keys
(`OneAggregate`); and every transcript that a driver holds, or an honest party has
signed, is the one of that aggregate, as is every certificate (`OneTranscript`). It is
proved before blame and without it. Each call is then compared with what `SessionInv`
says of its input:

- what is blamed by place (nonces, commitments, proofs of possession, signatures): an
  honest message passes the check of its place, so that whoever fails it is faulty;
- what blames nobody in particular, a share that does not match the commitments: this
  must not happen when all are honest. Dealers evaluate their polynomial by Horner's
  rule and the coordinator's commitments are evaluated with powers (`EvalIsHorner`);
  the pad that a dealer adds for a participant is the one that the participant
  subtracts, of the same Diffie-Hellman key, or of its own secret for itself; the sum of
  the commitments, evaluated, is the sum of the evaluations (`FieldLemmas`, by induction
  on the number of dealers and of terms); and the tap tweak moves the share and the
  public share by the same amount.

The life cycles need only that clones are of active drivers and that a coordinator
without sessions is absent (`LifecycleInv`, `CreatedInv`); each call is a step of
`Lifecycle` by the cases of `Transition`.

For tweaks, `TypeOK /\ AccumulatorsTrack` is inductive; the steps are modular
arithmetic, done in lemmas about `%` that the solver can use.

`NonceUsedOnce`: `NoncesInv` ties every nonce to a random value drawn for it and every
partial signature to a nonce sent, and `UnusedInv` says that the nonce a driver holds
has signed nothing. A new nonce was made from a value not drawn before, so it differs
from all others; signing consumes the driver. `NonceKeepsItsRequest` follows from
`NoncesInv` alone: of two answers with one nonce each was tied to the request that some
sent nonce was made for, and equal nonces have equal inputs.

`OneViewPerSignature`: `SessionInv` says that the nonce of a driver was made from a
secret pair of its signer (`HeldInv`), that what the coordinator holds is a list it
relayed, sorted by id, of members that passed validation (`RelayedInv`), and that every
partial signature is the answer of such a pair to a relayed list (`AnsweredInv`). When
the coordinator combines, each response satisfies the verification equation for its
member and the coordinator's list. The equation has one solution (`VerifiedIsAnswer`),
the answer that the member would have given to that list; the response of an honest
member is an answer it gave to some list, and `AnswersTellViews` makes the two views
one. The order of a list changes neither its aggregate nonce nor its coefficients
(`AggregateIgnoresOrder`, `LagrangeIgnoresOrder`): the coordinator's sorted list and
the relayed one are a single view.

`ImplementsThresholdSigning` puts these together step by step: round 1 issues a ticket,
a partial signature spends it (the ticket is unspent by `UnusedInv`, and tied to what is
signed by `NoncesInv`), and a signature is granted for tickets that are spent on its
message and key, by `OneViewPerSignature`. All other steps stutter.

`AbortNamesFaulty` needs completeness where the others need soundness: an honest answer
is accepted. `BlameInv` adds to `SessionInv` that in one agreed session a signer makes
one nonce, the coordinator relays one list, an honest member's place in it holds that
member's nonce, and everything signed is signed for the agreed request. So an honest
member's response is the answer to the coordinator's own list and satisfies the
equation (`AnswerPasses`): who fails it is faulty (`BadIsFaulty`). If all responses
satisfy it they add up, over the Lagrange coefficients, to a signature that BIP340
verification accepts (`VerifiedAddUp`, `SharesAddUp`, `PassedMakeSignature`), so that
the last check of the coordinator, which would name nobody, never fails.

`FieldLemmas` has what this takes: sums and products are folds over sets, and their
linearity, their invariance under permutation and the field inverse are proved by
induction over `0 .. n`, written as the set of the numbers for which a fact holds
(`Induction`), since the induction theorems of the library cannot be instantiated.

Only model-checked: the liveness properties (`HonestSessionCompletes`,
`OneSucceedsAllSucceed`, `SigningCompletes`), as fairness is out of the prover's reach.
Every safety invariant, action property and refinement of a passing run is a theorem.

## 7. Where the code and its documentation disagree

`src/README.md:95-97` says that a step run twice or out of order returns an error "and
any error moves the driver to a terminal failed state"; the comment at `dkg/mod.rs:32`
says the same. `only_active` (`dkg/mod.rs:222-230`) makes it untrue of a driver that
has succeeded: a further step returns the error `Runtime` and the driver stays
`Successful`, as the comment in `transition` intends ("Call on the terminal state
shouldn't change it"). The run `terminal_error` shows it. What drivers really promise
is `Lifecycle`. The signing drivers have the same `only_active` (`sign/mod.rs:168-176`)
and the same sentence (`sign/mod.rs:64-67`).

## 8. What is not modelled

- Byte formats: parsing and serialization of messages, keys, the transcript and
  signatures, and the strings of the hash tags.
- Wiping of secrets, and the `Replaced` placeholder: a panic inside a step would leave
  it behind; panics are not modelled.
- Two clones of a driver stepped side by side. A clone that is gone on from is a
  session of its own; what side by side use does to `SignOncePerSession` is shown by
  the mutant `TransitionOfClone`. `Signer` is not `Clone`; clones of the signing
  coordinator hold public data only and are like its restarts.
- Events that a hash produces with negligible probability (a zero coefficient, a key
  tweaked to the identity), and keys that differ only in the sign (P and -P pass the
  duplicate check of the code; `DistinctKeysAssumption` excludes them).
- `sample_nonce` and `partial_sign` called directly: their documentation leaves single
  use of a nonce to the caller. The extra input of nonce generation, which no caller
  in the repository gives.
- That a key of more than 128 participants can be generated and not be used for
  signing: `MaxParticipants` is a parameter, instances are smaller.
- Anything about secrecy or unforgeability.
- The tests and vectors, and the build.

## 9. Plan

Done: the DKG (`Results`, `Group`, `DkgCrypto`, `DkgParty`, `DkgCoordinator`,
`ChillDKG`) with clones, `Tweak` and `TweakChain`, `Lagrange`, signing (`FrostCrypto`,
`SignParty`, `SignCoordinator`, `SigningSession`), the abstract `CertEq`, `Lifecycle`
and `ThresholdSigning`, the runs above, and the proofs of section 6.

Next: the transcript's parser (`crypto/certeq.rs`) as an inverse of its serialization.
