------------------------------ MODULE MCSigning ----------------------------
(***************************************************************************)
(* Values of the constants for TLC: the key material is the output of an   *)
(* honest DKG session, by the functions of the DKG modules.                *)
(***************************************************************************)
EXTENDS SigningProperties, DkgCoordinator, MCHashes

CONSTANTS
    N,          \* number of parties
    Threshold   \* threshold

MCParties == 1 .. N

MCTapHash(x) == Mix(6, <<x>>)

MCFrostNonceHash(rand, id, pubshare, keyx, msg, i) ==
    Mix(7, <<i, rand[1], rand[2], id, pubshare, keyx>> \o SetToSeq(msg))

MCNonceCoefHash(ids, R1, R2, keyx, msg) ==
    Mix(8, <<Len(ids), R1, R2, keyx, msg>> \o ids)

MCChallengeHash(Rx, keyx, msg) == Mix(9, <<Rx, keyx, msg>>)

-----------------------------------------------------------------------------
DkgParams == [host_pubkeys |-> [p \in MCParties |-> p], t |-> Threshold]

DkgStarted == [p \in MCParties |-> InitialNext([s |-> p], DkgParams, 1)]

DkgAggregated ==
    CoordinatorInitialNext(DkgParams, [p \in MCParties |-> DkgStarted[p].out])

DkgOutputs ==
    [p \in MCParties |-> Step1Next(DkgStarted[p].st, DkgAggregated.out).st.dkg_output]

(***************************************************************************)
(* The numbers are written out: TLC would work them out again and again.   *)
(***************************************************************************)
MCKey == [t |-> 2, pubshares |-> <<18041, 29060, 70>>, threshold_pubkey |-> 7022]

MCSecShare == <<18041, 29060, 70>>

ASSUME KeyIsDkgOutput ==
    \A p \in MCParties :
        /\ DkgOutputs[p].secshare = MCSecShare[p]
        /\ DkgOutputs[p].pubshares = MCKey.pubshares
        /\ DkgOutputs[p].threshold_pubkey = MCKey.threshold_pubkey

-----------------------------------------------------------------------------
Plain(v) == [value |-> v, is_xonly |-> FALSE]

XTweak(v) == [value |-> v, is_xonly |-> TRUE]

Request(m, ts) == [msg |-> m, tweaks |-> ts]

ManyTweaks ==
    {Request(1, ts) : ts \in {<<>>, <<Plain(5)>>, <<XTweak(9)>>, <<XTweak(3), XTweak(7)>>,
                              <<Plain(5), XTweak(9), Plain(2), XTweak(8)>>}}

TwoMessages == {Request(1, <<Plain(5), XTweak(9)>>), Request(2, <<Plain(5), XTweak(9)>>)}

(***************************************************************************)
(* Two messages under one key, and the first of them under another.        *)
(***************************************************************************)
MessagesAndKeys == TwoMessages \cup {Request(1, <<XTweak(4)>>)}

(***************************************************************************)
(* Requests that differ in the message and in the key.                     *)
(***************************************************************************)
TwoRequests == {Request(1, <<Plain(5), XTweak(9)>>), Request(2, <<XTweak(8)>>)}

Unbound == {[msg |-> FALSE, tweaks |-> FALSE]}

AllBound == {[msg |-> TRUE, tweaks |-> TRUE]}

NoneOrAll == Unbound \cup AllBound

OneFaultyNonce == {[k1 |-> 5, k2 |-> 8]}

Pairs == {<<1, 2>>, <<2, 1>>, <<1, 3>>, <<3, 1>>, <<2, 3>>, <<3, 2>>}

PairsAndAll == Pairs \cup {<<3, 1, 2>>, <<2, 3, 1>>, <<1, 2, 3>>}

OnePair == {<<2, 1>>}

(***************************************************************************)
(* A list that is in order of arrival, one with a repeat, one too short.   *)
(***************************************************************************)
PairOrRepeated == {<<2, 1>>, <<1, 1>>, <<1>>}
=============================================================================
