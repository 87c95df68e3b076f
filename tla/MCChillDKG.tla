----------------------------- MODULE MCChillDKG ----------------------------
(***************************************************************************)
(* Values of the constants for TLC: a group of prime order, the keys of    *)
(* the parties, and the sessions that the runs check.                      *)
(***************************************************************************)
EXTENDS ChillDKGProperties, MCHashes

CONSTANTS
    N,          \* number of parties
    Threshold   \* threshold

MCParties == 1 .. N

MCHostSec == [p \in MCParties |-> p]

HostKeys == [p \in MCParties |-> p]

MCParams == [host_pubkeys |-> HostKeys, t |-> Threshold]

(***************************************************************************)
(* In the groups of order 11 and 23 this is neither zero nor x nor -x for  *)
(* an x coordinate (1 .. 5, 1 .. 11): no tweaked key is the identity.      *)
(***************************************************************************)
MCTapHash(x) == (2 * x + 4) % Order

-----------------------------------------------------------------------------
SameParams == [p \in MCParties |-> {MCParams}]

OneParams == {MCParams}

InOrder == {[i \in MCParties |-> i]}

(***************************************************************************)
(* Lists of messages that are in order, and those that miss the last.      *)
(***************************************************************************)
InOrderOrShort == InOrder \cup {[i \in 1 .. (N - 1) |-> i]}

(***************************************************************************)
(* Parameters a careless caller may pass: another threshold, 0, more than  *)
(* there are keys, keys in another order, twice, missing or the identity.  *)
(***************************************************************************)
With(keys, t) == [host_pubkeys |-> keys, t |-> t]

MixedParams ==
    [p \in MCParties |->
        {MCParams, With(HostKeys, 1)} \cup
        CASE p = 1 -> {With(<<2, 1, 3>>, 2), With(<<2, 3>>, 2), With(HostKeys, 0)}
          [] p = 2 -> {With(<<2, 1, 3>>, 2), With(<<1, 2>>, 2), With(HostKeys, 4)}
          [] OTHER -> {With(<<3, 3>>, 1), With(<<0, 3, 2>>, 2), With(HostKeys, 3)}]

MixedCoordParams ==
    {MCParams, With(HostKeys, 1), With(<<2, 1, 3>>, 2), With(<<1, 2>>, 2),
     With(<<1, 1, 3>>, 2), With(HostKeys, 0)}

(***************************************************************************)
(* Party 2 may have been given another threshold or another order of keys, *)
(* and a coordinator knows them all.                                       *)
(***************************************************************************)
DisagreeingParams ==
    [p \in MCParties |->
        {MCParams} \cup
        IF p = 2 THEN {With(HostKeys, 1), With(<<2, 1, 3>>, 2)} ELSE {}]

DisagreeingCoordParams == DisagreeingParams[2]

TwoOrdersOrShort == InOrderOrShort \cup {<<2, 1, 3>>}

(***************************************************************************)
(* Lists of messages in order, out of order, too short and with repeats.   *)
(***************************************************************************)
AnyOrder == {<<1, 2, 3>>, <<2, 1, 3>>, <<1, 2>>, <<1, 1, 3>>}
=============================================================================
