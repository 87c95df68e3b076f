------------------------------ MODULE TweakChain ---------------------------
(***************************************************************************)
(* A holder of a threshold key that derives other keys from it one tweak   *)
(* at a time, by TweakContext::apply.  A refused tweak leaves the context  *)
(* that it was applied to.                                                 *)
(***************************************************************************)
EXTENDS Tweak

CONSTANTS
    Keys,       \* the keys a chain may start from
    Tweaks      \* the tweaks a caller may apply, values out of range included

ASSUME KeysAssumption == Keys \subseteq Scalar \ {Identity}

ASSUME TweaksAssumption == Tweaks \subseteq [value : Nat, is_xonly : BOOLEAN]

VARIABLES
    key,        \* the key the chain starts from
    ctx         \* the context after the tweaks applied so far

vars == <<key, ctx>>

Init == key \in Keys /\ ctx = TweakContext(key)

Apply(tweak) ==
    /\ ctx' = LET res == TweakApply(ctx, tweak) IN IF res.ok THEN res.val ELSE ctx
    /\ UNCHANGED key

Next == \E tweak \in Tweaks : Apply(tweak)

Spec == Init /\ [][Next]_vars

-----------------------------------------------------------------------------
(***************************************************************************)
(* Type invariant: a context holds a point other than the identity, a sign *)
(* and a scalar.                                                           *)
(***************************************************************************)
TypeOK ==
    /\ key \in Scalar \ {Identity}
    /\ ctx \in [q : Scalar \ {Identity}, gacc : {1, MinusOne}, tacc : Scalar]

(***************************************************************************)
(* The accumulators tell the way from the first key to the tweaked one,    *)
(* whatever mix of plain and x-only tweaks lies between (tweak.rs, apply). *)
(***************************************************************************)
AccumulatorsTrack == ctx.q = (ctx.gacc * key + ctx.tacc) % Order

(***************************************************************************)
(* Signers multiply the secret by g * gacc (sign.rs) and the aggregator    *)
(* adds g * tacc (verify.rs, combine): together they hold the secret of    *)
(* the tweaked key with even y, the one a BIP340 verifier uses.            *)
(***************************************************************************)
SignersHoldEvenKey ==
    EvenYPoint(ctx.q) = (EvenSign(ctx) * ctx.gacc * key + EvenSign(ctx) * ctx.tacc) % Order
=============================================================================
