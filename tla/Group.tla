------------------------------- MODULE Group -------------------------------
(***************************************************************************)
(* Scalars and points of src/crypto/ec.rs.  The curve group is modelled as *)
(* the integers modulo Order, a point standing for its discrete logarithm, *)
(* so that point equations hold in the model exactly when they hold on the *)
(* curve.  The group law itself (crate k256) is outside this repository.   *)
(***************************************************************************)
EXTENDS Integers, SequencesExt, Results

CONSTANTS
    Order,          \* the order of the group
    TapHash(_)      \* H_TapTweak on an x coordinate, as a scalar

ASSUME OrderAssumption == Order \in Nat /\ Order > 2

Scalar == 0 .. (Order - 1)

ASSUME TapHashAssumption == \A x \in Scalar : TapHash(x) \in Scalar

Identity == 0

MulG(x) == x % Order

Neg(p) == (Order - p) % Order

Times(x, y) == (x * y) % Order

SumMod(s) == FoldLeft(LAMBDA acc, x : (acc + x) % Order, 0, s)

(***************************************************************************)
(* The y coordinates of p and of -p have opposite parities; the even one   *)
(* is taken to be the smaller logarithm.  The identity counts as even.     *)
(***************************************************************************)
HasEvenY(p) == p <= Order \div 2

EvenYPoint(p) == IF HasEvenY(p) THEN p ELSE Neg(p)

(***************************************************************************)
(* The x coordinate of a point, which p and -p share.                      *)
(***************************************************************************)
XOnly(p) == EvenYPoint(p)

(***************************************************************************)
(* BIP341 tweak of a key without script path: the tweak as a scalar (the   *)
(* public tweak is MulG of it), refused for the identity.  A hash outside  *)
(* the scalar field, which no input is known to give, is left out.         *)
(***************************************************************************)
TapTweakNoScript(p) ==
    IF p = Identity THEN Err(Error("Runtime")) ELSE Ok(TapHash(XOnly(p)))

(***************************************************************************)
(* The public share of party i (evaluation point i, the code's idx + 1):   *)
(* the commitment's polynomial evaluated "in the exponent", the power of i *)
(* growing from one coefficient to the next.                               *)
(***************************************************************************)
EvalPubShare(commitment, i) ==
    FoldLeft(LAMBDA acc, C_k : [sum     |-> (acc.sum + C_k * acc.x_power) % Order,
                                x_power |-> Times(acc.x_power, i)],
             [sum |-> 0, x_power |-> 1], commitment).sum

(***************************************************************************)
(* The aggregate commitment with its constant term moved by the tweak.     *)
(***************************************************************************)
TweakCommitment(commitment, tweak) ==
    [commitment EXCEPT ![1] = (@ + MulG(tweak)) % Order]
=============================================================================
