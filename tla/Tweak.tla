-------------------------------- MODULE Tweak ------------------------------
(***************************************************************************)
(* Key tweaking, src/crypto/tweak.rs.  A tweak is a record [value,         *)
(* is_xonly]; a context carries the tweaked key q with the product gacc of *)
(* the sign flips and the net scalar tweak tacc of the way to it.          *)
(***************************************************************************)
EXTENDS Group

MinusOne == Neg(1)

TweakContext(q) == [q |-> q, gacc |-> 1, tacc |-> 0]

(***************************************************************************)
(* The flip of an x-only tweak: it applies to the even-y point.            *)
(***************************************************************************)
Flip(ctx, tweak) ==
    IF tweak.is_xonly /\ ~HasEvenY(ctx.q) THEN MinusOne ELSE 1

(***************************************************************************)
(* Mutants of TweakApply: the identity is not refused, or an accumulator   *)
(* misses the flip.                                                        *)
(***************************************************************************)
TweakApplyToIdentity(ctx, tweak) ==
    LET g == Flip(ctx, tweak)
    IN  IF tweak.value >= Order THEN Err(Error("Value"))
        ELSE Ok([q    |-> (g * ctx.q + MulG(tweak.value)) % Order,
                 gacc |-> (g * ctx.gacc) % Order,
                 tacc |-> (tweak.value + g * ctx.tacc) % Order])

TweakApplyTaccUnflipped(ctx, tweak) ==
    LET g == Flip(ctx, tweak)
        q == (g * ctx.q + MulG(tweak.value)) % Order
    IN  IF tweak.value >= Order \/ q = Identity THEN Err(Error("Value"))
        ELSE Ok([q |-> q, gacc |-> (g * ctx.gacc) % Order,
                 tacc |-> (tweak.value + ctx.tacc) % Order])

TweakApplyGaccUnflipped(ctx, tweak) ==
    LET g == Flip(ctx, tweak)
        q == (g * ctx.q + MulG(tweak.value)) % Order
    IN  IF tweak.value >= Order \/ q = Identity THEN Err(Error("Value"))
        ELSE Ok([q |-> q, gacc |-> ctx.gacc,
                 tacc |-> (tweak.value + g * ctx.tacc) % Order])

TweakApply(ctx, tweak) ==
    LET g == Flip(ctx, tweak)
        q == (g * ctx.q + MulG(tweak.value)) % Order
    IN  IF tweak.value >= Order \/ q = Identity THEN Err(Error("Value"))
        ELSE Ok([q    |-> q,
                 gacc |-> (g * ctx.gacc) % Order,
                 tacc |-> (tweak.value + g * ctx.tacc) % Order])

TweakApplyAll(ctx, tweaks) ==
    FoldLeft(LAMBDA res, tweak : IF res.ok THEN TweakApply(res.val, tweak) ELSE res,
             Ok(ctx), tweaks)

(***************************************************************************)
(* TweakContext::g: the sign that makes the tweaked key even.              *)
(***************************************************************************)
EvenSign(ctx) == IF HasEvenY(ctx.q) THEN 1 ELSE MinusOne
=============================================================================
