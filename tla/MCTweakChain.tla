---------------------------- MODULE MCTweakChain ---------------------------
(***************************************************************************)
(* Every key and every tweak of a small group, out-of-range tweak values   *)
(* included.                                                               *)
(***************************************************************************)
EXTENDS TweakChain

MCTapHash(x) == x

MCKeys == Scalar \ {Identity}

MCTweaks == [value : 0 .. Order, is_xonly : BOOLEAN]
=============================================================================
