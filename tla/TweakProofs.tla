---------------------------- MODULE TweakProofs ----------------------------
(***************************************************************************)
(* Proofs about chains of tweaks.                                          *)
(***************************************************************************)
EXTENDS TweakChain, FieldLemmas

(***************************************************************************)
(* Type correctness and the accumulators are what tracking a key means.    *)
(***************************************************************************)
Inv == key \in Scalar \ {Identity} /\ Tracks(key, ctx)

LEMMA InvIsBoth == Inv <=> TypeOK /\ AccumulatorsTrack
BY DEF Inv, Tracks, Context, Sign, TypeOK, AccumulatorsTrack

LEMMA ChainInit == Init => Inv
BY TracksStart, KeysAssumption DEF Init, Inv

LEMMA ChainStep == Inv /\ [Next]_vars => Inv'
<1> SUFFICES ASSUME Inv, [Next]_vars PROVE Inv'
  OBVIOUS
<1>1. CASE UNCHANGED vars
  BY <1>1 DEF vars, Inv
<1>2. ASSUME NEW tweak \in Tweaks, Apply(tweak) PROVE Inv'
  <2>1. key' = key /\ key \in Int /\ tweak \in AnyTweak
    BY <1>2, TweaksAssumption, ScalarIsInt DEF Apply, Inv, AnyTweak
  <2>2. CASE ~ TweakApply(ctx, tweak).ok
    BY <1>2, <2>2 DEF Apply, Inv
  <2>3. CASE TweakApply(ctx, tweak).ok
    <3>1. ctx' = TweakApply(ctx, tweak).val
      BY <1>2, <2>3 DEF Apply
    <3> QED
      BY <2>1, <2>3, <3>1, TweakApplyTracks DEF Inv
  <2> QED
    BY <2>2, <2>3
<1> QED
  BY <1>1, <1>2 DEF Next

LEMMA ChainInvariant == Spec => []Inv
BY ChainInit, ChainStep, PTL DEF Spec

(***************************************************************************)
(* A context that a caller holds has a point other than the identity, a    *)
(* sign and a scalar, after any number of tweaks (tweak.rs, apply).        *)
(***************************************************************************)
THEOREM ChainTypeCorrect == Spec => []TypeOK
BY ChainInvariant, InvIsBoth, PTL

(***************************************************************************)
(* The accumulators account for every tweak and every flip on the way from *)
(* the first key to the tweaked one; that Order is a prime is not used.    *)
(***************************************************************************)
THEOREM AccumulatorsCorrect == Spec => []AccumulatorsTrack
BY ChainInvariant, InvIsBoth, PTL

(***************************************************************************)
(* Signers and aggregator together hold the secret of the even key that a  *)
(* BIP340 verifier uses, after any chain of plain and x-only tweaks.       *)
(***************************************************************************)
THEOREM EvenKeyHeld == Spec => []SignersHoldEvenKey
<1>1. Inv => SignersHoldEvenKey
  BY EvenKeyShared, ScalarIsInt DEF Inv, SignersHoldEvenKey
<1> QED
  BY <1>1, ChainInvariant, PTL
=============================================================================
