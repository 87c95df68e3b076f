--------------------------- MODULE SignCoordinator -------------------------
(***************************************************************************)
(* The coordinator's side of a FROST session as functions:                 *)
(* src/sign/coordinator/transitions.rs.  It holds public data only.        *)
(***************************************************************************)
EXTENDS SignParty

SignCoordinatorInitialState(t, pubshares, threshold_pubkey) ==
    [t |-> t, pubshares |-> pubshares, threshold_pubkey |-> threshold_pubkey]

(***************************************************************************)
(* A list of contributions collected into the code's BTreeMap: in the      *)
(* order of the ids, and the last one where an id is repeated.             *)
(***************************************************************************)
LastOf(list, id) == list[Max({k \in DOMAIN list : list[k].id = id})]

ById(list) ==
    LET ids == Sorted(IdsOf(list)) IN [k \in DOMAIN ids |-> LastOf(list, ids[k])]

(***************************************************************************)
(* CoordinatorInitialState::next: the signing subset is whoever sent a     *)
(* nonce.  The list is relayed in the order given.                         *)
(***************************************************************************)
SignCoordinatorInitialNext(st, list) ==
    LET valid    == ValidateSigners(st.t, st.pubshares, st.threshold_pubkey, IdsOf(list))
        identity == {k \in DOMAIN list : IsIdentity(list[k].nonce)}
    IN  IF ~valid.ok THEN valid
        ELSE IF identity # {}
        THEN Err(Naming("InvalidContribution", list[Min(identity)].id))
        ELSE Advance("Step1",
                 [t |-> st.t, pubshares |-> st.pubshares,
                  threshold_pubkey |-> st.threshold_pubkey,
                  pubnonces |-> ById(list)],
                 list)

(***************************************************************************)
(* Mutant of SignCoordinatorStep1Next: combined without verification.      *)
(***************************************************************************)
SignCoordinatorStep1NextUnverified(st, list, msg, tweaks) ==
    LET psigs == ById(list)
        v     == SessionValues(st.threshold_pubkey, st.pubnonces, msg, tweaks)
    IN  IF IdsOf(psigs) # IdsOf(st.pubnonces) THEN Err(Error("Value"))
        ELSE IF ~v.ok THEN v
        ELSE Finish(Combine([k \in DOMAIN psigs |-> psigs[k].psig], v.val))

(***************************************************************************)
(* Each partial signature is verified, by id, before they are combined;    *)
(* the signature is verified again under the tweaked key.                  *)
(***************************************************************************)
Checked(threshold_pubkey, sig, msg, tweaks) ==
    IF VerifySignature(threshold_pubkey, sig, msg, tweaks).ok
    THEN Finish(sig) ELSE Err(Error("Runtime"))

VerifiedAndCombined(st, psigs, v, msg, tweaks) ==
    LET checks == [k \in DOMAIN psigs |->
                      PartialVerify(psigs[k].psig, psigs[k].id, st.pubnonces[k].nonce,
                                    st.pubshares[psigs[k].id], v)]
        bad    == {k \in DOMAIN checks : ~checks[k].ok}
    IN  IF bad # {} THEN Err(checks[Min(bad)].err)
        ELSE Checked(st.threshold_pubkey,
                     Combine([k \in DOMAIN psigs |-> psigs[k].psig], v), msg, tweaks)

(***************************************************************************)
(* CoordinatorStep1State::next: one partial signature per nonce, in any    *)
(* order.                                                                  *)
(***************************************************************************)
SignCoordinatorStep1Next(st, list, msg, tweaks) ==
    LET psigs == ById(list)
        v     == SessionValues(st.threshold_pubkey, st.pubnonces, msg, tweaks)
    IN  IF Len(list) # Len(st.pubnonces) \/ IdsOf(psigs) # IdsOf(st.pubnonces)
        THEN Err(Error("Value"))
        ELSE IF ~v.ok THEN v
        ELSE VerifiedAndCombined(st, psigs, v.val, msg, tweaks)
=============================================================================
