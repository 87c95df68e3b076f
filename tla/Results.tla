------------------------------ MODULE Results ------------------------------
(***************************************************************************)
(* Rust results, the errors they carry (src/dkg/errors.rs,                 *)
(* src/crypto/errors.rs), and the transition function shared by the        *)
(* drivers Participant and Coordinator of src/dkg/mod.rs.                  *)
(* An error is its variant and the participant it names (0 when it names   *)
(* nobody); its message is left out.  Parties are counted from 1, so that  *)
(* party i is the code's index i - 1.                                      *)
(***************************************************************************)
EXTENDS Naturals

Error(kind) == [kind |-> kind, who |-> 0]

Naming(kind, i) == [kind |-> kind, who |-> i]

NamingBoth(kind, i, j) == [kind |-> kind, who |-> i, other |-> j]

NoError == Error("None")

Ok(v) == [ok |-> TRUE, val |-> v]

Err(e) == [ok |-> FALSE, err |-> e]

(***************************************************************************)
(* How the DKG reports a failure of its cryptography when it does not know *)
(* better: a key that does not decode is its owner's, and the coordinator  *)
(* sent the certificate.  Only the parsers meet the first.  Signing has a  *)
(* conversion of its own (src/sign/errors.rs), which keeps the errors that *)
(* signing can meet as they are.                                           *)
(***************************************************************************)
FromCryptoError(e) ==
    CASE e.kind = "InvalidPubkey" -> Naming("InvalidHostPubkey", e.who)
      [] e.kind \in {"InvalidCertificate", "InvalidCertificateSignature"}
           -> Error("FaultyCoordinator")
      [] OTHER -> e

-----------------------------------------------------------------------------
(***************************************************************************)
(* What the `next` function of a state returns: an error, or the phase and *)
(* contents of the following state with the output of the step.            *)
(***************************************************************************)
Advance(phase, st, out) == [ok |-> TRUE, phase |-> phase, st |-> st, out |-> out]

Finish(out) == Advance("Successful", NoError, out)

(***************************************************************************)
(* A driver: its phase and what that phase holds (a Failed driver holds    *)
(* its error).  Absent is not a phase of the code: its owner has made no   *)
(* driver yet.                                                             *)
(***************************************************************************)
Driver(phase, st) == [phase |-> phase, st |-> st]

Failed(e) == Driver("Failed", e)

Absent == Driver("Absent", NoError)

IsActive(d) == d.phase \in {"Initial", "Step1", "Step2"}

(***************************************************************************)
(* Mutants of Transition: a terminal driver is not spared, a driver that   *)
(* signs stays in its phase, as a clone of it would, and the last state of *)
(* a driver is not consumed.                                               *)
(***************************************************************************)
TransitionFromTerminal(d, expected, res) ==
    IF d.phase # expected
    THEN [state |-> Failed(Error("Runtime")), reply |-> Err(Error("Runtime"))]
    ELSE IF res.ok
    THEN [state |-> Driver(res.phase, res.st), reply |-> Ok(res.out)]
    ELSE [state |-> Failed(res.err), reply |-> Err(res.err)]

TransitionOfClone(d, expected, res) ==
    IF ~IsActive(d) \/ d.phase # expected
    THEN [state |-> d, reply |-> Err(Error("Runtime"))]
    ELSE IF res.ok
    THEN [state |-> IF res.phase = "Step2" THEN d ELSE Driver(res.phase, res.st),
          reply |-> Ok(res.out)]
    ELSE [state |-> Failed(res.err), reply |-> Err(res.err)]

TransitionUnconsumed(d, expected, res) ==
    IF ~IsActive(d) \/ d.phase # expected
    THEN [state |-> d, reply |-> Err(Error("Runtime"))]
    ELSE IF res.ok
    THEN [state |-> IF res.phase = "Successful" THEN d ELSE Driver(res.phase, res.st),
          reply |-> Ok(res.out)]
    ELSE [state |-> Failed(res.err), reply |-> Err(res.err)]

(***************************************************************************)
(* A call of the step that belongs to phase `expected`, on driver d, where *)
(* res is what `next` returns for d and the message of the call.  A        *)
(* terminal driver keeps its state; a wrong phase and an error of `next`   *)
(* both end in Failed.                                                     *)
(***************************************************************************)
Transition(d, expected, res) ==
    IF ~IsActive(d)
    THEN [state |-> d, reply |-> Err(Error("Runtime"))]
    ELSE IF d.phase # expected
    THEN [state |-> Failed(Error("Runtime")), reply |-> Err(Error("Runtime"))]
    ELSE IF res.ok
    THEN [state |-> Driver(res.phase, res.st), reply |-> Ok(res.out)]
    ELSE [state |-> Failed(res.err), reply |-> Err(res.err)]

(***************************************************************************)
(* The error a reply carries.                                              *)
(***************************************************************************)
ErrorOf(reply) == IF reply.ok THEN NoError ELSE reply.err
=============================================================================
