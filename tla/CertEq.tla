------------------------------- MODULE CertEq ------------------------------
(***************************************************************************)
(* What the certificate of equality promises, without messages: parties    *)
(* sign transcripts, and a holder (a party or the coordinator) accepts a   *)
(* transcript only once every honest member of it has signed that very     *)
(* transcript.  Nothing signed or accepted is ever withdrawn.              *)
(***************************************************************************)
CONSTANTS
    Honest,             \* the honest parties
    Holders,            \* those who may accept a transcript
    MembersOf(_)        \* the honest members of a transcript

VARIABLES
    signed,             \* signed[p]: the transcripts p has signed
    accepted            \* accepted[h]: the transcripts h holds a certificate for

vars == <<signed, accepted>>

Init ==
    /\ signed = [p \in Honest |-> {}]
    /\ accepted = [h \in Holders |-> {}]

(***************************************************************************)
(* T ranges over what the step adds, so that transcripts need no type.     *)
(***************************************************************************)
Sign(p) ==
    /\ \E T \in signed'[p] : signed' = [signed EXCEPT ![p] = @ \cup {T}]
    /\ UNCHANGED accepted

Accept(h) ==
    /\ \E T \in accepted'[h] :
          /\ \A q \in MembersOf(T) : T \in signed[q]
          /\ accepted' = [accepted EXCEPT ![h] = @ \cup {T}]
    /\ UNCHANGED signed

Next ==
    \/ \E p \in Honest : Sign(p)
    \/ \E h \in Holders : Accept(h)

Spec == Init /\ [][Next]_vars
=============================================================================
