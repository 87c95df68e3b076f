-------------------------- MODULE ThresholdSigning -------------------------
(***************************************************************************)
(* What threshold signing promises, without messages: every honest party   *)
(* issues one-time tickets, which may be tied to a message or to tweaks;   *)
(* each is spent at most once, on what it is tied to; and a signature is   *)
(* granted only when every honest party it names has spent the ticket it   *)
(* names on that message, under the same key.                              *)
(***************************************************************************)
CONSTANTS
    Honest,         \* the honest parties
    KeyOf(_)        \* the key that tweaks lead to

VARIABLES
    issued,         \* issued[p]: tickets [nonce, msg, tweaks], the last two optional
    spent,          \* spent[p]: what p has spent tickets on, [nonce, msg, tweaks]
    granted         \* signatures [msg, tweaks, tickets], tickets by honest party

vars == <<issued, spent, granted>>

Init ==
    /\ issued = [p \in Honest |-> {}]
    /\ spent = [p \in Honest |-> {}]
    /\ granted = {}

Issue(p) ==
    /\ \E ticket \in issued'[p] :
          /\ \A other \in issued[p] : other.nonce # ticket.nonce
          /\ issued' = [issued EXCEPT ![p] = @ \cup {ticket}]
    /\ UNCHANGED <<spent, granted>>

Spend(p) ==
    /\ \E use \in spent'[p] :
          /\ \A other \in spent[p] : other.nonce # use.nonce
          /\ \E ticket \in issued[p] :
                /\ ticket.nonce = use.nonce
                /\ ticket.msg \in {{}, {use.msg}}
                /\ ticket.tweaks \in {{}, {use.tweaks}}
          /\ spent' = [spent EXCEPT ![p] = @ \cup {use}]
    /\ UNCHANGED <<issued, granted>>

Grant ==
    /\ \E sig \in granted' :
          /\ \A q \in DOMAIN sig.tickets : \E use \in spent[q] :
                /\ use.nonce = sig.tickets[q]
                /\ use.msg = sig.msg
                /\ KeyOf(use.tweaks) = KeyOf(sig.tweaks)
          /\ granted' = granted \cup {sig}
    /\ UNCHANGED <<issued, spent>>

Next == Grant \/ \E p \in Honest : Issue(p) \/ Spend(p)

Spec == Init /\ [][Next]_vars
=============================================================================
