------------------------------ MODULE Lifecycle ----------------------------
(***************************************************************************)
(* What a driver of src/dkg/mod.rs promises its caller: the phases are     *)
(* passed one at a time, any of them may fail, and a failed or successful  *)
(* driver stays so for ever.  Only a new driver, created after a restart,  *)
(* begins again, or a clone goes on from the phase it was made in.         *)
(***************************************************************************)
EXTENDS Naturals, Sequences

CONSTANTS
    Drivers,            \* the drivers of a session
    Steps,              \* Steps[d]: the active phases of d, in order
    MayRestart,         \* whether the process of a driver may be restarted
    MayClone            \* whether a caller may go on with a clone

VARIABLE phase          \* phase[d]: the phase of d

Move(d, from, to) == phase[d] = from /\ phase' = [phase EXCEPT ![d] = to]

Proceed(d) ==
    \E k \in 1 .. (Len(Steps[d]) - 1) : Move(d, Steps[d][k], Steps[d][k + 1])

Succeed(d) == Move(d, Steps[d][Len(Steps[d])], "Successful")

Fail(d) == \E k \in DOMAIN Steps[d] : Move(d, Steps[d][k], "Failed")

New(d) ==
    /\ MayRestart \/ phase[d] = "Absent"
    /\ \E k \in DOMAIN Steps[d] :
          /\ k = 1 \/ MayClone
          /\ phase' = [phase EXCEPT ![d] = Steps[d][k]]

(***************************************************************************)
(* The parameters of a new driver are refused: there is none.              *)
(***************************************************************************)
Refuse(d) == MayRestart /\ phase' = [phase EXCEPT ![d] = "Absent"]

Init == phase \in [Drivers -> {"Absent"} \cup {Steps[d][1] : d \in Drivers}]

Next == \E d \in Drivers : Proceed(d) \/ Succeed(d) \/ Fail(d) \/ New(d) \/ Refuse(d)

Spec == Init /\ [][Next]_phase
=============================================================================
