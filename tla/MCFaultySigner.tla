--------------------------- MODULE MCFaultySigner --------------------------
(***************************************************************************)
(* The run with a faulty signer: TLC finds that its groups and hashes are  *)
(* what the blame of the coordinator rests on.                             *)
(***************************************************************************)
EXTENDS MCSigning

ASSUME BlameRestsOn == GroupsCanSign /\ HashesDoNotFail /\ CancelledUnanswered
=============================================================================
