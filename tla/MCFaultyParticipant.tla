------------------------ MODULE MCFaultyParticipant -----------------------
(***************************************************************************)
(* The run with a faulty participant: TLC finds that its session and       *)
(* hashes are what blame rests on.                                         *)
(***************************************************************************)
EXTENDS MCChillDKG

ASSUME BlameRestsOn == OneAgreedSession /\ HashesAreScalars
=============================================================================
