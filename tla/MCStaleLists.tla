---------------------------- MODULE MCStaleLists ---------------------------
(***************************************************************************)
(* The run with stale lists: TLC finds that its hashes tell views apart.   *)
(***************************************************************************)
EXTENDS MCSigning

FaultyNonce == {[k1 |-> 5, k2 |-> 11]}

ASSUME ViewsAreTold == AnswersTellViews
=============================================================================
