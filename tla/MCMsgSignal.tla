------------------------------ MODULE MCMsgSignal -------------------------------
(* Instances of MsgSignal for TLC; the links are alike until they are connected. *)
EXTENDS MsgSignal, TLC

LinkSymmetry == Permutations(Links)
=============================================================================
