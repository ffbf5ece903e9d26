--------------------------- MODULE MCTcpConnection ----------------------------
(* Messages of one kind differ in their names only. *)
EXTENDS TcpConnection, TLC

MessageSymmetry == Permutations(Calls) \union Permutations(Msgs \ Calls)
=============================================================================
