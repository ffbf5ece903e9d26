------------------------------ MODULE MCRpcChannel ------------------------------
(***************************************************************************)
(* Instances of RpcChannel for TLC.  CallIds is larger than the number of  *)
(* calls, as 2^32 is: no id is used twice.                                 *)
(***************************************************************************)
EXTENDS RpcChannel

CONSTANTS sync, timed, silent

MCCalls == {sync, timed, silent}
MCSync == {sync}
MCTimed == {timed}
MCSilent == {silent}
=============================================================================
