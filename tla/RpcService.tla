------------------------------- MODULE RpcService -------------------------------
(***************************************************************************)
(* What the rpc layer promises the caller of a call, without connections,  *)
(* queues, timers or call ids: only a call that was made reaches the peer, *)
(* its caller learns one result, and a success only after the peer got the *)
(* call.  A call that failed for its caller may still be delivered (a      *)
(* timeout or a cancel does not take a request back).  How often the peer  *)
(* gets a call is not said here: see SendsInOrder of RpcChannel.           *)
(***************************************************************************)
CONSTANT Calls

VARIABLES
    issued,     \* the calls that have been made
    delivered,  \* the calls the peer has received
    result      \* what each caller has learnt: "none", "ok" or "error"

vars == <<issued, delivered, result>>

Init ==
    /\ issued = {}
    /\ delivered = {}
    /\ result = [c \in Calls |-> "none"]

Issue(c) ==
    /\ c \notin issued
    /\ issued' = issued \union {c}
    /\ UNCHANGED <<delivered, result>>

Deliver(c) ==
    /\ c \in issued \ delivered
    /\ delivered' = delivered \union {c}
    /\ UNCHANGED <<issued, result>>

Succeed(c) ==
    /\ c \in delivered
    /\ result[c] = "none"
    /\ result' = [result EXCEPT ![c] = "ok"]
    /\ UNCHANGED <<issued, delivered>>

\* The loss of a connection fails several calls at once.
Fail(C) ==
    /\ C \subseteq issued
    /\ \A c \in C : result[c] = "none"
    /\ result' = [c \in Calls |-> IF c \in C THEN "error" ELSE result[c]]
    /\ UNCHANGED <<issued, delivered>>

Next ==
    \/ \E c \in Calls : Issue(c) \/ Deliver(c) \/ Succeed(c)
    \/ \E C \in SUBSET Calls : Fail(C)

Spec == Init /\ [][Next]_vars

=============================================================================
