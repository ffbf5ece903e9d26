------------------------------- MODULE TaskService -------------------------------
(***************************************************************************)
(* What thread_pool promises its callers, without threads, mutex or        *)
(* condition variable: tasks are accepted only while the service is open,  *)
(* are begun in the order in which they were accepted, run once, and the   *)
(* service is closed only when every task it accepted has run.             *)
(***************************************************************************)
EXTENDS Naturals, Sequences

CONSTANT Tasks

VARIABLES
    open,      \* init has opened the service and close has not returned
    accepted,  \* the tasks accepted so far, in order
    begun,     \* how many of them have been begun
    finished   \* the tasks that have run

vars == <<open, accepted, begun, finished>>

Begun == {accepted[i] : i \in 1 .. begun}
Accepted == {accepted[i] : i \in 1 .. Len(accepted)}

Init ==
    /\ open = FALSE
    /\ accepted = <<>>
    /\ begun = 0
    /\ finished = {}

Open ==
    /\ ~open
    /\ open' = TRUE
    /\ UNCHANGED <<accepted, begun, finished>>

Accept(t) ==
    /\ open
    /\ t \notin Accepted
    /\ accepted' = Append(accepted, t)
    /\ UNCHANGED <<open, begun, finished>>

Begin ==
    /\ begun < Len(accepted)
    /\ begun' = begun + 1
    /\ UNCHANGED <<open, accepted, finished>>

Finish(t) ==
    /\ t \in Begun \ finished
    /\ finished' = finished \union {t}
    /\ UNCHANGED <<open, accepted, begun>>

\* close returns: nothing that was accepted is left to run.
Close ==
    /\ open
    /\ finished = Accepted
    /\ open' = FALSE
    /\ UNCHANGED <<accepted, begun, finished>>

Next ==
    \/ Open
    \/ \E t \in Tasks : Accept(t)
    \/ Begin
    \/ \E t \in Tasks : Finish(t)
    \/ Close

Spec == Init /\ [][Next]_vars

=============================================================================
