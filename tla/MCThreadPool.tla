------------------------------ MODULE MCThreadPool ------------------------------
(* Model-checking instances of ThreadPool; the .cfg files set the constants. *)
EXTENDS ThreadPool, TLC

CONSTANTS w1, w2, t1, t2, t3

MCWorkers == {w1, w2}
MCTasks == {t1, t2, t3}
MCPoolSizes == 1 .. 2

\* Worker threads and enqueue calls are interchangeable.
MCSymmetry == Permutations(MCWorkers) \union Permutations(MCTasks)

=============================================================================
