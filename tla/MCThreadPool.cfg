SPECIFICATION FairSpec
CONSTANTS
    w1 = w1
    w2 = w2
    t1 = t1
    t2 = t2
    t3 = t3
    Workers <- MCWorkers
    Tasks <- MCTasks
    PoolSizes <- MCPoolSizes
    MaxInits = 2
INVARIANTS
    TypeOK
    WorkConserving
    NoSleeperAtJoin
PROPERTIES
    ImplementsTaskService
    AcceptedTasksRun
    CloseReturns
\* An unused pool stops: every enqueue call has ended and nobody reopens it.
CHECK_DEADLOCK FALSE
