------------------------------- MODULE ThreadPool -------------------------------
(***************************************************************************)
(* network/thread/thread_pool.hpp: a pool of worker threads fed through a  *)
(* queue that a mutex and a condition variable protect.                    *)
(*                                                                         *)
(* One owner thread calls init and close (the destructor is close); any    *)
(* number of threads call enqueue at the same time.  A task stands for the *)
(* call of enqueue that submits it, so `call[t]' is the program counter of *)
(* that call.  A critical section of queue_mutex is one action; the reads  *)
(* of `stop' and `workers' that the code makes WITHOUT the mutex are       *)
(* actions of their own, and so is every notification made after the       *)
(* mutex has been released.                                                *)
(***************************************************************************)
EXTENDS Naturals, Sequences, FiniteSets

CONSTANTS
    Tasks,      \* the calls of enqueue
    Workers,    \* the thread objects init may launch
    PoolSizes,  \* the arguments init may be given
    MaxInits    \* bound: how often the owner (re)opens the pool

\* init(0) leaves a pool on which every enqueue throws; the pools modelled
\* have at least one worker.
ASSUME PoolAssumption ==
    /\ IsFiniteSet(Tasks)
    /\ IsFiniteSet(Workers)
    /\ PoolSizes \subseteq 1 .. Cardinality(Workers)
    /\ MaxInits \in Nat

VARIABLES
    stop,      \* the flag `stop'
    tasks,     \* the queue `tasks'
    workers,   \* the vector `workers', as the set of its threads
    wpc,       \* where each worker thread is in its loop
    running,   \* the tasks each worker has popped and not yet run: {} or {t}
    owner,     \* where the owner thread is in init or close
    toSpawn,   \* threads init has still to launch
    inits,     \* how often init opened the pool
    call,      \* where each enqueue call is
    accepted,  \* history: the tasks in the order they entered the queue
    finished   \* history: the tasks whose function has returned

vars == <<stop, tasks, workers, wpc, running, owner, toSpawn, inits, call,
          accepted, finished>>

workerVars == <<workers, wpc, running>>
ownerVars  == <<owner, toSpawn, inits>>
histVars   == <<accepted, finished>>

WorkerPC == {"none", "ready", "waiting", "running", "exited"}
OwnerPC  == {"idle", "spawning", "lock", "notify_all", "join"}
CallPC   == {"new", "check_workers", "locking", "notify_one", "returned", "threw"}

TypeOK ==
    /\ stop \in BOOLEAN
    /\ tasks \in Seq(Tasks)
    /\ workers \subseteq Workers
    /\ wpc \in [Workers -> WorkerPC]
    /\ running \in [Workers -> SUBSET Tasks]
    /\ owner \in OwnerPC
    /\ toSpawn \in Nat
    /\ inits \in Nat
    /\ call \in [Tasks -> CallPC]
    /\ accepted \in Seq(Tasks)
    /\ finished \subseteq Tasks

\* thread_pool(): stop is true and there is no worker.  thread_pool(n) is this
\* followed by init(n).
Init ==
    /\ stop = TRUE
    /\ tasks = <<>>
    /\ workers = {}
    /\ wpc = [w \in Workers |-> "none"]
    /\ running = [w \in Workers |-> {}]
    /\ owner = "idle"
    /\ toSpawn = 0
    /\ inits = 0
    /\ call = [t \in Tasks |-> "new"]
    /\ accepted = <<>>
    /\ finished = {}

-----------------------------------------------------------------------------
(* The owner thread: init *)

\* init returns at once on an open pool; otherwise it clears `stop' before the
\* first worker exists, without the mutex.
InitOpen(n) ==
    /\ owner = "idle"
    /\ stop
    /\ inits < MaxInits
    /\ stop' = FALSE
    /\ owner' = "spawning"
    /\ toSpawn' = n
    /\ inits' = inits + 1
    /\ UNCHANGED <<tasks, workerVars, call, histVars>>

\* Mutant: the loop of init runs once too often (i <= threads).
InitSpawn_OneTooMany(w) ==
    /\ owner = "spawning"
    /\ wpc[w] = "none"
    /\ workers' = workers \union {w}
    /\ wpc' = [wpc EXCEPT ![w] = "ready"]
    /\ toSpawn' = toSpawn - 1
    /\ owner' = IF toSpawn = 0 THEN "idle" ELSE "spawning"
    /\ UNCHANGED <<stop, tasks, running, inits, call, histVars>>

\* One turn of init's loop: workers.emplace_back starts a thread.
InitSpawn(w) ==
    /\ owner = "spawning"
    /\ toSpawn > 0
    /\ wpc[w] = "none"
    /\ workers' = workers \union {w}
    /\ wpc' = [wpc EXCEPT ![w] = "ready"]
    /\ toSpawn' = toSpawn - 1
    /\ owner' = IF toSpawn = 1 THEN "idle" ELSE "spawning"
    /\ UNCHANGED <<stop, tasks, running, inits, call, histVars>>

(* The owner thread: close *)

\* close returns at once on a stopped pool.
CloseBegin ==
    /\ owner = "idle"
    /\ ~stop
    /\ owner' = "lock"
    /\ UNCHANGED <<stop, tasks, workerVars, toSpawn, inits, call, histVars>>

CloseStop ==
    /\ owner = "lock"
    /\ stop' = TRUE
    /\ owner' = "notify_all"
    /\ UNCHANGED <<tasks, workerVars, toSpawn, inits, call, histVars>>

\* Mutant: close wakes one worker instead of all of them.
CloseNotifyAll_NotifyOne ==
    /\ owner = "notify_all"
    /\ \/ /\ \A w \in Workers : wpc[w] # "waiting"
          /\ UNCHANGED wpc
       \/ \E w \in Workers :
             /\ wpc[w] = "waiting"
             /\ wpc' = [wpc EXCEPT ![w] = "ready"]
    /\ owner' = "join"
    /\ UNCHANGED <<stop, tasks, workers, running, toSpawn, inits, call, histVars>>

CloseNotifyAll ==
    /\ owner = "notify_all"
    /\ wpc' = [w \in Workers |-> IF wpc[w] = "waiting" THEN "ready" ELSE wpc[w]]
    /\ owner' = "join"
    /\ UNCHANGED <<stop, tasks, workers, running, toSpawn, inits, call, histVars>>

\* The joins return once every thread of the vector has; then workers.clear().
CloseJoin ==
    /\ owner = "join"
    /\ \A w \in workers : wpc[w] = "exited"
    /\ workers' = {}
    /\ wpc' = [w \in Workers |-> IF w \in workers THEN "none" ELSE wpc[w]]
    /\ owner' = "idle"
    /\ UNCHANGED <<stop, tasks, running, toSpawn, inits, call, histVars>>

-----------------------------------------------------------------------------
(* A caller of enqueue *)

\* The first test of `stop', made without the mutex.
EnqueueCheckStop(t) ==
    /\ call[t] = "new"
    /\ call' = [call EXCEPT ![t] = IF stop THEN "threw" ELSE "check_workers"]
    /\ UNCHANGED <<stop, tasks, workerVars, ownerVars, histVars>>

EnqueueCheckWorkers(t) ==
    /\ call[t] = "check_workers"
    /\ call' = [call EXCEPT ![t] = IF workers = {} THEN "threw" ELSE "locking"]
    /\ UNCHANGED <<stop, tasks, workerVars, ownerVars, histVars>>

\* Mutant: `stop' is not tested again under the mutex.
EnqueuePush_NoRecheck(t) ==
    /\ call[t] = "locking"
    /\ call' = [call EXCEPT ![t] = "notify_one"]
    /\ tasks' = Append(tasks, t)
    /\ accepted' = Append(accepted, t)
    /\ UNCHANGED <<stop, workerVars, ownerVars, finished>>

\* Under the mutex: `stop' is tested again and the task is queued.
EnqueuePush(t) ==
    /\ call[t] = "locking"
    /\ IF stop
       THEN /\ call' = [call EXCEPT ![t] = "threw"]
            /\ UNCHANGED <<tasks, accepted>>
       ELSE /\ call' = [call EXCEPT ![t] = "notify_one"]
            /\ tasks' = Append(tasks, t)
            /\ accepted' = Append(accepted, t)
    /\ UNCHANGED <<stop, workerVars, ownerVars, finished>>

\* Mutant: the notification is skipped when another enqueue is notifying too.
EnqueueNotify_Coalesced(t) ==
    /\ call[t] = "notify_one"
    /\ call' = [call EXCEPT ![t] = "returned"]
    /\ \/ /\ \/ \A w \in Workers : wpc[w] # "waiting"
             \/ \E u \in Tasks \ {t} : call[u] = "notify_one"
          /\ UNCHANGED wpc
       \/ \E w \in Workers :
             /\ wpc[w] = "waiting"
             /\ wpc' = [wpc EXCEPT ![w] = "ready"]
    /\ UNCHANGED <<stop, tasks, workers, running, ownerVars, histVars>>

\* condition.notify_one() after the mutex was released: some waiting worker
\* wakes, and nothing happens when none waits.
EnqueueNotify(t) ==
    /\ call[t] = "notify_one"
    /\ call' = [call EXCEPT ![t] = "returned"]
    /\ \/ /\ \A w \in Workers : wpc[w] # "waiting"
          /\ UNCHANGED wpc
       \/ \E w \in Workers :
             /\ wpc[w] = "waiting"
             /\ wpc' = [wpc EXCEPT ![w] = "ready"]
    /\ UNCHANGED <<stop, tasks, workers, running, ownerVars, histVars>>

-----------------------------------------------------------------------------
(* A worker thread *)

\* Mutant: the predicate of the wait forgets `stop'.
WorkerWait_IgnoresStop(w) ==
    /\ wpc[w] = "ready"
    /\ tasks = <<>>
    /\ wpc' = [wpc EXCEPT ![w] = "waiting"]
    /\ UNCHANGED <<stop, tasks, workers, running, ownerVars, call, histVars>>

\* The predicate of condition.wait is false: release the mutex and wait.
WorkerWait(w) ==
    /\ wpc[w] = "ready"
    /\ ~stop /\ tasks = <<>>
    /\ wpc' = [wpc EXCEPT ![w] = "waiting"]
    /\ UNCHANGED <<stop, tasks, workers, running, ownerVars, call, histVars>>

\* A condition variable may wake a thread that nobody notified.
WorkerSpuriousWake(w) ==
    /\ wpc[w] = "waiting"
    /\ wpc' = [wpc EXCEPT ![w] = "ready"]
    /\ UNCHANGED <<stop, tasks, workers, running, ownerVars, call, histVars>>

\* Mutant: a worker returns on `stop' with tasks still queued.
WorkerExit_LeavesTasks(w) ==
    /\ wpc[w] = "ready"
    /\ stop
    /\ wpc' = [wpc EXCEPT ![w] = "exited"]
    /\ UNCHANGED <<stop, tasks, workers, running, ownerVars, call, histVars>>

WorkerExit(w) ==
    /\ wpc[w] = "ready"
    /\ stop /\ tasks = <<>>
    /\ wpc' = [wpc EXCEPT ![w] = "exited"]
    /\ UNCHANGED <<stop, tasks, workers, running, ownerVars, call, histVars>>

WorkerTake(w) ==
    /\ wpc[w] = "ready"
    /\ tasks # <<>>
    /\ running' = [running EXCEPT ![w] = {Head(tasks)}]
    /\ tasks' = Tail(tasks)
    /\ wpc' = [wpc EXCEPT ![w] = "running"]
    /\ UNCHANGED <<stop, workers, ownerVars, call, histVars>>

\* task() outside the mutex; a packaged_task stores what its function throws,
\* so the worker always comes back to its loop.
WorkerRun(w) ==
    /\ wpc[w] = "running"
    /\ finished' = finished \union running[w]
    /\ running' = [running EXCEPT ![w] = {}]
    /\ wpc' = [wpc EXCEPT ![w] = "ready"]
    /\ UNCHANGED <<stop, tasks, workers, ownerVars, call, accepted>>

-----------------------------------------------------------------------------
OwnerStep ==
    \/ \E n \in PoolSizes : InitOpen(n)
    \/ \E w \in Workers : InitSpawn(w)
    \/ CloseBegin \/ CloseStop \/ CloseNotifyAll \/ CloseJoin

EnqueueStep(t) ==
    \/ EnqueueCheckStop(t)
    \/ EnqueueCheckWorkers(t)
    \/ EnqueuePush(t)
    \/ EnqueueNotify(t)

WorkerLoop(w) ==
    \/ WorkerWait(w) \/ WorkerExit(w) \/ WorkerTake(w) \/ WorkerRun(w)

Next ==
    \/ OwnerStep
    \/ \E t \in Tasks : EnqueueStep(t)
    \/ \E w \in Workers : WorkerLoop(w) \/ WorkerSpuriousWake(w)

\* The operating system runs every runnable thread, and a task's function
\* returns.  Nobody has to call init, enqueue or close; a call that has begun
\* goes on.
Fairness ==
    /\ \A w \in Workers : WF_vars(WorkerLoop(w))
    /\ \A t \in Tasks : WF_vars(call[t] # "new" /\ EnqueueStep(t))
    /\ WF_vars(owner # "idle" /\ OwnerStep)

Spec == Init /\ [][Next]_vars

FairSpec == Spec /\ Fairness

-----------------------------------------------------------------------------
(* Properties *)

\* The service of TaskService is open from the moment init clears `stop' until
\* close has joined the last worker.
TS == INSTANCE TaskService
        WITH open <- ~(stop /\ owner = "idle"),
             begun <- Len(accepted) - Len(tasks)

\* Whatever the interleaving of init, enqueue, close and the worker loops, the
\* pool behaves as TaskService: tasks start in the order enqueue queued them,
\* run once, and close returns only when all of them have run.
ImplementsTaskService == TS!Spec

\* No lost wakeup, and no worker asleep that a task could use.  While some
\* worker waits on the condition variable, every queued task has either a worker
\* of its own that is awake and will look at the queue, or an enqueue of its own
\* that is between its push and its notify_one.
Awake == {w \in Workers : wpc[w] = "ready"}
Notifying == {t \in Tasks : call[t] = "notify_one"}

WorkConserving ==
    (\E w \in Workers : wpc[w] = "waiting") =>
        Len(tasks) <= Cardinality(Awake) + Cardinality(Notifying)

\* Once close has sent its notify_all no worker can be left waiting, so the
\* joins are never stuck behind a sleeping thread.
NoSleeperAtJoin ==
    owner = "join" => \A w \in Workers : wpc[w] # "waiting"

\* Every task that entered the queue runs, also when close is called meanwhile:
\* the workers drain the queue before they return.
AcceptedTasksRun ==
    \A t \in Tasks : call[t] = "notify_one" ~> t \in finished

\* A call of close that finds the pool open returns.
CloseReturns == owner = "lock" ~> owner = "idle"

-----------------------------------------------------------------------------
(* The inductive invariant behind ImplementsTaskService and NoSleeperAtJoin *)

BegunTasks == {accepted[i] : i \in 1 .. (Len(accepted) - Len(tasks))}

\* The queue is what is left of the accepted tasks, and none was accepted twice.
QueueInv ==
    /\ Len(tasks) <= Len(accepted)
    /\ \A i \in 1 .. Len(tasks) :
            tasks[i] = accepted[Len(accepted) - Len(tasks) + i]
    /\ \A i, j \in 1 .. Len(accepted) : accepted[i] = accepted[j] => i = j
    /\ \A i \in 1 .. Len(accepted) : call[accepted[i]] \in {"notify_one", "returned"}

\* A task that left the queue has run or is held by exactly one worker.
RunInv ==
    /\ finished \subseteq BegunTasks
    /\ \A w \in Workers : running[w] \subseteq BegunTasks \ finished
    /\ BegunTasks \subseteq finished \union UNION {running[w] : w \in Workers}
    /\ \A v, w \in Workers : v # w => running[v] \intersect running[w] = {}
    /\ \A w \in Workers : IF wpc[w] = "running"
                           THEN \E t \in Tasks : running[w] = {t}
                           ELSE running[w] = {}

\* Where the owner and the workers can be, given `stop' and the queue.
ControlInv ==
    /\ \A w \in Workers : w \in workers <=> wpc[w] # "none"
    /\ \A w \in Workers : wpc[w] = "exited" => stop /\ tasks = <<>>
    /\ \A w \in Workers : stop /\ wpc[w] = "waiting" => owner = "notify_all"
    /\ owner \in {"notify_all", "join"} => stop
    /\ owner = "lock" => ~stop
    /\ owner = "spawning" => ~stop /\ toSpawn > 0
    /\ IF owner = "idle" /\ stop
       THEN workers = {} /\ tasks = <<>>
       ELSE owner # "spawning" => workers # {}

PoolInv == TypeOK /\ QueueInv /\ RunInv /\ ControlInv

=============================================================================
