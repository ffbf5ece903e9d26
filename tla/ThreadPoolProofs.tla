----------------------------- MODULE ThreadPoolProofs -----------------------------
(***************************************************************************)
(* Proofs about ThreadPool for every set of tasks, every finite set of     *)
(* workers and every bound on the calls of init.                           *)
(***************************************************************************)
EXTENDS ThreadPool, FiniteSetTheorems, SequenceTheorems, TLAPS

\* A pool begins closed, with nothing queued.
LEMMA InitInv == Init => PoolInv
  <1> SUFFICES ASSUME Init PROVE PoolInv
      OBVIOUS
  <1>1. TypeOK
      BY DEF Init, TypeOK, WorkerPC, OwnerPC, CallPC
  <1>2. QueueInv
      BY DEF Init, QueueInv
  <1>3. RunInv
      BY DEF Init, RunInv, BegunTasks
  <1>4. ControlInv
      BY DEF Init, ControlInv
  <1> QED BY <1>1, <1>2, <1>3, <1>4 DEF PoolInv

\* Every step keeps the types.
LEMMA TypeStep == TypeOK /\ [Next]_vars => TypeOK'
  <1> SUFFICES ASSUME TypeOK, [Next]_vars PROVE TypeOK'
      OBVIOUS
  <1> USE DEF TypeOK, WorkerPC, OwnerPC, CallPC, workerVars, ownerVars, histVars
  <1>1. CASE OwnerStep
    <2>1. ASSUME NEW n \in PoolSizes, InitOpen(n) PROVE TypeOK'
      <3>1. n \in Nat
          BY PoolAssumption, FS_CardinalityType
      <3>2. toSpawn' \in Nat /\ inits' \in Nat
          BY <2>1, <3>1 DEF InitOpen
      <3> QED BY <2>1, <3>2 DEF InitOpen
    <2>2. ASSUME NEW w \in Workers, InitSpawn(w) PROVE TypeOK'
        BY <2>2 DEF InitSpawn
    <2>3. CASE CloseBegin BY <2>3 DEF CloseBegin
    <2>4. CASE CloseStop BY <2>4 DEF CloseStop
    <2>5. CASE CloseNotifyAll BY <2>5 DEF CloseNotifyAll
    <2>6. CASE CloseJoin BY <2>6 DEF CloseJoin
    <2> QED BY <1>1, <2>1, <2>2, <2>3, <2>4, <2>5, <2>6 DEF OwnerStep
  <1>2. ASSUME NEW t \in Tasks, EnqueueStep(t) PROVE TypeOK'
    <2>1. CASE EnqueueCheckStop(t)
      <3>1. call' \in [Tasks -> CallPC]
          BY <2>1, Zenon DEF EnqueueCheckStop
      <3> QED BY <2>1, <3>1 DEF EnqueueCheckStop
    <2>2. CASE EnqueueCheckWorkers(t) BY <2>2 DEF EnqueueCheckWorkers
    <2>3. CASE EnqueuePush(t)
      <3>1. CASE stop BY <2>3, <3>1 DEF EnqueuePush
      <3>2. CASE ~stop
        <4>0. /\ tasks' = Append(tasks, t) /\ accepted' = Append(accepted, t)
              /\ tasks \in Seq(Tasks) /\ accepted \in Seq(Tasks)
            BY <2>3, <3>2 DEF EnqueuePush
        <4>1. tasks' \in Seq(Tasks) /\ accepted' \in Seq(Tasks)
            BY <4>0, AppendProperties
        <4> QED BY <2>3, <3>2, <4>1 DEF EnqueuePush
      <3> QED BY <3>1, <3>2
    <2>4. CASE EnqueueNotify(t) BY <2>4 DEF EnqueueNotify
    <2> QED BY <1>2, <2>1, <2>2, <2>3, <2>4 DEF EnqueueStep
  <1>3. ASSUME NEW w \in Workers, WorkerLoop(w) \/ WorkerSpuriousWake(w)
        PROVE TypeOK'
    <2>1. CASE WorkerWait(w) BY <2>1 DEF WorkerWait
    <2>2. CASE WorkerExit(w) BY <2>2 DEF WorkerExit
    <2>3. CASE WorkerTake(w) BY <2>3 DEF WorkerTake
    <2>4. CASE WorkerRun(w) BY <2>4 DEF WorkerRun
    <2>5. CASE WorkerSpuriousWake(w) BY <2>5 DEF WorkerSpuriousWake
    <2> QED BY <1>3, <2>1, <2>2, <2>3, <2>4, <2>5 DEF WorkerLoop
  <1>4. CASE UNCHANGED vars BY <1>4 DEF vars
  <1> QED BY <1>1, <1>2, <1>3, <1>4 DEF Next

\* The control part: no task moves unless a worker is there to take it.
LEMMA ControlStep == TypeOK /\ ControlInv /\ [Next]_vars => ControlInv'
  <1> SUFFICES ASSUME TypeOK, ControlInv, [Next]_vars PROVE ControlInv'
      OBVIOUS
  <1> USE DEF ControlInv, workerVars, ownerVars, histVars
  <1>1. CASE OwnerStep
    <2>1. ASSUME NEW n \in PoolSizes, InitOpen(n) PROVE ControlInv'
      <3>1. n \in Nat /\ n > 0
          BY PoolAssumption, FS_CardinalityType
      <3> QED BY <2>1, <3>1 DEF InitOpen, TypeOK
    <2>2. ASSUME NEW w \in Workers, InitSpawn(w) PROVE ControlInv'
        BY <2>2 DEF InitSpawn, TypeOK
    <2>3. CASE CloseBegin BY <2>3 DEF CloseBegin, TypeOK
    <2>4. CASE CloseStop BY <2>4 DEF CloseStop, TypeOK
    <2>5. CASE CloseNotifyAll BY <2>5 DEF CloseNotifyAll, TypeOK
    <2>6. CASE CloseJoin BY <2>6 DEF CloseJoin, TypeOK
    <2> QED BY <1>1, <2>1, <2>2, <2>3, <2>4, <2>5, <2>6 DEF OwnerStep
  <1>2. ASSUME NEW t \in Tasks, EnqueueStep(t) PROVE ControlInv'
    <2>1. CASE EnqueueCheckStop(t) BY <2>1 DEF EnqueueCheckStop, TypeOK
    <2>2. CASE EnqueueCheckWorkers(t) BY <2>2 DEF EnqueueCheckWorkers, TypeOK
    <2>3. CASE EnqueuePush(t) BY <2>3 DEF EnqueuePush, TypeOK
    <2>4. CASE EnqueueNotify(t) BY <2>4 DEF EnqueueNotify, TypeOK
    <2> QED BY <1>2, <2>1, <2>2, <2>3, <2>4 DEF EnqueueStep
  <1>3. ASSUME NEW w \in Workers, WorkerLoop(w) \/ WorkerSpuriousWake(w)
        PROVE ControlInv'
    <2>1. CASE WorkerWait(w) BY <2>1 DEF WorkerWait, TypeOK
    <2>2. CASE WorkerExit(w) BY <2>2 DEF WorkerExit, TypeOK
    <2>3. CASE WorkerTake(w) BY <2>3 DEF WorkerTake, TypeOK
    <2>4. CASE WorkerRun(w) BY <2>4 DEF WorkerRun, TypeOK
    <2>5. CASE WorkerSpuriousWake(w) BY <2>5 DEF WorkerSpuriousWake, TypeOK
    <2> QED BY <1>3, <2>1, <2>2, <2>3, <2>4, <2>5 DEF WorkerLoop
  <1>4. CASE UNCHANGED vars BY <1>4 DEF vars, TypeOK
  <1> QED BY <1>1, <1>2, <1>3, <1>4 DEF Next

\* The queue part: enqueue appends to the queue and to the history alike, and a
\* worker takes the oldest queued task.
LEMMA QueueStep == TypeOK /\ QueueInv /\ [Next]_vars => QueueInv'
  <1> SUFFICES ASSUME TypeOK, QueueInv, [Next]_vars PROVE QueueInv'
      OBVIOUS
  <1> USE DEF QueueInv, workerVars, ownerVars, histVars
  <1>1. CASE UNCHANGED <<tasks, accepted, call>>
      BY <1>1
  <1>2. CASE OwnerStep
      BY <1>1, <1>2 DEF OwnerStep, InitOpen, InitSpawn, CloseBegin, CloseStop,
                        CloseNotifyAll, CloseJoin
  <1>3. ASSUME NEW t \in Tasks, EnqueueStep(t) PROVE QueueInv'
    <2>1. ASSUME NEW pc, call' = [call EXCEPT ![t] = pc],
                 \/ call[t] \notin {"notify_one", "returned"}
                 \/ pc \in {"notify_one", "returned"},
                 UNCHANGED <<tasks, accepted>>
          PROVE QueueInv'
        BY <2>1 DEF TypeOK
    <2>2. CASE EnqueueCheckStop(t) BY <2>1, <2>2 DEF EnqueueCheckStop
    <2>3. CASE EnqueueCheckWorkers(t) BY <2>1, <2>3 DEF EnqueueCheckWorkers
    <2>4. CASE EnqueueNotify(t) BY <2>1, <2>4 DEF EnqueueNotify
    <2>5. CASE EnqueuePush(t)
      <3>1. CASE stop BY <2>1, <2>5, <3>1 DEF EnqueuePush
      <3>2. CASE ~stop
        <4>1. /\ tasks' = Append(tasks, t)
              /\ accepted' = Append(accepted, t)
              /\ call' = [call EXCEPT ![t] = "notify_one"]
              /\ call[t] = "locking"
            BY <2>5, <3>2 DEF EnqueuePush
        <4> DEFINE n == Len(tasks)
                   m == Len(accepted)
        <4>2. /\ Len(tasks') = n + 1 /\ n \in Nat
              /\ \A i \in 1 .. n : tasks'[i] = tasks[i]
              /\ tasks'[n + 1] = t
            BY <4>1, AppendProperties DEF TypeOK
        <4>3. /\ Len(accepted') = m + 1 /\ m \in Nat
              /\ \A i \in 1 .. m : accepted'[i] = accepted[i]
              /\ accepted'[m + 1] = t
            BY <4>1, AppendProperties DEF TypeOK
        <4>4. n <= m /\ \A i \in 1 .. m : accepted[i] # t
            BY <4>1 DEF TypeOK
        <4> HIDE DEF n, m
        <4>5. \A i, j \in 1 .. m + 1 : accepted'[i] = accepted'[j] => i = j
          <5>1. \A i, j \in 1 .. m : accepted[i] = accepted[j] => i = j
              BY DEF m
          <5>2. \A i \in 1 .. m + 1 : i \in 1 .. m \/ i = m + 1
              BY <4>3
          <5> SUFFICES ASSUME NEW i \in 1 .. m + 1, NEW j \in 1 .. m + 1,
                              accepted'[i] = accepted'[j]
                       PROVE  i = j
              OBVIOUS
          <5>3. CASE i \in 1 .. m /\ j \in 1 .. m
              BY <5>1, <5>3, <4>3
          <5>4. CASE i = m + 1 /\ j \in 1 .. m
              BY <5>4, <4>3, <4>4
          <5>5. CASE j = m + 1 /\ i \in 1 .. m
              BY <5>5, <4>3, <4>4
          <5> QED BY <5>2, <5>3, <5>4, <5>5
        <4>7. \A i \in 1 .. n + 1 : tasks'[i] = accepted'[(m + 1) - (n + 1) + i]
          <5> SUFFICES ASSUME NEW i \in 1 .. n + 1
                       PROVE  tasks'[i] = accepted'[(m + 1) - (n + 1) + i]
              OBVIOUS
          <5>1. CASE i \in 1 .. n
            <6>1. tasks[i] = accepted[m - n + i]
                BY <5>1 DEF n, m
            <6>2. m - n + i \in 1 .. m /\ (m + 1) - (n + 1) + i = m - n + i
                BY <5>1, <4>2, <4>3, <4>4
            <6> QED BY <6>1, <6>2, <5>1, <4>2, <4>3
          <5>2. CASE i = n + 1
            <6>1. (m + 1) - (n + 1) + i = m + 1
                BY <5>2, <4>2, <4>3
            <6> QED BY <6>1, <5>2, <4>2, <4>3
          <5> QED BY <5>1, <5>2, <4>2
        <4>8. \A i \in 1 .. m + 1 : call'[accepted'[i]] \in {"notify_one", "returned"}
          <5>1. \A i \in 1 .. m : /\ accepted[i] \in Tasks
                                 /\ call[accepted[i]] \in {"notify_one", "returned"}
              BY DEF m, TypeOK
          <5>2. \A i \in 1 .. m + 1 : i \in 1 .. m \/ i = m + 1
              BY <4>3
          <5>3. \A u \in Tasks : call'[u] = IF u = t THEN "notify_one" ELSE call[u]
              BY <4>1 DEF TypeOK
          <5> QED BY <5>1, <5>2, <5>3, <4>3
        <4> QED BY <4>2, <4>3, <4>4, <4>5, <4>7, <4>8
      <3> QED BY <3>1, <3>2
    <2> QED BY <1>3, <2>2, <2>3, <2>4, <2>5 DEF EnqueueStep
  <1>4. ASSUME NEW w \in Workers, WorkerLoop(w) \/ WorkerSpuriousWake(w)
        PROVE QueueInv'
    <2>1. CASE WorkerTake(w)
      <3>1. tasks # <<>> /\ tasks' = Tail(tasks) /\ UNCHANGED <<accepted, call>>
          BY <2>1 DEF WorkerTake
      <3>2. /\ Len(tasks') = Len(tasks) - 1
            /\ \A i \in 1 .. Len(tasks') : tasks'[i] = tasks[i + 1]
          BY <3>1 DEF TypeOK
      <3>3. \A i \in 1 .. Len(tasks') :
               tasks'[i] = accepted[Len(accepted) - Len(tasks') + i]
          BY <3>1, <3>2 DEF TypeOK
      <3> QED BY <3>1, <3>2, <3>3 DEF TypeOK
    <2> QED BY <1>1, <1>4, <2>1 DEF WorkerLoop, WorkerWait, WorkerExit, WorkerRun,
                                    WorkerSpuriousWake
  <1> QED BY <1>1, <1>2, <1>3, <1>4 DEF Next, vars

\* How the tasks that have left the queue change in one step: only WorkerTake
\* adds one, the head of the queue, which is not among them yet.
LEMMA BegunStep ==
    ASSUME TypeOK, QueueInv
    PROVE  /\ UNCHANGED <<tasks, accepted>> => BegunTasks' = BegunTasks
           /\ \A t \in Tasks :
                 tasks' = Append(tasks, t) /\ accepted' = Append(accepted, t)
                 => BegunTasks' = BegunTasks
           /\ tasks # <<>> /\ tasks' = Tail(tasks) /\ accepted' = accepted
              => /\ BegunTasks' = BegunTasks \union {Head(tasks)}
                 /\ Head(tasks) \in Tasks \ BegunTasks
  <1> DEFINE n == Len(tasks)
             m == Len(accepted)
  <1>0. n \in Nat /\ m \in Nat /\ n <= m
      BY DEF TypeOK, QueueInv
  <1>1. ASSUME UNCHANGED <<tasks, accepted>> PROVE BegunTasks' = BegunTasks
      BY <1>1 DEF BegunTasks
  <1>2. ASSUME NEW t \in Tasks,
               tasks' = Append(tasks, t), accepted' = Append(accepted, t)
        PROVE  BegunTasks' = BegunTasks
    <2>1. Len(tasks') = n + 1
        BY <1>2, AppendProperties DEF TypeOK
    <2>2. Len(accepted') = m + 1 /\ \A i \in 1 .. m : accepted'[i] = accepted[i]
        BY <1>2, AppendProperties DEF TypeOK
    <2> HIDE DEF n, m
    <2>3. (m + 1) - (n + 1) = m - n
        BY <1>0
    <2>4. \A i \in 1 .. (m - n) : accepted'[i] = accepted[i]
        BY <1>0, <2>2
    <2>5. BegunTasks' = {accepted'[i] : i \in 1 .. (m - n)}
        BY <2>1, <2>2, <2>3 DEF BegunTasks
    <2>6. BegunTasks = {accepted[i] : i \in 1 .. (m - n)}
        BY DEF BegunTasks, n, m
    <2> QED BY <2>4, <2>5, <2>6
  <1>3. ASSUME tasks # <<>>, tasks' = Tail(tasks), accepted' = accepted
        PROVE  /\ BegunTasks' = BegunTasks \union {Head(tasks)}
               /\ Head(tasks) \in Tasks \ BegunTasks
    <2>1. Len(tasks') = n - 1 /\ n > 0 /\ Head(tasks) \in Tasks /\ Head(tasks) = tasks[1]
        BY <1>3, HeadTailProperties DEF TypeOK
    <2>2. tasks[1] = accepted[(m - n) + 1]
      <3>1. \A i \in 1 .. n : tasks[i] = accepted[(m - n) + i]
          BY DEF QueueInv
      <3>2. 1 \in 1 .. n
          BY <1>0, <2>1
      <3> HIDE DEF n, m
      <3> QED BY <3>1, <3>2
    <2>3. \A i, j \in 1 .. m : accepted[i] = accepted[j] => i = j
        BY DEF QueueInv
    <2>4. BegunTasks' = {accepted[i] : i \in 1 .. (m - (n - 1))}
        BY <1>3, <2>1 DEF BegunTasks
    <2>5. BegunTasks = {accepted[i] : i \in 1 .. (m - n)}
        BY DEF BegunTasks
    <2> HIDE DEF n, m
    <2>6. /\ 1 .. (m - (n - 1)) = (1 .. (m - n)) \union {(m - n) + 1}
          /\ (m - n) + 1 \notin 1 .. (m - n)
          /\ (m - n) + 1 \in 1 .. m
          /\ 1 .. (m - n) \subseteq 1 .. m
        BY <1>0, <2>1
    <2>7. BegunTasks' = BegunTasks \union {accepted[(m - n) + 1]}
        BY <2>4, <2>5, <2>6
    <2>8. accepted[(m - n) + 1] \notin BegunTasks
        BY <2>3, <2>5, <2>6
    <2> QED BY <2>1, <2>2, <2>7, <2>8
  <1> QED BY <1>1, <1>2, <1>3

\* The running part: a task is handed from the queue to one worker, and from
\* that worker to the finished ones.
LEMMA RunStep ==
    TypeOK /\ QueueInv /\ RunInv /\ ControlInv /\ [Next]_vars => RunInv'
  <1> SUFFICES ASSUME TypeOK, QueueInv, RunInv, ControlInv, [Next]_vars PROVE RunInv'
      OBVIOUS
  <1> USE DEF workerVars, ownerVars, histVars
  <1>0. ASSUME BegunTasks' = BegunTasks, UNCHANGED <<running, finished>>,
               \A w \in Workers : wpc'[w] = "running" <=> wpc[w] = "running"
        PROVE  RunInv'
      BY <1>0 DEF RunInv
  <1>1. CASE OwnerStep
    <2>1. UNCHANGED <<tasks, accepted, running, finished>>
        BY <1>1 DEF OwnerStep, InitOpen, InitSpawn, CloseBegin, CloseStop,
                    CloseNotifyAll, CloseJoin
    <2>2. BegunTasks' = BegunTasks
        BY <2>1, BegunStep
    <2>3. \A w \in Workers : wpc'[w] = "running" <=> wpc[w] = "running"
        BY <1>1 DEF OwnerStep, InitOpen, InitSpawn, CloseBegin, CloseStop,
                    CloseNotifyAll, CloseJoin, TypeOK
    <2> QED BY <2>1, <2>2, <2>3, <1>0
  <1>2. ASSUME NEW t \in Tasks, EnqueueStep(t) PROVE RunInv'
    <2>0. \/ UNCHANGED <<tasks, accepted>>
          \/ tasks' = Append(tasks, t) /\ accepted' = Append(accepted, t)
        BY <1>2 DEF EnqueueStep, EnqueueCheckStop, EnqueueCheckWorkers,
                    EnqueuePush, EnqueueNotify
    <2>1. BegunTasks' = BegunTasks
        BY <2>0, BegunStep
    <2>2. UNCHANGED <<running, finished>>
        BY <1>2 DEF EnqueueStep, EnqueueCheckStop, EnqueueCheckWorkers,
                    EnqueuePush, EnqueueNotify
    <2>3. \A w \in Workers : wpc'[w] = "running" <=> wpc[w] = "running"
        BY <1>2 DEF EnqueueStep, EnqueueCheckStop, EnqueueCheckWorkers,
                    EnqueuePush, EnqueueNotify, TypeOK
    <2> QED BY <2>1, <2>2, <2>3, <1>0
  <1>3. ASSUME NEW w \in Workers, WorkerTake(w) PROVE RunInv'
    <2>1. /\ BegunTasks' = BegunTasks \union {Head(tasks)}
          /\ Head(tasks) \in Tasks \ BegunTasks
        BY <1>3, BegunStep DEF WorkerTake
    <2>2. /\ running[w] = {} /\ finished' = finished
          /\ running' = [running EXCEPT ![w] = {Head(tasks)}]
          /\ wpc' = [wpc EXCEPT ![w] = "running"]
        BY <1>3 DEF WorkerTake, RunInv
    <2>3. /\ \A v \in Workers : running'[v] = IF v = w THEN {Head(tasks)} ELSE running[v]
          /\ \A v \in Workers : wpc'[v] = IF v = w THEN "running" ELSE wpc[v]
        BY <2>2 DEF TypeOK
    <2>4. UNION {running'[v] : v \in Workers}
             = {Head(tasks)} \union UNION {running[v] : v \in Workers}
        BY <2>2, <2>3
    <2>5. finished' \subseteq BegunTasks'
        BY <2>1, <2>2 DEF RunInv
    <2>6. \A v \in Workers : running'[v] \subseteq BegunTasks' \ finished'
        BY <2>1, <2>2, <2>3 DEF RunInv
    <2>7. BegunTasks' \subseteq finished' \union UNION {running'[v] : v \in Workers}
        BY <2>1, <2>2, <2>4 DEF RunInv
    <2>8. \A u, v \in Workers : u # v => running'[u] \intersect running'[v] = {}
        BY <2>1, <2>3 DEF RunInv
    <2>9. \A v \in Workers : IF wpc'[v] = "running"
                             THEN \E t \in Tasks : running'[v] = {t}
                             ELSE running'[v] = {}
        BY <2>1, <2>3 DEF RunInv
    <2> QED BY <2>5, <2>6, <2>7, <2>8, <2>9 DEF RunInv
  <1>4. ASSUME NEW w \in Workers, WorkerRun(w) PROVE RunInv'
    <2>1. BegunTasks' = BegunTasks
        BY <1>4, BegunStep DEF WorkerRun
    <2>2. /\ finished' = finished \union running[w]
          /\ \A v \in Workers : running'[v] = IF v = w THEN {} ELSE running[v]
          /\ \A v \in Workers : wpc'[v] = IF v = w THEN "ready" ELSE wpc[v]
        BY <1>4 DEF WorkerRun, TypeOK
    <2>3. UNION {running[v] : v \in Workers}
             = running[w] \union UNION {running'[v] : v \in Workers}
        BY <2>2
    <2>4. finished' \subseteq BegunTasks'
        BY <2>1, <2>2 DEF RunInv
    <2>5. \A v \in Workers : running'[v] \subseteq BegunTasks' \ finished'
        BY <2>1, <2>2 DEF RunInv
    <2>6. BegunTasks' \subseteq finished' \union UNION {running'[v] : v \in Workers}
        BY <2>1, <2>2, <2>3 DEF RunInv
    <2>7. \A u, v \in Workers : u # v => running'[u] \intersect running'[v] = {}
        BY <2>2 DEF RunInv
    <2>8. \A v \in Workers : IF wpc'[v] = "running"
                             THEN \E t \in Tasks : running'[v] = {t}
                             ELSE running'[v] = {}
        BY <2>2 DEF RunInv
    <2> QED BY <2>4, <2>5, <2>6, <2>7, <2>8 DEF RunInv
  <1>5. ASSUME NEW w \in Workers, WorkerWait(w) \/ WorkerExit(w) \/ WorkerSpuriousWake(w)
        PROVE RunInv'
    <2>1. UNCHANGED <<tasks, accepted, running, finished>>
        BY <1>5 DEF WorkerWait, WorkerExit, WorkerSpuriousWake
    <2>2. \A v \in Workers : wpc'[v] = "running" <=> wpc[v] = "running"
        BY <1>5 DEF WorkerWait, WorkerExit, WorkerSpuriousWake, TypeOK
    <2> QED BY <2>1, <2>2, <1>0, BegunStep
  <1>6. CASE UNCHANGED vars
      BY <1>0, <1>6, BegunStep DEF vars
  <1> QED BY <1>1, <1>2, <1>3, <1>4, <1>5, <1>6 DEF Next, WorkerLoop

\* Every step keeps the invariant.
LEMMA InvStep == PoolInv /\ [Next]_vars => PoolInv'
  BY TypeStep, QueueStep, RunStep, ControlStep DEF PoolInv

\* Every reachable state of the pool satisfies the inductive invariant.
THEOREM PoolInvariant == Spec => []PoolInv
  BY InitInv, InvStep, PTL DEF Spec

\* The variables of thread_pool keep their types.
THEOREM TypeCorrect == Spec => []TypeOK
  <1>1. PoolInv => TypeOK
      BY DEF PoolInv
  <1> QED BY <1>1, PoolInvariant, PTL

\* After the notify_all of close no worker waits, so the joins are not stuck
\* behind a sleeping thread.
THEOREM NoSleeper == Spec => []NoSleeperAtJoin
  <1>1. PoolInv => NoSleeperAtJoin
      BY DEF PoolInv, ControlInv, NoSleeperAtJoin
  <1> QED BY <1>1, PoolInvariant, PTL

-----------------------------------------------------------------------------
(* The pool implements TaskService. *)

\* A new pool is a new service.
LEMMA ServiceInit == Init => TS!Init
  BY DEF Init, TS!Init

\* Every step of the pool is one of the service, or none.
LEMMA ServiceStep == PoolInv /\ PoolInv' /\ [Next]_vars => [TS!Next]_(TS!vars)
  <1> SUFFICES ASSUME PoolInv, PoolInv', [Next]_vars
               PROVE  [TS!Next]_(TS!vars)
      OBVIOUS
  <1> USE DEF workerVars, ownerVars, histVars
  <1> DEFINE service == stop /\ owner = "idle"
             count == Len(accepted) - Len(tasks)
  <1>0. ASSUME UNCHANGED <<tasks, accepted, finished>>, service' <=> service
        PROVE  UNCHANGED TS!vars
      BY <1>0 DEF TS!vars
  <1>1. ASSUME NEW n \in PoolSizes, InitOpen(n) PROVE TS!Open
      BY <1>1 DEF InitOpen, TS!Open
  <1>2. ASSUME \/ \E w \in Workers : InitSpawn(w)
               \/ CloseBegin \/ CloseStop \/ CloseNotifyAll
        PROVE  UNCHANGED TS!vars
    <2>1. UNCHANGED <<tasks, accepted, finished>>
        BY <1>2 DEF InitSpawn, CloseBegin, CloseStop, CloseNotifyAll
    <2>2. ~service /\ ~service'
        BY <1>2 DEF InitSpawn, CloseBegin, CloseStop, CloseNotifyAll, PoolInv, ControlInv
    <2> QED BY <1>0, <2>1, <2>2
  <1>3. ASSUME CloseJoin PROVE TS!Close
    <2>1. PICK w \in workers : wpc[w] = "exited"
        BY <1>3 DEF CloseJoin, PoolInv, ControlInv
    <2>2. tasks = <<>> /\ stop
        BY <2>1 DEF PoolInv, ControlInv, TypeOK
    <2>3. \A v \in Workers : running[v] = {}
        BY <1>3 DEF CloseJoin, PoolInv, RunInv, ControlInv, TypeOK
    <2>4. finished = BegunTasks
      <3>1. UNION {running[v] : v \in Workers} = {}
          BY <2>3
      <3> QED BY <3>1 DEF PoolInv, RunInv
    <2>5. BegunTasks = TS!Accepted
        BY <2>2 DEF BegunTasks, TS!Accepted, PoolInv, TypeOK
    <2> QED BY <1>3, <2>2, <2>4, <2>5 DEF CloseJoin, TS!Close
  <1>4. ASSUME NEW t \in Tasks, EnqueueStep(t) PROVE TS!Accept(t) \/ UNCHANGED TS!vars
    <2>1. UNCHANGED <<stop, owner, finished>>
        BY <1>4 DEF EnqueueStep, EnqueueCheckStop, EnqueueCheckWorkers,
                    EnqueuePush, EnqueueNotify
    <2>2. CASE UNCHANGED <<tasks, accepted>>
        BY <2>1, <2>2, <1>0
    <2>3. ASSUME ~stop, call[t] = "locking",
                 tasks' = Append(tasks, t), accepted' = Append(accepted, t)
          PROVE  TS!Accept(t)
      <3>1. t \notin TS!Accepted
          BY <2>3 DEF PoolInv, QueueInv, TS!Accepted
      <3>2. count' = count
          BY <2>3, AppendProperties DEF PoolInv, TypeOK
      <3> QED BY <2>1, <2>3, <3>1, <3>2 DEF TS!Accept
    <2> QED BY <1>4, <2>2, <2>3 DEF EnqueueStep, EnqueueCheckStop, EnqueueCheckWorkers,
                                    EnqueuePush, EnqueueNotify
  <1>5. ASSUME NEW w \in Workers, WorkerTake(w) PROVE TS!Begin
    <2>1. Len(tasks') = Len(tasks) - 1 /\ Len(tasks) > 0 /\ accepted' = accepted
        BY <1>5, HeadTailProperties DEF WorkerTake, PoolInv, TypeOK
    <2>2. count < Len(accepted) /\ count' = count + 1
        BY <2>1 DEF PoolInv, TypeOK, QueueInv
    <2> QED BY <1>5, <2>2 DEF WorkerTake, TS!Begin
  <1>6. ASSUME NEW w \in Workers, WorkerRun(w) PROVE \E t \in Tasks : TS!Finish(t)
    <2>1. PICK t \in Tasks : running[w] = {t}
        BY <1>6 DEF WorkerRun, PoolInv, RunInv
    <2>2. t \in BegunTasks \ finished
        BY <2>1 DEF PoolInv, RunInv
    <2>3. TS!Finish(t)
        BY <1>6, <2>1, <2>2 DEF WorkerRun, TS!Finish, TS!Begun, BegunTasks
    <2> QED BY <2>3
  <1>7. ASSUME NEW w \in Workers, WorkerWait(w) \/ WorkerExit(w) \/ WorkerSpuriousWake(w)
        PROVE UNCHANGED TS!vars
      BY <1>7, <1>0 DEF WorkerWait, WorkerExit, WorkerSpuriousWake
  <1>8. CASE UNCHANGED vars
      BY <1>8, <1>0 DEF vars
  <1> QED BY <1>1, <1>2, <1>3, <1>4, <1>5, <1>6, <1>7, <1>8
          DEF Next, OwnerStep, WorkerLoop, TS!Next

\* thread_pool implements TaskService: whatever the interleaving, tasks start in
\* the order they were queued, run once, none is accepted by a closed pool, and
\* close returns only when every accepted task has run.
THEOREM PoolImplementsService == Spec => ImplementsTaskService
  <1>1. Init => TS!Init
      BY ServiceInit
  <1>2. PoolInv /\ PoolInv' /\ [Next]_vars => [TS!Next]_(TS!vars)
      BY ServiceStep
  <1> QED BY <1>1, <1>2, PoolInvariant, PTL DEF Spec, TS!Spec, ImplementsTaskService

-----------------------------------------------------------------------------
(* No task waits for a worker that sleeps: a counting argument over the      *)
(* workers that are awake and the enqueue calls that have still to notify.   *)

Sleeping == {w \in Workers : wpc[w] = "waiting"}

\* Every step leaves a worker awake, or a notification under way, for what is queued.
LEMMA ConservingStep ==
    TypeOK /\ ControlInv /\ WorkConserving /\ TypeOK' /\ ControlInv' /\ [Next]_vars
        => WorkConserving'
  <1> SUFFICES ASSUME TypeOK, ControlInv, WorkConserving, TypeOK', ControlInv', [Next]_vars,
                      Sleeping' # {}
               PROVE  Len(tasks') <= Cardinality(Awake') + Cardinality(Notifying')
      BY DEF WorkConserving, Sleeping
  <1> USE DEF workerVars, ownerVars, histVars
  <1> DEFINE Goal == Len(tasks') <= Cardinality(Awake') + Cardinality(Notifying')
  <1>0. /\ IsFiniteSet(Awake) /\ Cardinality(Awake) \in Nat
        /\ IsFiniteSet(Notifying) /\ Cardinality(Notifying) \in Nat
        /\ IsFiniteSet(Awake') /\ Cardinality(Awake') \in Nat
        /\ IsFiniteSet(Notifying') /\ Cardinality(Notifying') \in Nat
        /\ Len(tasks) \in Nat
    <2>1. /\ Awake \subseteq Workers /\ Notifying \subseteq Tasks
          /\ Awake' \subseteq Workers /\ Notifying' \subseteq Tasks
        BY DEF Awake, Notifying
    <2> QED BY <2>1, PoolAssumption, FS_Subset, FS_CardinalityType DEF TypeOK
  <1>1. ASSUME Sleeping # {}
        PROVE  Len(tasks) <= Cardinality(Awake) + Cardinality(Notifying)
      BY <1>1 DEF WorkConserving, Sleeping
  \* Steps that take no worker out of Awake and no call out of Notifying.
  <1>2. ASSUME Sleeping # {}, Awake \subseteq Awake', Notifying \subseteq Notifying',
               tasks' = tasks
        PROVE  Goal
    <2>1. /\ Cardinality(Awake) <= Cardinality(Awake')
          /\ Cardinality(Notifying) <= Cardinality(Notifying')
        BY <1>0, <1>2, FS_Subset
    <2> QED BY <1>0, <1>1, <1>2, <2>1
  <1>3. CASE OwnerStep
    <2>1. Notifying' = Notifying /\ tasks' = tasks
        BY <1>3 DEF OwnerStep, InitOpen, InitSpawn, CloseBegin, CloseStop,
                    CloseNotifyAll, CloseJoin, Notifying
    <2>2. Sleeping # {} /\ Awake \subseteq Awake'
      <3>1. ASSUME NEW n \in PoolSizes, InitOpen(n)
            PROVE  Sleeping # {} /\ Awake \subseteq Awake'
          BY <3>1 DEF InitOpen, Sleeping, Awake
      <3>2. ASSUME NEW w \in Workers, InitSpawn(w)
            PROVE  Sleeping # {} /\ Awake \subseteq Awake'
          BY <3>2 DEF InitSpawn, Sleeping, Awake, TypeOK
      <3>3. CASE CloseBegin \/ CloseStop
          BY <3>3 DEF CloseBegin, CloseStop, Sleeping, Awake
      <3>4. CASE CloseNotifyAll
          BY <3>4 DEF CloseNotifyAll, Sleeping, Awake, TypeOK
      <3>5. CASE CloseJoin
          BY <3>5 DEF CloseJoin, Sleeping, Awake, TypeOK, ControlInv
      <3> QED BY <1>3, <3>1, <3>2, <3>3, <3>4, <3>5 DEF OwnerStep
    <2> QED BY <1>2, <2>1, <2>2
  <1>4. ASSUME NEW t \in Tasks, EnqueueStep(t) PROVE Goal
    <2>1. CASE EnqueueCheckStop(t) \/ EnqueueCheckWorkers(t) \/ (EnqueuePush(t) /\ stop)
      <3>1. UNCHANGED <<tasks, wpc>>
          BY <2>1 DEF EnqueueCheckStop, EnqueueCheckWorkers, EnqueuePush
      <3>2. Notifying \subseteq Notifying'
          BY <2>1 DEF EnqueueCheckStop, EnqueueCheckWorkers, EnqueuePush, Notifying, TypeOK
      <3> QED BY <1>2, <3>1, <3>2 DEF Sleeping, Awake
    <2>2. CASE EnqueuePush(t) /\ ~stop
      <3>1. tasks' = Append(tasks, t) /\ wpc' = wpc
          BY <2>2 DEF EnqueuePush
      <3>2. Notifying' = Notifying \union {t} /\ t \notin Notifying
          BY <2>2 DEF EnqueuePush, Notifying, TypeOK
      <3>3. Cardinality(Notifying') = Cardinality(Notifying) + 1
          BY <1>0, <3>2, FS_AddElement
      <3>4. Len(tasks') = Len(tasks) + 1
          BY <3>1, AppendProperties DEF TypeOK
      <3>5. Sleeping # {} /\ Awake' = Awake
          BY <3>1 DEF Sleeping, Awake
      <3> QED BY <1>0, <1>1, <3>3, <3>4, <3>5
    <2>3. CASE EnqueueNotify(t)
      <3>1. PICK w \in Workers : wpc[w] = "waiting" /\ wpc' = [wpc EXCEPT ![w] = "ready"]
          BY <2>3 DEF EnqueueNotify, Sleeping
      <3>2. Awake' = Awake \union {w} /\ w \notin Awake
          BY <3>1 DEF Awake, TypeOK
      <3>3. Notifying' = Notifying \ {t} /\ t \in Notifying
          BY <2>3 DEF EnqueueNotify, Notifying, TypeOK
      <3>4. /\ Cardinality(Awake') = Cardinality(Awake) + 1
            /\ Cardinality(Notifying') = Cardinality(Notifying) - 1
          BY <1>0, <3>2, <3>3, FS_AddElement, FS_RemoveElement
      <3>5. tasks' = tasks /\ Sleeping # {}
          BY <2>3, <3>1 DEF EnqueueNotify, Sleeping
      <3> QED BY <1>0, <1>1, <3>4, <3>5
    <2> QED BY <1>4, <2>1, <2>2, <2>3 DEF EnqueueStep
  <1>5. ASSUME NEW w \in Workers, WorkerLoop(w) \/ WorkerSpuriousWake(w) PROVE Goal
    <2>1. CASE WorkerWait(w)
      <3>1. Len(tasks') = 0
          BY <2>1 DEF WorkerWait
      <3> QED BY <1>0, <3>1
    <2>2. CASE WorkerExit(w)
        BY <1>0, <2>2 DEF WorkerExit
    <2>3. CASE WorkerTake(w)
      <3>1. Awake' = Awake \ {w} /\ w \in Awake
          BY <2>3 DEF WorkerTake, Awake, TypeOK
      <3>2. Cardinality(Awake') = Cardinality(Awake) - 1
          BY <1>0, <3>1, FS_RemoveElement
      <3>3. Len(tasks') = Len(tasks) - 1
          BY <2>3, HeadTailProperties DEF WorkerTake, TypeOK
      <3>4. Notifying' = Notifying /\ Sleeping # {}
          BY <2>3 DEF WorkerTake, Notifying, Sleeping, TypeOK
      <3> QED BY <1>0, <1>1, <3>2, <3>3, <3>4
    <2>4. CASE WorkerRun(w)
        BY <1>2, <2>4 DEF WorkerRun, Awake, Notifying, Sleeping, TypeOK
    <2>5. CASE WorkerSpuriousWake(w)
        BY <1>2, <2>5 DEF WorkerSpuriousWake, Awake, Notifying, Sleeping, TypeOK
    <2> QED BY <1>5, <2>1, <2>2, <2>3, <2>4, <2>5 DEF WorkerLoop
  <1>6. CASE UNCHANGED vars
      BY <1>2, <1>6 DEF vars, Awake, Notifying, Sleeping
  <1> QED BY <1>3, <1>4, <1>5, <1>6 DEF Next

\* While a worker sleeps in condition.wait, every queued task has an awake worker
\* or a pending notify_one of its own: no wakeup of thread_pool is ever lost.
THEOREM NoLostWakeup == Spec => []WorkConserving
  <1>1. Init => WorkConserving
      BY DEF Init, WorkConserving
  <1>2. PoolInv /\ PoolInv' /\ WorkConserving /\ [Next]_vars => WorkConserving'
      BY ConservingStep DEF PoolInv
  <1> QED BY <1>1, <1>2, PoolInvariant, PTL DEF Spec

=============================================================================
