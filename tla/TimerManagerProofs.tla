--------------------------- MODULE TimerManagerProofs ---------------------------
(***************************************************************************)
(* Proofs about timer_manager, for any number of timers, periods and       *)
(* starts and any length of time.                                          *)
(***************************************************************************)
EXTENDS TimerManager, SequenceTheorems, FiniteSetTheorems, FunctionTheorems, TLAPS

Info == [setter : Setters, status : {"ok", "canceled"}, milliseconds : Periods,
         next_time : Nat]

\* The part of TypeOK that the proof is about.
StopTypes ==
    /\ now \in Nat /\ timerId \in Nat
    /\ info \in Seq(Info) /\ Len(info) = timerId
    /\ stopped \in Seq(BOOLEAN) /\ Len(stopped) = timerId

(***************************************************************************)
(* The inductive invariant: a timer that was stopped is canceled, which    *)
(* timer_handler looks at before it calls a function, and it is not the    *)
(* one whose function runs, which the return of the function may start     *)
(* again without looking.                                                  *)
(***************************************************************************)
StoppedCanceled == \A t \in 1 .. timerId : stopped[t] => info[t].status = "canceled" /\ cur # t

StopInv == StopTypes /\ StoppedCanceled

-----------------------------------------------------------------------------
\* No timer has been stopped yet.
LEMMA InitStop == Init => StopInv
  BY DEF Init, StopInv, StopTypes, StoppedCanceled

\* start_timer changes the one timer, and leaves a timer of it.
LEMMA StartChanges ==
  ASSUME StopTypes, NEW t \in 1 .. timerId, StartTimer(t)
  PROVE  /\ info' \in Seq(Info) /\ Len(info') = timerId
         /\ \A i \in 1 .. timerId : i # t => info'[i] = info[i]
<1>1. info[t] \in Info /\ info[t].next_time \in Nat /\ info[t].milliseconds \in Nat
  <2>1. info[t] \in Info
    BY DEF StopTypes
  <2>2. info[t].next_time \in Nat /\ info[t].milliseconds \in Periods
    BY <2>1 DEF Info
  <2>3. Periods \subseteq Nat
    BY TimerAssumption
  <2> QED BY <2>1, <2>2, <2>3
<1>2. CalcNextTime(t) \in Nat
  BY <1>1 DEF CalcNextTime, StopTypes
<1>3. PICK n \in Nat : info' = [info EXCEPT ![t] = [@ EXCEPT !.status = "ok", !.next_time = n]]
  <2>1. CASE info[t].next_time # 0
    BY <1>2, <2>1 DEF StartTimer
  <2>2. CASE info[t].next_time = 0
    <3>1. info' = [info EXCEPT ![t].status = "ok"]
      BY <2>2 DEF StartTimer
    <3>2. [info[t] EXCEPT !.status = "ok"]
            = [info[t] EXCEPT !.status = "ok", !.next_time = info[t].next_time]
      BY <1>1 DEF Info
    <3> QED BY <1>1, <3>1, <3>2
  <2> QED BY <2>1, <2>2
<1>4. [info[t] EXCEPT !.status = "ok", !.next_time = n] \in Info
  BY <1>1 DEF Info
<1> QED BY <1>3, <1>4 DEF StopTypes

\* A start by the user ends the stop of the timer it starts.
LEMMA BeginStop ==
  ASSUME StopInv, NEW t \in 1 .. timerId, Begin(t), UNCHANGED <<now, timerId, cur>>
  PROVE  StopInv'
<1>1. /\ info' \in Seq(Info) /\ Len(info') = timerId
      /\ \A i \in 1 .. timerId : i # t => info'[i] = info[i]
  BY StartChanges DEF Begin, StopInv
<1>2. stopped' = [stopped EXCEPT ![t] = FALSE]
  BY DEF Begin
<1>3. /\ stopped' \in Seq(BOOLEAN) /\ Len(stopped') = timerId /\ stopped'[t] = FALSE
      /\ \A i \in 1 .. timerId : i # t => stopped'[i] = stopped[i]
  BY <1>2 DEF StopInv, StopTypes
<1> QED BY <1>1, <1>3 DEF StopInv, StopTypes, StoppedCanceled

\* A stop cancels what it marks as stopped.
LEMMA StopTimersStop ==
  ASSUME StopInv, NEW T, StopTimers(T), UNCHANGED <<now, timerId, cur>>
  PROVE  StopInv'
<1>1. DOMAIN info = 1 .. timerId /\ DOMAIN stopped = 1 .. timerId
  BY DEF StopInv, StopTypes
<1>2. /\ info' = [t \in 1 .. timerId |->
                    IF t \in T THEN [info[t] EXCEPT !.status = "canceled"] ELSE info[t]]
      /\ stopped' = [t \in 1 .. timerId |-> IF t \in T THEN t # cur ELSE stopped[t]]
  BY <1>1 DEF StopTimers
<1>3. \A t \in 1 .. timerId : info[t] \in Info /\ stopped[t] \in BOOLEAN
  BY DEF StopInv, StopTypes
<1>4. \A t \in 1 .. timerId : info'[t] \in Info
  BY <1>2, <1>3 DEF Info
<1>5. \A t \in 1 .. timerId : stopped'[t] \in BOOLEAN
  BY <1>2, <1>3
<1>6. info' \in Seq(Info) /\ Len(info') = timerId
  BY <1>2, <1>4 DEF StopInv, StopTypes
<1>7. stopped' \in Seq(BOOLEAN) /\ Len(stopped') = timerId
  BY <1>2, <1>5 DEF StopInv, StopTypes
<1>8. ASSUME NEW t \in 1 .. timerId, stopped'[t]
      PROVE  info'[t].status = "canceled" /\ cur # t
  <2>1. CASE t \in T
    <3>1. info'[t] = [info[t] EXCEPT !.status = "canceled"]
      BY <1>2, <2>1
    <3>2. info'[t].status = "canceled"
      BY <1>3, <3>1 DEF Info
    <3> QED BY <1>2, <1>8, <2>1, <3>2
  <2>2. CASE t \notin T
    BY <1>2, <1>8, <2>2 DEF StopInv, StoppedCanceled
  <2> QED BY <2>1, <2>2
<1> QED BY <1>6, <1>7, <1>8 DEF StopInv, StopTypes, StoppedCanceled

\* A new timer has not been stopped.
LEMMA SetTimerStop ==
  ASSUME StopInv, NEW setter \in Setters, NEW ms \in Periods, SetTimer(setter, ms)
  PROVE  StopInv'
<1> DEFINE new == [setter |-> setter, status |-> "ok", milliseconds |-> ms,
                   next_time |-> IF Fixed(setter) THEN now + ms ELSE 0]
<1>1. now \in Nat /\ ms \in Nat
  BY TimerAssumption DEF StopInv, StopTypes
<1>2. new \in Info
  BY <1>1 DEF Info
<1>3. info' = Append(info, new) /\ stopped' = Append(stopped, FALSE)
      /\ timerId' = timerId + 1 /\ now' = now /\ cur' = cur
  BY DEF SetTimer
<1> HIDE DEF new
<1>4. info' \in Seq(Info) /\ Len(info') = timerId'
      /\ \A t \in 1 .. timerId : info'[t] = info[t]
  BY <1>2, <1>3, AppendProperties DEF StopInv, StopTypes
<1>5. stopped' \in Seq(BOOLEAN) /\ Len(stopped') = timerId'
      /\ stopped'[timerId + 1] = FALSE
      /\ \A t \in 1 .. timerId : stopped'[t] = stopped[t]
  <2>1. stopped \in Seq(BOOLEAN) /\ FALSE \in BOOLEAN /\ Len(stopped) = timerId
    BY DEF StopInv, StopTypes
  <2>2. /\ Append(stopped, FALSE) \in Seq(BOOLEAN)
        /\ Len(Append(stopped, FALSE)) = Len(stopped) + 1
        /\ \A i \in 1 .. Len(stopped) : Append(stopped, FALSE)[i] = stopped[i]
        /\ Append(stopped, FALSE)[Len(stopped) + 1] = FALSE
    <3>1. \A S : \A seq \in Seq(S), elt \in S :
            /\ Append(seq, elt) \in Seq(S)
            /\ Len(Append(seq, elt)) = Len(seq) + 1
            /\ \A i \in 1 .. Len(seq) : Append(seq, elt)[i] = seq[i]
            /\ Append(seq, elt)[Len(seq) + 1] = elt
      BY AppendProperties
    <3> QED BY <2>1, <3>1, Zenon
  <2> QED BY <1>3, <2>1, <2>2, Zenon
<1>6. StoppedCanceled'
  BY <1>3, <1>4, <1>5 DEF StopInv, StopTypes, StoppedCanceled
<1> QED BY <1>1, <1>3, <1>4, <1>5, <1>6 DEF StopInv, StopTypes

\* The return of a function starts at most the timer of that function.
LEMMA ReturnStop ==
  ASSUME StopInv, NEW is_continue \in BOOLEAN, FunctionReturns(is_continue)
  PROVE  StopInv'
<1>1. cur # 0 /\ cur' = 0 /\ now' = now /\ timerId' = timerId /\ stopped' = stopped
  BY DEF FunctionReturns, history
<1>2. CASE cur \in 1 .. timerId /\ StartTimer(cur)
  BY <1>1, <1>2, StartChanges DEF StopInv, StopTypes, StoppedCanceled
<1>3. CASE info' = info
  BY <1>1, <1>3 DEF StopInv, StopTypes, StoppedCanceled
<1>4. CASE cur \notin 1 .. timerId /\ StartTimer(cur)
  <2>1. info' = info
    <3>1. DOMAIN info = 1 .. timerId
      BY DEF StopInv, StopTypes
    <3>2. PICK x : info' = [info EXCEPT ![cur] = x]
      BY <1>4 DEF StartTimer
    <3> QED BY <1>4, <3>1, <3>2 DEF StopInv, StopTypes
  <2> QED BY <1>3, <2>1
<1> QED BY <1>2, <1>3, <1>4 DEF FunctionReturns

\* timer_handler looks at the status before it calls.
LEMMA HandlerStop ==
  ASSUME StopInv, TimerHandler
  PROVE  StopInv' /\ \A t \in 1 .. timerId : cur # t /\ cur' = t => ~stopped[t]
<1>1. /\ cur = 0 /\ now' = now /\ timerId' = timerId /\ info' = info
      /\ stopped' = stopped
  BY DEF TimerHandler
<1>2. cur' = cur \/ info[cur'].status = "ok"
  BY DEF TimerHandler, MayFire
<1>3. ASSUME NEW t \in 1 .. timerId, stopped[t]
      PROVE  info[t].status = "canceled" /\ cur' # t
  <2>1. info[t].status = "canceled" /\ cur # t
    BY <1>3 DEF StopInv, StoppedCanceled
  <2> QED BY <1>2, <2>1
<1> QED BY <1>1, <1>3 DEF StopInv, StopTypes, StoppedCanceled

\* Every step keeps the invariant, and calls no timer that was stopped.
LEMMA NextStop ==
  ASSUME StopInv, [Next]_vars
  PROVE  StopInv' /\ \A t \in 1 .. timerId : cur # t /\ cur' = t => ~stopped[t]
<1> DEFINE Held == \A t \in 1 .. timerId : cur # t /\ cur' = t => ~stopped[t]
<1>1. ASSUME NEW setter \in Setters, NEW ms \in Periods, SetTimer(setter, ms)
      PROVE  StopInv' /\ Held
  BY <1>1, SetTimerStop DEF SetTimer
<1>2. ASSUME NEW t \in 1 .. timerId, Start(t) PROVE StopInv' /\ Held
  BY <1>2, BeginStop DEF Start
<1>3. ASSUME NEW t \in 1 .. timerId, Drop(t) PROVE StopInv' /\ Held
  <2>1. UNCHANGED <<now, timerId, cur>>
    BY <1>3 DEF Drop
  <2>2. CASE Begin(t)
    BY <2>1, <2>2, BeginStop
  <2>3. CASE UNCHANGED <<info, stopped>>
    BY <2>1, <2>3 DEF StopInv, StopTypes, StoppedCanceled
  <2> QED BY <1>3, <2>2, <2>3 DEF Drop
<1>4. ASSUME NEW t \in 1 .. timerId, Stop(t) \/ Close(t) PROVE StopInv' /\ Held
  <2>1. StopTimers({t}) /\ UNCHANGED <<now, timerId, cur>>
    BY <1>4 DEF Stop, Close
  <2> QED BY <2>1, StopTimersStop
<1>5. CASE StopAllTimer
  BY <1>5, StopTimersStop DEF StopAllTimer
<1>6. CASE Tick
  BY <1>6 DEF Tick, history, StopInv, StopTypes, StoppedCanceled
<1>7. ASSUME NEW t \in 1 .. timerId, Expire(t) PROVE StopInv' /\ Held
  BY <1>7 DEF Expire, history, StopInv, StopTypes, StoppedCanceled
<1>8. CASE TimerHandler
  BY <1>8, HandlerStop
<1>9. ASSUME NEW is_continue \in BOOLEAN, FunctionReturns(is_continue)
      PROVE  StopInv' /\ Held
  <2>1. StopInv'
    BY <1>9, ReturnStop
  <2>2. cur' = 0 /\ 0 \notin 1 .. timerId
    BY <1>9 DEF FunctionReturns
  <2> QED BY <2>1, <2>2
<1>10. CASE UNCHANGED vars
  BY <1>10 DEF vars, history, StopInv, StopTypes, StoppedCanceled
<1> QED BY <1>1, <1>2, <1>3, <1>4, <1>5, <1>6, <1>7, <1>8, <1>9, <1>10 DEF Next, User

-----------------------------------------------------------------------------
\* timer_handler does not call the function of a timer that was stopped, other than by
\* that function, before it is started again: not even when the handler was in the
\* queue of the io_service already.
THEOREM StoppedStaysSilent == Spec => StopHolds
<1>1. StopInv /\ [Next]_vars => StopInv'
  BY NextStop
<1>2. StopInv /\ [Next]_vars =>
        [\A t \in 1 .. timerId : cur # t /\ cur' = t => ~stopped[t]]_vars
  BY NextStop
<1> QED BY <1>1, <1>2, InitStop, PTL DEF Spec, StopHolds

-----------------------------------------------------------------------------
(* How often, and for how long, a timer is called *)

Fires(t) == [id |-> t, ok |-> TRUE]

\* The handlers in q that may call the function of t.
Due(q, t) == {i \in DOMAIN q : q[i] = Fires(t)}

\* The handlers of waits, those that were cut off and those that were not.
QueueOK(q, n) ==
    /\ \E S : q \in Seq(S)
    /\ \A i \in DOMAIN q : q[i].ok = FALSE \/ \E t \in 1 .. n : q[i] = Fires(t)

ChainTypes ==
    /\ now \in Nat /\ timerId \in Nat
    /\ timers \subseteq 1 .. timerId
    /\ info \in Seq(Info) /\ Len(info) = timerId
    /\ wait \in Seq(Nat \union {None}) /\ Len(wait) = timerId
    /\ born \in Seq(Nat) /\ Len(born) = timerId
    /\ starts \in Seq(Nat) /\ Len(starts) = timerId
    /\ fired \in Seq(Nat) /\ Len(fired) = timerId
    /\ cur \in 0 .. timerId
    /\ QueueOK(queue, timerId)

\* A timer of period ms that was created at b, has been started s times and called, or
\* is due to be called, a times, with the wait w, at the time n.  The next call is a
\* period after the last one, or after a start; that of a timer with a fixed time is a
\* period after its next_time.
Paced(fixed, ms, nextTime, b, s, a, w, n) ==
    /\ b <= n
    /\ IF fixed
       THEN /\ nextTime > 0
            /\ (a + 1) * ms <= nextTime - b
            /\ a > 0 => (a + 1) * ms <= n - b
            /\ w # None => (a + 2) * ms <= w - b /\ (a + 2) * ms <= nextTime - b
       ELSE /\ nextTime = 0
            /\ a > 0 \/ w # None => s >= 1
            /\ s >= 1 => a * ms <= n - b + (s - 1) * ms
            /\ w # None => (a + 1) * ms <= w - b + (s - 1) * ms

PacedTimer(t) ==
    Paced(Fixed(info[t].setter), info[t].milliseconds, info[t].next_time, born[t], starts[t],
          fired[t] + Cardinality(Due(queue, t)), wait[t], now)

\* ChainAlive for one timer.
AliveTimer(t) ==
    /\ Returns(info[t].setter) = {TRUE} \/ Fixed(info[t].setter)
    /\ starts[t] > 0 /\ info[t].status = "ok"
    => wait[t] # None \/ cur = t \/ Due(queue, t) # {}

\* A timer whose function runs has been called.
TimerOK(t) == PacedTimer(t) /\ (cur = t => fired[t] > 0) /\ AliveTimer(t)

\* The inductive invariant.
ChainInv == ChainTypes /\ \A t \in 1 .. timerId : TimerOK(t)

-----------------------------------------------------------------------------
(* The pace of one timer *)

\* One more start allows one more call.
LEMMA PacedBegin ==
  ASSUME NEW fixed \in BOOLEAN, NEW ms \in Nat \ {0}, NEW x \in Nat, NEW b \in Nat, NEW s \in Nat,
         NEW a \in Nat, NEW w \in Nat \union {None}, NEW n \in Nat, Paced(fixed, ms, x, b, s, a, w, n)
  PROVE  Paced(fixed, ms, x, b, s + 1, a, w, n)
<1>1. CASE fixed
  BY <1>1 DEF Paced
<1>2. CASE ~fixed
  <2>1. (s + 1 - 1) * ms = (s - 1) * ms + ms
    OBVIOUS
  <2>2. a = 0 => a * ms = 0
    OBVIOUS
  <2>3. a * ms \in Int /\ (a + 1) * ms \in Int /\ (s - 1) * ms \in Int /\ s * ms \in Nat
    OBVIOUS
  <2>4. a * ms <= n - b + (s + 1 - 1) * ms
    <3>1. CASE s = 0
      BY <1>2, <2>2, <2>3, <3>1 DEF Paced
    <3>2. CASE s # 0
      BY <1>2, <2>1, <2>3, <3>2 DEF Paced
    <3> QED BY <3>1, <3>2
  <2>5. w # None => w \in Nat /\ (a + 1) * ms <= w - b + (s + 1 - 1) * ms
    BY <1>2, <2>1, <2>3 DEF Paced, None
  <2> QED BY <1>2, <2>4, <2>5 DEF Paced
<1> QED BY <1>1, <1>2

\* A wait for a period from now.
LEMMA PacedWait ==
  ASSUME NEW ms \in Nat \ {0}, NEW x \in Nat, NEW b \in Nat, NEW s \in Nat, s >= 1,
         NEW a \in Nat, NEW w \in Nat \union {None}, NEW n \in Nat, Paced(FALSE, ms, x, b, s, a, w, n)
  PROVE  Paced(FALSE, ms, x, b, s, a, n + ms, n)
<1>1. (a + 1) * ms = a * ms + ms
  OBVIOUS
<1>2. a * ms \in Int /\ (a + 1) * ms \in Int /\ (s - 1) * ms \in Int
  OBVIOUS
<1>3. a * ms <= n - b + (s - 1) * ms
  BY DEF Paced
<1>4. (a + 1) * ms <= (n + ms) - b + (s - 1) * ms
  BY <1>1, <1>2, <1>3
<1> QED BY <1>4 DEF Paced

\* A wait until the next fixed time.
LEMMA PacedFixed ==
  ASSUME NEW ms \in Nat \ {0}, NEW x \in Nat, NEW b \in Nat, NEW s \in Nat,
         NEW a \in Nat, NEW w \in Nat \union {None}, NEW n \in Nat, Paced(TRUE, ms, x, b, s, a, w, n),
         NEW y \in Nat, y >= x + ms
  PROVE  Paced(TRUE, ms, y, b, s, a, y, n)
<1>1. (a + 2) * ms = (a + 1) * ms + ms
  OBVIOUS
<1>2. (a + 1) * ms \in Int /\ (a + 2) * ms \in Int
  OBVIOUS
<1>3. (a + 1) * ms <= x - b /\ x > 0
  BY DEF Paced
<1>4. (a + 2) * ms <= y - b /\ (a + 1) * ms <= y - b /\ y > 0
  BY <1>1, <1>2, <1>3
<1> QED BY <1>4 DEF Paced

\* The time of a wait has come.
LEMMA PacedExpire ==
  ASSUME NEW fixed \in BOOLEAN, NEW ms \in Nat \ {0}, NEW x \in Nat, NEW b \in Nat, NEW s \in Nat,
         NEW a \in Nat, NEW w \in Nat, NEW n \in Nat, w <= n, Paced(fixed, ms, x, b, s, a, w, n)
  PROVE  Paced(fixed, ms, x, b, s, a + 1, None, n)
<1>0. w # None
  BY DEF None
<1>1. CASE fixed
  <2>1. (a + 1 + 1) * ms \in Int /\ (a + 2) * ms = (a + 1 + 1) * ms
    OBVIOUS
  <2>2. (a + 2) * ms <= w - b /\ (a + 2) * ms <= x - b
    BY <1>0, <1>1 DEF Paced
  <2>3. (a + 1 + 1) * ms <= n - b /\ (a + 1 + 1) * ms <= x - b
    BY <1>1, <2>1, <2>2
  <2> QED BY <1>1, <2>3 DEF Paced
<1>2. CASE ~fixed
  <2>1. (a + 1) * ms \in Int /\ (s - 1) * ms \in Int
    OBVIOUS
  <2>2. (a + 1) * ms <= w - b + (s - 1) * ms /\ s >= 1
    BY <1>0, <1>2 DEF Paced
  <2>3. (a + 1) * ms <= n - b + (s - 1) * ms
    BY <2>1, <2>2
  <2> QED BY <1>2, <2>2, <2>3 DEF Paced
<1> QED BY <1>1, <1>2

\* A call that was due is not made.
LEMMA PacedDrop ==
  ASSUME NEW fixed \in BOOLEAN, NEW ms \in Nat \ {0}, NEW x \in Nat, NEW b \in Nat, NEW s \in Nat,
         NEW a \in Nat, NEW w \in Nat \union {None}, NEW n \in Nat,
         Paced(fixed, ms, x, b, s, a + 1, w, n)
  PROVE  Paced(fixed, ms, x, b, s, a, w, n)
<1>1. /\ (a + 1) * ms = a * ms + ms /\ (a + 1 + 1) * ms = (a + 1) * ms + ms
      /\ (a + 1 + 2) * ms = (a + 2) * ms + ms
  OBVIOUS
<1>2. /\ a * ms \in Int /\ (a + 1) * ms \in Int /\ (a + 2) * ms \in Int /\ (s - 1) * ms \in Int
      /\ (a + 1 + 1) * ms \in Int /\ (a + 1 + 2) * ms \in Int
  OBVIOUS
<1>3. CASE fixed
  <2>1. (a + 1) * ms <= x - b /\ (a + 1) * ms <= n - b
    BY <1>1, <1>2, <1>3 DEF Paced
  <2>2. w # None => (a + 2) * ms <= w - b /\ (a + 2) * ms <= x - b
    BY <1>1, <1>2, <1>3 DEF Paced, None
  <2> QED BY <1>3, <2>1, <2>2 DEF Paced
<1>4. CASE ~fixed
  <2>1. s >= 1 => a * ms <= n - b + (s - 1) * ms
    BY <1>1, <1>2, <1>4 DEF Paced
  <2>2. w # None => (a + 1) * ms <= w - b + (s - 1) * ms
    BY <1>1, <1>2, <1>4 DEF Paced, None
  <2> QED BY <1>4, <2>1, <2>2 DEF Paced
<1> QED BY <1>3, <1>4

\* Time passes.
LEMMA PacedTick ==
  ASSUME NEW fixed \in BOOLEAN, NEW ms \in Nat \ {0}, NEW x \in Nat, NEW b \in Nat, NEW s \in Nat,
         NEW a \in Nat, NEW w, NEW n \in Nat, Paced(fixed, ms, x, b, s, a, w, n)
  PROVE  Paced(fixed, ms, x, b, s, a, w, n + 1)
<1>1. (a + 1) * ms \in Int /\ a * ms \in Int /\ (s - 1) * ms \in Int
  OBVIOUS
<1>2. CASE fixed
  BY <1>1, <1>2 DEF Paced
<1>3. CASE ~fixed
  BY <1>1, <1>3 DEF Paced
<1> QED BY <1>2, <1>3

-----------------------------------------------------------------------------
(* The queue of handlers *)

\* Elements of a sequence.
LEMMA QueueShape ==
  ASSUME NEW n, NEW q, QueueOK(q, n)
  PROVE  Len(q) \in Nat /\ DOMAIN q = 1 .. Len(q)
<1>1. PICK S : q \in Seq(S)
  BY DEF QueueOK
<1> QED BY <1>1, LenProperties

\* Finitely many handlers are due.
LEMMA DueNat ==
  ASSUME NEW n, NEW q, QueueOK(q, n), NEW t
  PROVE  IsFiniteSet(Due(q, t)) /\ Cardinality(Due(q, t)) \in Nat
<1>1. IsFiniteSet(1 .. Len(q)) /\ DOMAIN q = 1 .. Len(q)
  BY QueueShape, FS_Interval
<1>2. Due(q, t) \in SUBSET (1 .. Len(q))
  BY <1>1 DEF Due
<1> QED BY <1>1, <1>2, FS_Subset, FS_CardinalityType

\* The handler of a wait that has ended is put in the queue.
LEMMA QueueAppend ==
  ASSUME NEW n \in Nat, NEW q, QueueOK(q, n), NEW t \in 1 .. n
  PROVE  /\ QueueOK(Append(q, Fires(t)), n)
         /\ Cardinality(Due(Append(q, Fires(t)), t)) = Cardinality(Due(q, t)) + 1
         /\ Due(Append(q, Fires(t)), t) # {}
         /\ \A s : s # t => Due(Append(q, Fires(t)), s) = Due(q, s)
<1>0. PICK S : q \in Seq(S)
  BY DEF QueueOK
<1> DEFINE E == S \union {Fires(t)}
           r == Append(q, Fires(t))
<1>1. q \in Seq(E)
  BY <1>0, SeqMonotonic
<1>2. Fires(t) \in E
  OBVIOUS
<1>3. Len(q) \in Nat /\ DOMAIN q = 1 .. Len(q)
  BY QueueShape
<1> HIDE DEF E
<1>4. /\ r \in Seq(E) /\ Len(r) = Len(q) + 1
      /\ \A i \in 1 .. Len(q) : r[i] = q[i]
      /\ r[Len(q) + 1] = Fires(t)
  BY <1>1, <1>2, AppendProperties
<1>5. DOMAIN r = 1 .. Len(q) + 1
  BY <1>4, LenProperties
<1> HIDE DEF r
<1>6. DOMAIN r = DOMAIN q \union {Len(q) + 1} /\ Len(q) + 1 \notin DOMAIN q
  BY <1>3, <1>5
<1>7. QueueOK(r, n)
  <2>1. \A i \in DOMAIN r : r[i].ok = FALSE \/ \E s \in 1 .. n : r[i] = Fires(s)
    BY <1>3, <1>4, <1>6 DEF QueueOK
  <2> QED BY <1>4, <2>1 DEF QueueOK
<1>8. Due(r, t) = Due(q, t) \union {Len(q) + 1} /\ Len(q) + 1 \notin Due(q, t)
  BY <1>3, <1>4, <1>6 DEF Due
<1>9. Cardinality(Due(r, t)) = Cardinality(Due(q, t)) + 1
  BY <1>8, DueNat, FS_AddElement
<1>10. ASSUME NEW s, s # t PROVE Due(r, s) = Due(q, s)
  <2>1. Fires(s) # Fires(t)
    BY <1>10 DEF Fires
  <2> QED BY <1>3, <1>4, <1>6, <2>1 DEF Due
<1> QED BY <1>7, <1>8, <1>9, <1>10 DEF r

\* The handlers of waits that were cut off call no function.
LEMMA QueueCut ==
  ASSUME NEW n \in Nat, NEW q, QueueOK(q, n), NEW T \in SUBSET (1 .. n)
  PROVE  /\ QueueOK(q \o Aborted(T), n)
         /\ \A t : Due(q \o Aborted(T), t) = Due(q, t)
<1>0. PICK S : q \in Seq(S)
  BY DEF QueueOK
<1> DEFINE m == Cardinality(T)
           at(i) == [id |-> SetToSortSeq(T, <)[i], ok |-> FALSE]
           A == {at(i) : i \in 1 .. m}
           E == S \union A
           z == Aborted(T)
           r == q \o z
<1>1. m \in Nat
  <2>1. IsFiniteSet(1 .. n)
    BY FS_Interval
  <2>2. IsFiniteSet(T)
    BY <2>1, FS_Subset
  <2> QED BY <2>2, FS_CardinalityType
<1>2. z = [i \in 1 .. m |-> at(i)]
  BY DEF Aborted
<1>3. \A i \in 1 .. m : at(i) \in E /\ at(i).ok = FALSE
  OBVIOUS
<1> HIDE DEF m, at, E, z
<1>4. z \in Seq(E) /\ Len(z) = m /\ \A i \in 1 .. m : z[i].ok = FALSE
  BY <1>1, <1>2, <1>3
<1>5. q \in Seq(E)
  BY <1>0, SeqMonotonic DEF E
<1>6. Len(q) \in Nat /\ DOMAIN q = 1 .. Len(q)
  BY QueueShape
<1>7. /\ r \in Seq(E) /\ Len(r) = Len(q) + m
      /\ \A i \in 1 .. Len(q) + m : r[i] = IF i <= Len(q) THEN q[i] ELSE z[i - Len(q)]
  BY <1>4, <1>5, ConcatProperties
<1> HIDE DEF r
<1>8. DOMAIN r = 1 .. Len(q) + m
  BY <1>7, LenProperties
<1>9. /\ \A i \in DOMAIN q : i \in DOMAIN r /\ r[i] = q[i]
      /\ \A i \in DOMAIN r : i \in DOMAIN q \/ r[i].ok = FALSE
  <2>1. ASSUME NEW i \in DOMAIN q PROVE i \in DOMAIN r /\ r[i] = q[i]
    BY <1>1, <1>6, <1>7, <1>8
  <2>2. ASSUME NEW i \in DOMAIN r, i \notin DOMAIN q PROVE r[i].ok = FALSE
    <3>1. i - Len(q) \in 1 .. m /\ r[i] = z[i - Len(q)]
      BY <1>1, <1>6, <1>7, <1>8, <2>2
    <3> QED BY <1>4, <3>1
  <2> QED BY <2>1, <2>2
<1>10. QueueOK(r, n)
  <2>1. \A i \in DOMAIN r : r[i].ok = FALSE \/ \E s \in 1 .. n : r[i] = Fires(s)
    BY <1>9 DEF QueueOK
  <2> QED BY <1>7, <2>1 DEF QueueOK
<1>11. ASSUME NEW t PROVE Due(r, t) = Due(q, t)
  <2>1. Fires(t).ok = TRUE
    BY DEF Fires
  <2> QED BY <1>9, <2>1 DEF Due
<1> QED BY <1>10, <1>11 DEF r, z

\* The first handler leaves the queue.
LEMMA QueueTail ==
  ASSUME NEW n \in Nat, NEW q, QueueOK(q, n), q # <<>>
  PROVE  /\ QueueOK(Tail(q), n)
         /\ Head(q).ok = FALSE \/ \E t \in 1 .. n : Head(q) = Fires(t)
         /\ \A t : /\ Head(q) # Fires(t) => Cardinality(Due(Tail(q), t)) = Cardinality(Due(q, t))
                   /\ Head(q) = Fires(t) => Cardinality(Due(Tail(q), t)) + 1 = Cardinality(Due(q, t))
                   /\ Head(q) # Fires(t) /\ Due(q, t) # {} => Due(Tail(q), t) # {}
<1>0. PICK S : q \in Seq(S)
  BY DEF QueueOK
<1> DEFINE r == Tail(q)
<1>1. Len(q) \in Nat \ {0} /\ DOMAIN q = 1 .. Len(q) /\ Head(q) = q[1]
  BY <1>0, EmptySeq, LenProperties
<1>2. /\ r \in Seq(S) /\ Len(r) = Len(q) - 1
      /\ \A i \in 1 .. Len(r) : r[i] = q[i + 1]
  BY <1>0, HeadTailProperties
<1> HIDE DEF r
<1>3. DOMAIN r = 1 .. Len(q) - 1
  BY <1>2, LenProperties
<1>4. \A i \in DOMAIN r : i + 1 \in DOMAIN q /\ r[i] = q[i + 1]
  BY <1>1, <1>2, <1>3
<1>5. QueueOK(r, n)
  <2>1. \A i \in DOMAIN r : r[i].ok = FALSE \/ \E s \in 1 .. n : r[i] = Fires(s)
    BY <1>4 DEF QueueOK
  <2> QED BY <1>2, <2>1 DEF QueueOK
<1>6. Head(q).ok = FALSE \/ \E t \in 1 .. n : Head(q) = Fires(t)
  BY <1>1 DEF QueueOK
<1>7. ASSUME NEW t
      PROVE  /\ Head(q) # Fires(t) => Cardinality(Due(r, t)) = Cardinality(Due(q, t))
             /\ Head(q) = Fires(t) => Cardinality(Due(r, t)) + 1 = Cardinality(Due(q, t))
             /\ Head(q) # Fires(t) /\ Due(q, t) # {} => Due(r, t) # {}
  <2> DEFINE D == Due(q, t) \ {1}
             f == [i \in Due(r, t) |-> i + 1]
  <2>1. IsFiniteSet(Due(q, t)) /\ IsFiniteSet(Due(r, t)) /\ Cardinality(Due(r, t)) \in Nat
        /\ Cardinality(Due(q, t)) \in Nat
    BY <1>5, DueNat
  <2>2. \A i \in Due(r, t) : i \in Nat /\ i + 1 \in D
    BY <1>3, <1>4 DEF Due
  <2>3. \A j \in D : j - 1 \in Due(r, t) /\ j = (j - 1) + 1
    BY <1>1, <1>2, <1>3 DEF Due
  <2>4. f \in Bijection(Due(r, t), D)
    <3>1. f \in [Due(r, t) -> D]
      BY <2>2
    <3>2. \A a, b \in Due(r, t) : f[a] = f[b] => a = b
      BY <2>2
    <3>3. \A j \in D : \E i \in Due(r, t) : f[i] = j
      BY <2>3
    <3> HIDE DEF f
    <3> QED BY <3>1, <3>2, <3>3, Fun_IsBij
  <2>5. Cardinality(D) = Cardinality(Due(r, t))
    <3>1. ExistsBijection(Due(r, t), D)
      BY <2>4 DEF ExistsBijection
    <3> QED BY <2>1, <3>1, FS_Bijection
  <2>6. Cardinality(D) = IF 1 \in Due(q, t) THEN Cardinality(Due(q, t)) - 1 ELSE Cardinality(Due(q, t))
    BY <2>1, FS_RemoveElement
  <2>7. 1 \in Due(q, t) <=> Head(q) = Fires(t)
    BY <1>1 DEF Due
  <2>8. Head(q) # Fires(t) /\ Due(q, t) # {} => Due(r, t) # {}
    BY <2>3, <2>7
  <2> HIDE DEF D
  <2> QED BY <2>1, <2>5, <2>6, <2>7, <2>8
<1> QED BY <1>5, <1>6, <1>7 DEF r

-----------------------------------------------------------------------------
(* One timer, in each step *)

\* A function on 1 .. n is a sequence.
LEMMA FunctionSeq ==
  ASSUME NEW S, NEW n \in Nat, NEW f \in [1 .. n -> S]
  PROVE  f \in Seq(S) /\ Len(f) = n
  OBVIOUS

\* What the fields of a timer are.
LEMMA TimerTypes ==
  ASSUME ChainTypes, NEW t \in 1 .. timerId
  PROVE  /\ info[t] \in Info /\ info[t].setter \in Setters
         /\ info[t].milliseconds \in Nat \ {0} /\ info[t].next_time \in Nat
         /\ wait[t] \in Nat \union {None}
         /\ born[t] \in Nat /\ starts[t] \in Nat /\ fired[t] \in Nat
         /\ Fixed(info[t].setter) \in BOOLEAN
         /\ Cardinality(Due(queue, t)) \in Nat
         /\ fired[t] + Cardinality(Due(queue, t)) \in Nat
<1>1. info[t] \in Info
  BY DEF ChainTypes
<1>2. info[t].milliseconds \in Periods /\ info[t].next_time \in Nat /\ info[t].setter \in Setters
  BY <1>1 DEF Info
<1>3. info[t].milliseconds \in Nat \ {0}
  BY <1>2, TimerAssumption
<1>4. wait[t] \in Nat \union {None}
  BY DEF ChainTypes
<1>5. born[t] \in Nat /\ starts[t] \in Nat /\ fired[t] \in Nat
  BY DEF ChainTypes
<1>6. Cardinality(Due(queue, t)) \in Nat
  BY DueNat DEF ChainTypes
<1>7. Fixed(info[t].setter) \in BOOLEAN
  BY DEF Fixed
<1> QED BY <1>1, <1>2, <1>3, <1>4, <1>5, <1>6, <1>7

\* A step that does not touch a timer.
LEMMA SameTimer ==
  ASSUME NEW t, TimerOK(t), now' = now,
         info'[t] = info[t], wait'[t] = wait[t], born'[t] = born[t],
         starts'[t] = starts[t], fired'[t] = fired[t],
         Cardinality(Due(queue', t)) = Cardinality(Due(queue, t)),
         Due(queue, t) # {} => Due(queue', t) # {},
         cur' = t <=> cur = t
  PROVE  TimerOK(t)'
<1>1. PacedTimer(t)'
  BY DEF TimerOK, PacedTimer
<1>2. AliveTimer(t)'
  BY DEF TimerOK, AliveTimer
<1> QED BY <1>1, <1>2 DEF TimerOK

\* start_timer, for a timer that may be called once more.
LEMMA StartChain ==
  ASSUME ChainInv, NEW t \in 1 .. timerId, StartTimer(t), NEW s \in Nat,
         Fixed(info[t].setter) \/ s >= 1,
         Paced(Fixed(info[t].setter), info[t].milliseconds, info[t].next_time, born[t], s,
               fired[t] + Cardinality(Due(queue, t)), wait[t], now)
  PROVE  /\ info' \in Seq(Info) /\ Len(info') = timerId
         /\ wait' \in Seq(Nat \union {None}) /\ Len(wait') = timerId
         /\ QueueOK(queue', timerId)
         /\ \A i : Due(queue', i) = Due(queue, i)
         /\ \A i \in 1 .. timerId : i # t => info'[i] = info[i] /\ wait'[i] = wait[i]
         /\ wait'[t] # None
         /\ info'[t].setter = info[t].setter /\ info'[t].milliseconds = info[t].milliseconds
         /\ Paced(Fixed(info[t].setter), info[t].milliseconds, info'[t].next_time, born[t], s,
                  fired[t] + Cardinality(Due(queue, t)), wait'[t], now)
<1> DEFINE ms == info[t].milliseconds
           x == info[t].next_time
           a == fired[t] + Cardinality(Due(queue, t))
<1>1. /\ info[t] \in Info /\ ms \in Nat \ {0} /\ x \in Nat /\ wait[t] \in Nat \union {None}
      /\ born[t] \in Nat /\ a \in Nat /\ now \in Nat /\ timerId \in Nat
  BY TimerTypes DEF ChainInv, ChainTypes
<1>2. /\ info \in Seq(Info) /\ Len(info) = timerId
      /\ wait \in Seq(Nat \union {None}) /\ Len(wait) = timerId
  BY DEF ChainInv, ChainTypes
<1>3. QueueOK(queue', timerId) /\ \A i : Due(queue', i) = Due(queue, i)
  <2>1. Waiting({t}) \in SUBSET (1 .. timerId)
    BY DEF Waiting
  <2>2. QueueOK(queue, timerId) /\ timerId \in Nat /\ queue' = queue \o Aborted(Waiting({t}))
    BY DEF StartTimer, ChainInv, ChainTypes
  <2>3. ASSUME NEW T \in SUBSET (1 .. timerId)
        PROVE  /\ QueueOK(queue \o Aborted(T), timerId)
               /\ \A i : Due(queue \o Aborted(T), i) = Due(queue, i)
    BY <2>2, QueueCut
  <2> QED BY <2>1, <2>2, <2>3
<1>4. \E y \in Nat, z \in Nat :
         /\ info' = [info EXCEPT ![t] = [@ EXCEPT !.status = "ok", !.next_time = y]]
         /\ wait' = [wait EXCEPT ![t] = z]
         /\ Paced(Fixed(info[t].setter), ms, y, born[t], s, a, z, now)
  <2>1. CASE Fixed(info[t].setter)
    <3>1. x > 0 /\ Paced(TRUE, ms, x, born[t], s, a, wait[t], now)
      BY <2>1 DEF Paced
    <3>2. CalcNextTime(t) \in Nat /\ CalcNextTime(t) >= x + ms
      BY <1>1 DEF CalcNextTime
    <3>3. Paced(TRUE, ms, CalcNextTime(t), born[t], s, a, CalcNextTime(t), now)
      <4> HIDE DEF ms, x, a
      <4> QED BY <1>1, <3>1, <3>2, PacedFixed
    <3>4. Paced(Fixed(info[t].setter), ms, CalcNextTime(t), born[t], s, a, CalcNextTime(t), now)
      BY <2>1, <3>3 DEF Paced
    <3>5. x # 0
      BY <1>1, <3>1
    <3>6. /\ info' = [info EXCEPT ![t].status = "ok", ![t].next_time = CalcNextTime(t)]
          /\ wait' = [wait EXCEPT ![t] = CalcNextTime(t)]
      BY <3>5 DEF StartTimer
    <3>7. info' = [info EXCEPT ![t] = [@ EXCEPT !.status = "ok", !.next_time = CalcNextTime(t)]]
      BY <3>6
    <3> QED BY <3>2, <3>4, <3>6, <3>7
  <2>2. CASE ~Fixed(info[t].setter)
    <3>1. x = 0 /\ Paced(FALSE, ms, x, born[t], s, a, wait[t], now)
      BY <2>2 DEF Paced
    <3>2. Paced(FALSE, ms, x, born[t], s, a, now + ms, now)
      <4> HIDE DEF ms, x, a
      <4> QED BY <1>1, <2>2, <3>1, PacedWait
    <3>3. Paced(Fixed(info[t].setter), ms, x, born[t], s, a, now + ms, now)
      BY <2>2, <3>2 DEF Paced
    <3>4. info' = [info EXCEPT ![t].status = "ok"] /\ wait' = [wait EXCEPT ![t] = now + ms]
      BY <3>1 DEF StartTimer
    <3>5. [info[t] EXCEPT !.status = "ok"] = [info[t] EXCEPT !.status = "ok", !.next_time = x]
      BY <1>1 DEF Info
    <3>6. info' = [info EXCEPT ![t] = [@ EXCEPT !.status = "ok", !.next_time = x]]
      BY <3>4, <3>5
    <3>7. now + ms \in Nat
      BY <1>1
    <3> QED BY <1>1, <3>3, <3>4, <3>6, <3>7
  <2> QED BY <2>1, <2>2
<1>5. PICK y \in Nat, z \in Nat :
         /\ info' = [info EXCEPT ![t] = [@ EXCEPT !.status = "ok", !.next_time = y]]
         /\ wait' = [wait EXCEPT ![t] = z]
         /\ Paced(Fixed(info[t].setter), ms, y, born[t], s, a, z, now)
  BY <1>4
<1> DEFINE new == [info[t] EXCEPT !.status = "ok", !.next_time = y]
<1>6. /\ new \in Info /\ new.next_time = y /\ new.setter = info[t].setter
      /\ new.milliseconds = info[t].milliseconds
  BY <1>1 DEF Info
<1>7. info' = [info EXCEPT ![t] = new]
  BY <1>5
<1> HIDE DEF new
<1>8. /\ info' \in Seq(Info) /\ Len(info') = timerId /\ info'[t] = new
      /\ \A i \in 1 .. timerId : i # t => info'[i] = info[i]
  BY <1>2, <1>6, <1>7, ExceptSeq
<1>9. /\ wait' \in Seq(Nat \union {None}) /\ Len(wait') = timerId /\ wait'[t] = z /\ z # None
      /\ \A i \in 1 .. timerId : i # t => wait'[i] = wait[i]
  BY <1>2, <1>5, ExceptSeq DEF None
<1> QED BY <1>3, <1>5, <1>6, <1>8, <1>9

-----------------------------------------------------------------------------
(* The actions *)

\* There are no timers yet.
LEMMA InitChain == Init => ChainInv
<1> SUFFICES ASSUME Init PROVE ChainInv
  OBVIOUS
<1>1. queue = <<>> /\ <<>> \in Seq({}) /\ DOMAIN queue = {}
  BY DEF Init
<1>2. QueueOK(queue, 0)
  BY <1>1 DEF QueueOK
<1>3. ChainTypes
  BY <1>2 DEF Init, ChainTypes
<1>4. 1 .. timerId = {}
  BY DEF Init
<1> QED BY <1>3, <1>4 DEF ChainInv

\* A start by the user cuts the wait off and begins another, one more call being allowed.
LEMMA BeginChain ==
  ASSUME ChainInv, NEW t \in 1 .. timerId, Begin(t), timers' \subseteq 1 .. timerId,
         UNCHANGED <<now, timerId, cur, born, fired>>
  PROVE  ChainInv'
<1> DEFINE a == fired[t] + Cardinality(Due(queue, t))
<1>1. TimerOK(t) /\ ChainTypes
  BY DEF ChainInv
<1>2. starts[t] + 1 \in Nat /\ starts[t] + 1 >= 1
  BY <1>1, TimerTypes
<1>3. Paced(Fixed(info[t].setter), info[t].milliseconds, info[t].next_time, born[t], starts[t] + 1,
            a, wait[t], now)
  BY <1>1, TimerTypes, PacedBegin DEF TimerOK, PacedTimer, ChainTypes
<1>4. /\ info' \in Seq(Info) /\ Len(info') = timerId
      /\ wait' \in Seq(Nat \union {None}) /\ Len(wait') = timerId
      /\ QueueOK(queue', timerId)
      /\ \A i : Due(queue', i) = Due(queue, i)
      /\ \A i \in 1 .. timerId : i # t => info'[i] = info[i] /\ wait'[i] = wait[i]
      /\ wait'[t] # None
      /\ info'[t].setter = info[t].setter /\ info'[t].milliseconds = info[t].milliseconds
      /\ Paced(Fixed(info[t].setter), info[t].milliseconds, info'[t].next_time, born[t],
               starts[t] + 1, a, wait'[t], now)
  BY <1>2, <1>3, StartChain DEF Begin
<1>5. /\ starts' \in Seq(Nat) /\ Len(starts') = timerId /\ starts'[t] = starts[t] + 1
      /\ \A i \in 1 .. timerId : i # t => starts'[i] = starts[i]
  <2>1. starts' = [starts EXCEPT ![t] = starts[t] + 1]
    BY DEF Begin
  <2> QED BY <1>1, <1>2, <2>1, ExceptSeq DEF ChainTypes
<1>6. ChainTypes'
  BY <1>1, <1>4, <1>5 DEF ChainTypes
<1>7. TimerOK(t)'
  <2>1. PacedTimer(t)'
    BY <1>4, <1>5 DEF PacedTimer
  <2> QED BY <1>1, <1>4, <2>1 DEF TimerOK, AliveTimer
<1>8. ASSUME NEW i \in 1 .. timerId, i # t PROVE TimerOK(i)'
  <2>1. TimerOK(i)
    BY DEF ChainInv
  <2>2. /\ info'[i] = info[i] /\ wait'[i] = wait[i] /\ starts'[i] = starts[i]
        /\ Due(queue', i) = Due(queue, i)
    BY <1>4, <1>5, <1>8
  <2> QED BY <2>1, <2>2, SameTimer
<1> QED BY <1>6, <1>7, <1>8 DEF ChainInv

\* A stop cuts waits off; the timers it stops need not be called.
LEMMA StopChain ==
  ASSUME ChainInv, NEW T \in SUBSET (1 .. timerId), StopTimers(T), timers' \subseteq 1 .. timerId,
         UNCHANGED <<now, timerId, cur, born, starts, fired>>
  PROVE  ChainInv'
<1>1. ChainTypes
  BY DEF ChainInv
<1>2. DOMAIN info = 1 .. timerId /\ DOMAIN wait = 1 .. timerId /\ timerId \in Nat
  BY <1>1 DEF ChainTypes
<1>3. /\ info' = [t \in 1 .. timerId |->
                    IF t \in T THEN [info[t] EXCEPT !.status = "canceled"] ELSE info[t]]
      /\ wait' = [t \in 1 .. timerId |-> IF t \in T THEN None ELSE wait[t]]
  BY <1>2 DEF StopTimers
<1>4. QueueOK(queue', timerId) /\ \A i : Due(queue', i) = Due(queue, i)
  <2>1. Waiting(T) \in SUBSET (1 .. timerId)
    BY DEF Waiting
  <2>2. QueueOK(queue, timerId) /\ queue' = queue \o Aborted(Waiting(T))
    BY <1>1 DEF StopTimers, ChainTypes
  <2>3. ASSUME NEW U \in SUBSET (1 .. timerId)
        PROVE  /\ QueueOK(queue \o Aborted(U), timerId)
               /\ \A i : Due(queue \o Aborted(U), i) = Due(queue, i)
    BY <1>2, <2>2, QueueCut
  <2> QED BY <2>1, <2>2, <2>3
<1>5. \A t \in 1 .. timerId : info[t] \in Info /\ wait[t] \in Nat \union {None}
  BY <1>1, TimerTypes
<1>6. \A t \in 1 .. timerId : info'[t] \in Info /\ wait'[t] \in Nat \union {None}
  BY <1>3, <1>5 DEF Info
<1>7. /\ info' \in Seq(Info) /\ Len(info') = timerId
      /\ wait' \in Seq(Nat \union {None}) /\ Len(wait') = timerId
  <2>1. info' \in [1 .. timerId -> Info] /\ wait' \in [1 .. timerId -> Nat \union {None}]
    BY <1>3, <1>6
  <2> QED BY <1>2, <2>1, FunctionSeq
<1>8. ChainTypes'
  BY <1>1, <1>4, <1>7 DEF ChainTypes
<1>9. ASSUME NEW t \in 1 .. timerId PROVE TimerOK(t)'
  <2>1. TimerOK(t)
    BY DEF ChainInv
  <2>2. CASE t \in T
    <3>1. /\ info'[t].setter = info[t].setter /\ info'[t].milliseconds = info[t].milliseconds
          /\ info'[t].next_time = info[t].next_time /\ info'[t].status = "canceled"
          /\ wait'[t] = None
      BY <1>3, <1>5, <2>2 DEF Info
    <3>2. PacedTimer(t)'
      BY <1>4, <2>1, <3>1 DEF TimerOK, PacedTimer, Paced
    <3> QED BY <2>1, <3>1, <3>2 DEF TimerOK, AliveTimer
  <2>3. CASE t \notin T
    <3>1. info'[t] = info[t] /\ wait'[t] = wait[t]
      BY <1>3, <2>3
    <3> QED BY <1>4, <2>1, <3>1, SameTimer
  <2> QED BY <2>2, <2>3
<1> QED BY <1>8, <1>9 DEF ChainInv

\* A new timer is due nowhere and has not been started.
LEMMA SetTimerChain ==
  ASSUME ChainInv, NEW setter \in Setters, NEW ms \in Periods, SetTimer(setter, ms)
  PROVE  ChainInv'
<1>0. PICK n : n = timerId + 1
  OBVIOUS
<1> DEFINE new == [setter |-> setter, status |-> "ok", milliseconds |-> ms,
                   next_time |-> IF Fixed(setter) THEN now + ms ELSE 0]
<1>1. ChainTypes
  BY DEF ChainInv
<1>2. now \in Nat /\ ms \in Nat \ {0} /\ timerId \in Nat /\ n \in Nat /\ n = timerId + 1
  BY <1>0, <1>1, TimerAssumption DEF ChainTypes
<1>3. /\ new \in Info /\ new.setter = setter /\ new.milliseconds = ms
      /\ new.next_time = IF Fixed(setter) THEN now + ms ELSE 0
  BY <1>2 DEF Info
<1>4. /\ info' = Append(info, new) /\ wait' = Append(wait, None) /\ born' = Append(born, now)
      /\ starts' = Append(starts, 0) /\ fired' = Append(fired, 0)
      /\ timerId' = n /\ timers' = timers \union {n}
      /\ UNCHANGED <<now, queue, cur>>
  BY <1>0 DEF SetTimer
<1> HIDE DEF new
<1>5. /\ info' \in Seq(Info) /\ Len(info') = n /\ info'[n] = new
      /\ \A t \in 1 .. timerId : info'[t] = info[t]
  BY <1>1, <1>3, <1>4, <1>2, AppendProperties DEF ChainTypes
<1>6. /\ wait' \in Seq(Nat \union {None}) /\ Len(wait') = n /\ wait'[n] = None
      /\ \A t \in 1 .. timerId : wait'[t] = wait[t]
  BY <1>1, <1>4, <1>2, AppendProperties DEF ChainTypes
<1>7. /\ born' \in Seq(Nat) /\ Len(born') = n /\ born'[n] = now
      /\ \A t \in 1 .. timerId : born'[t] = born[t]
  BY <1>1, <1>2, <1>4, AppendProperties DEF ChainTypes
<1>8. /\ starts' \in Seq(Nat) /\ Len(starts') = n /\ starts'[n] = 0
      /\ \A t \in 1 .. timerId : starts'[t] = starts[t]
  BY <1>1, <1>4, <1>2, AppendProperties DEF ChainTypes
<1>9. /\ fired' \in Seq(Nat) /\ Len(fired') = n /\ fired'[n] = 0
      /\ \A t \in 1 .. timerId : fired'[t] = fired[t]
  BY <1>1, <1>4, <1>2, AppendProperties DEF ChainTypes
<1>10. QueueOK(queue, n)
  <2>1. 1 .. timerId \subseteq 1 .. n
    BY <1>2
  <2> QED BY <1>1, <2>1 DEF ChainTypes, QueueOK
<1>11. ChainTypes'
  <2>1. n \in Nat /\ timers' \subseteq 1 .. n /\ cur' \in 0 .. n
    BY <1>1, <1>2, <1>4 DEF ChainTypes
  <2> QED BY <1>1, <1>4, <1>5, <1>6, <1>7, <1>8, <1>9, <1>10, <2>1 DEF ChainTypes
<1>12. ASSUME NEW t \in 1 .. timerId PROVE TimerOK(t)'
  <2>1. TimerOK(t)
    BY DEF ChainInv
  <2> QED BY <1>4, <1>5, <1>6, <1>7, <1>8, <1>9, <2>1, SameTimer
<1>13. TimerOK(n)'
  <2>1. Due(queue', n) = {}
    <3>1. \A t \in 1 .. timerId : t # n
      BY <1>2
    <3>2. \A i \in DOMAIN queue : queue[i] # Fires(n)
      <4> SUFFICES ASSUME NEW i \in DOMAIN queue, queue[i] = Fires(n) PROVE FALSE
        OBVIOUS
      <4>1. queue[i].ok = TRUE /\ queue[i].id = n
        BY DEF Fires
      <4>2. PICK t \in 1 .. timerId : queue[i] = Fires(t)
        BY <1>1, <4>1 DEF ChainTypes, QueueOK
      <4>3. queue[i].id = t
        BY <4>2 DEF Fires
      <4> QED BY <3>1, <4>1, <4>3
    <3> QED BY <1>4, <3>2 DEF Due
  <2>2. fired'[n] + Cardinality(Due(queue', n)) = 0
    BY <1>9, <2>1, FS_EmptySet
  <2>3. Paced(Fixed(setter), ms, new.next_time, now, 0, 0, None, now)
    <3>1. CASE Fixed(setter)
      BY <1>2, <1>3, <3>1 DEF Paced
    <3>2. CASE ~Fixed(setter)
      BY <1>2, <1>3, <3>2 DEF Paced
    <3> QED BY <3>1, <3>2
  <2>4. PacedTimer(n)'
    BY <1>3, <1>4, <1>5, <1>6, <1>7, <1>8, <2>2, <2>3 DEF PacedTimer
  <2>5. cur' # n
    BY <1>1, <1>2, <1>4 DEF ChainTypes
  <2> QED BY <1>8, <2>4, <2>5 DEF TimerOK, AliveTimer
<1>14. 1 .. timerId' = (1 .. timerId) \union {n}
  BY <1>2, <1>4
<1> QED BY <1>11, <1>12, <1>13, <1>14 DEF ChainInv

\* Time passes, for all timers.
LEMMA TickChain ==
  ASSUME ChainInv, Tick
  PROVE  ChainInv'
<1>1. /\ now' = now + 1 /\ UNCHANGED <<timerId, timers, info, wait, queue, cur>>
      /\ UNCHANGED <<born, starts, fired>>
  BY DEF Tick, history
<1>2. ChainTypes
  BY DEF ChainInv
<1>3. ChainTypes'
  BY <1>1, <1>2 DEF ChainTypes
<1>4. ASSUME NEW t \in 1 .. timerId PROVE TimerOK(t)'
  <2>1. TimerOK(t) /\ now \in Nat
    BY <1>2 DEF ChainInv, ChainTypes
  <2>2. PacedTimer(t)'
    BY <1>1, <1>2, <2>1, TimerTypes, PacedTick DEF TimerOK, PacedTimer
  <2> QED BY <1>1, <2>1, <2>2 DEF TimerOK, AliveTimer
<1> QED BY <1>1, <1>3, <1>4 DEF ChainInv

\* The call a timer waited for becomes due.
LEMMA ExpireChain ==
  ASSUME ChainInv, NEW t \in 1 .. timerId, Expire(t)
  PROVE  ChainInv'
<1> DEFINE a == fired[t] + Cardinality(Due(queue, t))
<1>1. /\ wait[t] # None /\ wait[t] <= now /\ wait' = [wait EXCEPT ![t] = None]
      /\ queue' = Append(queue, Fires(t))
      /\ UNCHANGED <<now, timerId, timers, info, cur, born, starts, fired>>
  BY DEF Expire, history, Fires
<1>2. ChainTypes /\ TimerOK(t) /\ timerId \in Nat /\ now \in Nat
  BY DEF ChainInv, ChainTypes
<1>3. /\ QueueOK(queue', timerId)
      /\ Cardinality(Due(queue', t)) = Cardinality(Due(queue, t)) + 1
      /\ Due(queue', t) # {}
      /\ \A i : i # t => Due(queue', i) = Due(queue, i)
  BY <1>1, <1>2, QueueAppend DEF ChainTypes
<1>4. /\ wait' \in Seq(Nat \union {None}) /\ Len(wait') = timerId /\ wait'[t] = None
      /\ \A i \in 1 .. timerId : i # t => wait'[i] = wait[i]
  BY <1>1, <1>2, ExceptSeq DEF ChainTypes
<1>5. ChainTypes'
  BY <1>1, <1>2, <1>3, <1>4 DEF ChainTypes
<1>6. Paced(Fixed(info[t].setter), info[t].milliseconds, info[t].next_time, born[t], starts[t],
            a + 1, None, now)
  <2>1. wait[t] \in Nat
    BY <1>1, <1>2, TimerTypes
  <2> QED BY <1>1, <1>2, <2>1, TimerTypes, PacedExpire DEF TimerOK, PacedTimer
<1>7. fired'[t] + Cardinality(Due(queue', t)) = a + 1
  <2>1. /\ fired'[t] = fired[t] /\ fired[t] \in Nat /\ Cardinality(Due(queue, t)) \in Nat
        /\ Cardinality(Due(queue', t)) = Cardinality(Due(queue, t)) + 1
    BY <1>1, <1>2, <1>3, TimerTypes
  <2>2. \A i, j \in Nat : i + (j + 1) = i + j + 1
    OBVIOUS
  <2> QED BY <2>1, <2>2
<1>8. TimerOK(t)'
  <2>1. PacedTimer(t)'
    BY <1>1, <1>4, <1>6, <1>7 DEF PacedTimer
  <2> QED BY <1>1, <1>2, <1>3, <2>1 DEF TimerOK, AliveTimer
<1>9. ASSUME NEW i \in 1 .. timerId, i # t PROVE TimerOK(i)'
  <2>1. TimerOK(i)
    BY DEF ChainInv
  <2>2. wait'[i] = wait[i] /\ Due(queue', i) = Due(queue, i)
    BY <1>3, <1>4, <1>9
  <2> QED BY <1>1, <2>1, <2>2, SameTimer
<1> QED BY <1>1, <1>5, <1>8, <1>9 DEF ChainInv

\* A call that is due is made, or dropped with the handler of a canceled timer.
LEMMA HandlerChain ==
  ASSUME ChainInv, TimerHandler
  PROVE  ChainInv'
<1> DEFINE h == Head(queue)
<1>1. /\ cur = 0 /\ queue # <<>> /\ queue' = Tail(queue)
      /\ UNCHANGED <<now, timerId, timers, info, wait, born, starts>>
  BY DEF TimerHandler
<1>2. ChainTypes /\ timerId \in Nat /\ now \in Nat /\ QueueOK(queue, timerId)
  BY DEF ChainInv, ChainTypes
<1>3. /\ QueueOK(queue', timerId)
      /\ h.ok = FALSE \/ \E t \in 1 .. timerId : h = Fires(t)
      /\ \A t : /\ h # Fires(t) => Cardinality(Due(queue', t)) = Cardinality(Due(queue, t))
                /\ h = Fires(t) => Cardinality(Due(queue', t)) + 1 = Cardinality(Due(queue, t))
                /\ h # Fires(t) /\ Due(queue, t) # {} => Due(queue', t) # {}
  BY <1>1, <1>2, QueueTail
<1>4. \A t : Fires(t).ok = TRUE /\ Fires(t).id = t
  BY DEF Fires
<1>5. CASE ~MayFire(h)
  <2>1. cur' = cur /\ fired' = fired
    BY <1>5 DEF TimerHandler
  <2>2. ChainTypes'
    BY <1>1, <1>2, <1>3, <2>1 DEF ChainTypes
  <2>3. ASSUME NEW t \in 1 .. timerId PROVE TimerOK(t)'
    <3>1. TimerOK(t)
      BY DEF ChainInv
    <3>2. CASE h # Fires(t)
      <4>1. /\ Cardinality(Due(queue', t)) = Cardinality(Due(queue, t))
            /\ Due(queue, t) # {} => Due(queue', t) # {}
        BY <1>3, <3>2
      <4> QED BY <1>1, <2>1, <3>1, <4>1, SameTimer
    <3>3. CASE h = Fires(t)
      <4>1. info[t].status # "ok"
        BY <1>4, <1>5, <3>3 DEF MayFire
      <4>2. Cardinality(Due(queue', t)) + 1 = Cardinality(Due(queue, t))
            /\ Cardinality(Due(queue', t)) \in Nat
        BY <1>3, <3>3, DueNat
      <4>3. /\ fired[t] + Cardinality(Due(queue', t)) \in Nat
            /\ fired[t] + Cardinality(Due(queue, t)) = fired[t] + Cardinality(Due(queue', t)) + 1
        BY <1>2, <4>2, TimerTypes
      <4>4. Paced(Fixed(info[t].setter), info[t].milliseconds, info[t].next_time, born[t], starts[t],
                  fired[t] + Cardinality(Due(queue', t)), wait[t], now)
        BY <1>2, <3>1, <4>3, TimerTypes, PacedDrop DEF TimerOK, PacedTimer
      <4>5. PacedTimer(t)'
        BY <1>1, <2>1, <4>4 DEF PacedTimer
      <4> QED BY <1>1, <2>1, <3>1, <4>1, <4>5 DEF TimerOK, AliveTimer
    <3> QED BY <3>2, <3>3
  <2> QED BY <1>1, <2>2, <2>3 DEF ChainInv
<1>6. CASE MayFire(h)
  <2>1. PICK u \in 1 .. timerId : h = Fires(u)
    BY <1>3, <1>6 DEF MayFire
  <2>2. cur' = u /\ fired' = [fired EXCEPT ![u] = @ + 1]
    BY <1>4, <1>6, <2>1 DEF TimerHandler
  <2>3. fired[u] \in Nat /\ fired[u] + 1 \in Nat
    BY <1>2, TimerTypes
  <2>4. /\ fired' \in Seq(Nat) /\ Len(fired') = timerId /\ fired'[u] = fired[u] + 1
        /\ \A t \in 1 .. timerId : t # u => fired'[t] = fired[t]
    BY <1>2, <2>2, <2>3, ExceptSeq DEF ChainTypes
  <2>5. ChainTypes'
    BY <1>1, <1>2, <1>3, <2>2, <2>4 DEF ChainTypes
  <2>6. TimerOK(u)'
    <3>1. Cardinality(Due(queue', u)) + 1 = Cardinality(Due(queue, u))
          /\ Cardinality(Due(queue', u)) \in Nat
      BY <1>3, <2>1, DueNat
    <3>2. fired'[u] + Cardinality(Due(queue', u)) = fired[u] + Cardinality(Due(queue, u))
      <4>1. \A i, j \in Nat : (i + 1) + j = i + (j + 1)
        OBVIOUS
      <4> QED BY <2>3, <2>4, <3>1, <4>1
    <3>3. TimerOK(u)
      BY DEF ChainInv
    <3>4. PacedTimer(u)'
      BY <1>1, <3>2, <3>3 DEF TimerOK, PacedTimer
    <3>5. fired'[u] > 0
      BY <2>3, <2>4
    <3> QED BY <2>2, <3>4, <3>5 DEF TimerOK, AliveTimer
  <2>7. ASSUME NEW t \in 1 .. timerId, t # u PROVE TimerOK(t)'
    <3>1. TimerOK(t) /\ fired'[t] = fired[t]
      BY <2>4, <2>7 DEF ChainInv
    <3>2. h # Fires(t)
      BY <1>4, <2>1, <2>7
    <3>3. /\ Cardinality(Due(queue', t)) = Cardinality(Due(queue, t))
          /\ Due(queue, t) # {} => Due(queue', t) # {}
      BY <1>3, <3>2
    <3>4. cur' # t /\ cur # t
      BY <1>1, <2>2, <2>7
    <3> QED BY <1>1, <3>1, <3>3, <3>4, SameTimer
  <2> QED BY <1>1, <2>5, <2>6, <2>7 DEF ChainInv
<1> QED BY <1>5, <1>6

\* The return of a function starts its timer, or ends the series of one that does not repeat.
LEMMA ReturnChain ==
  ASSUME ChainInv, NEW is_continue \in BOOLEAN, FunctionReturns(is_continue)
  PROVE  ChainInv'
<1>1. /\ cur # 0 /\ cur' = 0 /\ is_continue \in Returns(info[cur].setter)
      /\ UNCHANGED <<now, timerId, timers, born, starts, fired>>
  BY DEF FunctionReturns, history
<1>2. ChainTypes /\ now \in Nat /\ timerId \in Nat
  BY DEF ChainInv, ChainTypes
<1>3. PICK c \in 1 .. timerId : c = cur
  BY <1>1, <1>2 DEF ChainTypes
<1>4. TimerOK(c) /\ fired[c] > 0
  BY <1>3 DEF ChainInv, TimerOK
<1>5. CASE Continues(is_continue)
  <2>1. StartTimer(c)
    BY <1>3, <1>5 DEF FunctionReturns
  <2>2. fired[c] + Cardinality(Due(queue, c)) > 0
    BY <1>2, <1>4, TimerTypes
  <2>3. Fixed(info[c].setter) \/ starts[c] >= 1
    BY <1>4, <2>2 DEF TimerOK, PacedTimer, Paced
  <2>4. starts[c] \in Nat
    BY <1>2, TimerTypes
  <2>5. /\ info' \in Seq(Info) /\ Len(info') = timerId
        /\ wait' \in Seq(Nat \union {None}) /\ Len(wait') = timerId
        /\ QueueOK(queue', timerId)
        /\ \A i : Due(queue', i) = Due(queue, i)
        /\ \A i \in 1 .. timerId : i # c => info'[i] = info[i] /\ wait'[i] = wait[i]
        /\ wait'[c] # None
        /\ info'[c].setter = info[c].setter /\ info'[c].milliseconds = info[c].milliseconds
        /\ Paced(Fixed(info[c].setter), info[c].milliseconds, info'[c].next_time, born[c],
                 starts[c], fired[c] + Cardinality(Due(queue, c)), wait'[c], now)
    BY <1>4, <2>1, <2>3, <2>4, StartChain DEF TimerOK, PacedTimer
  <2>6. ChainTypes'
    BY <1>1, <1>2, <2>5 DEF ChainTypes
  <2>7. TimerOK(c)'
    <3>1. PacedTimer(c)'
      BY <1>1, <2>5 DEF PacedTimer
    <3> QED BY <1>1, <1>3, <2>5, <3>1 DEF TimerOK, AliveTimer
  <2>8. ASSUME NEW i \in 1 .. timerId, i # c PROVE TimerOK(i)'
    <3>1. TimerOK(i)
      BY DEF ChainInv
    <3>2. info'[i] = info[i] /\ wait'[i] = wait[i] /\ Due(queue', i) = Due(queue, i)
      BY <2>5, <2>8
    <3>3. cur' # i /\ cur # i
      BY <1>1, <1>3, <2>8
    <3> QED BY <1>1, <3>1, <3>2, <3>3, SameTimer
  <2> QED BY <1>1, <2>6, <2>7, <2>8 DEF ChainInv
<1>6. CASE ~Continues(is_continue)
  <2>1. UNCHANGED <<queue, info, wait>>
    BY <1>6 DEF FunctionReturns
  <2>2. ChainTypes'
    BY <1>1, <1>2, <2>1 DEF ChainTypes
  <2>3. TimerOK(c)'
    <3>1. is_continue = FALSE /\ ~(info[c].next_time > 0)
      BY <1>3, <1>6 DEF Continues
    <3>2. Returns(info[c].setter) # {TRUE}
      BY <1>1, <1>3, <3>1
    <3>3. ~Fixed(info[c].setter)
      BY <1>4, <3>1 DEF TimerOK, PacedTimer, Paced
    <3>4. PacedTimer(c)'
      BY <1>1, <1>4, <2>1 DEF TimerOK, PacedTimer
    <3> QED BY <1>1, <1>3, <2>1, <3>2, <3>3, <3>4 DEF TimerOK, AliveTimer
  <2>4. ASSUME NEW i \in 1 .. timerId, i # c PROVE TimerOK(i)'
    <3>1. TimerOK(i)
      BY DEF ChainInv
    <3>2. cur' # i /\ cur # i
      BY <1>1, <1>3, <2>4
    <3> QED BY <1>1, <2>1, <3>1, <3>2, SameTimer
  <2> QED BY <1>1, <2>2, <2>3, <2>4 DEF ChainInv
<1> QED BY <1>5, <1>6

\* Every step keeps the invariant.
LEMMA NextChain ==
  ASSUME ChainInv, [Next]_vars
  PROVE  ChainInv'
<1>0. timers \subseteq 1 .. timerId
  BY DEF ChainInv, ChainTypes
<1>1. ASSUME NEW setter \in Setters, NEW ms \in Periods, SetTimer(setter, ms)
      PROVE  ChainInv'
  BY <1>1, SetTimerChain
<1>2. ASSUME NEW t \in 1 .. timerId, Start(t) PROVE ChainInv'
  BY <1>0, <1>2, BeginChain DEF Start
<1>3. ASSUME NEW t \in 1 .. timerId, Drop(t) PROVE ChainInv'
  <2>1. UNCHANGED <<now, timerId, timers, cur, born, fired>>
    BY <1>3 DEF Drop
  <2>2. CASE Begin(t)
    BY <1>0, <2>1, <2>2, BeginChain
  <2>3. CASE UNCHANGED <<queue, info, wait, starts>>
    <3>1. ChainTypes'
      BY <2>1, <2>3 DEF ChainInv, ChainTypes
    <3>2. ASSUME NEW i \in 1 .. timerId PROVE TimerOK(i)'
      BY <2>1, <2>3, SameTimer DEF ChainInv
    <3> QED BY <2>1, <3>1, <3>2 DEF ChainInv
  <2> QED BY <1>3, <2>2, <2>3 DEF Drop
<1>4. ASSUME NEW t \in 1 .. timerId, Stop(t) \/ Close(t) PROVE ChainInv'
  <2>1. /\ StopTimers({t}) /\ timers' \subseteq 1 .. timerId
        /\ UNCHANGED <<now, timerId, cur, born, starts, fired>>
    BY <1>0, <1>4 DEF Stop, Close
  <2> QED BY <2>1, StopChain
<1>5. CASE StopAllTimer
  BY <1>0, <1>5, StopChain DEF StopAllTimer
<1>6. CASE Tick
  BY <1>6, TickChain
<1>7. ASSUME NEW t \in 1 .. timerId, Expire(t) PROVE ChainInv'
  BY <1>7, ExpireChain
<1>8. CASE TimerHandler
  BY <1>8, HandlerChain
<1>9. ASSUME NEW is_continue \in BOOLEAN, FunctionReturns(is_continue) PROVE ChainInv'
  BY <1>9, ReturnChain
<1>10. CASE UNCHANGED vars
  <2>1. /\ UNCHANGED <<now, timerId, timers, info, wait, queue, cur>>
        /\ UNCHANGED <<born, starts, fired>>
    BY <1>10 DEF vars, history
  <2>2. ChainTypes'
    BY <2>1 DEF ChainInv, ChainTypes
  <2>3. ASSUME NEW i \in 1 .. timerId PROVE TimerOK(i)'
    BY <2>1, SameTimer DEF ChainInv
  <2> QED BY <2>1, <2>2, <2>3 DEF ChainInv
<1> QED BY <1>1, <1>2, <1>3, <1>4, <1>5, <1>6, <1>7, <1>8, <1>9, <1>10 DEF Next, User

-----------------------------------------------------------------------------
\* However often a timer is started, stopped and started again while it waits, while
\* its handler is queued or while its function runs, it is not called more often than
\* its period allows and once more for each start.
THEOREM RateHolds == Spec => []Rate
<1>1. ChainInv => Rate
  <2> SUFFICES ASSUME ChainInv, NEW t \in 1 .. timerId, fired[t] > 0
               PROVE  IF Fixed(info[t].setter)
                      THEN (fired[t] + 1) * info[t].milliseconds <= now - born[t]
                      ELSE fired[t] * info[t].milliseconds
                             <= now - born[t] + (starts[t] - 1) * info[t].milliseconds
    BY DEF Rate
  <2> DEFINE ms == info[t].milliseconds
             d == Cardinality(Due(queue, t))
             f == fired[t]
             b == born[t]
             s == starts[t]
  <2>1. PacedTimer(t) /\ ChainTypes /\ now \in Nat
    BY DEF ChainInv, TimerOK, ChainTypes
  <2>2. ms \in Nat \ {0} /\ d \in Nat /\ f \in Nat /\ b \in Nat /\ s \in Nat
    BY <2>1, TimerTypes
  <2>3. CASE Fixed(info[t].setter)
    <3>1. (f + d + 1) * ms <= now - b
      BY <2>1, <2>2, <2>3 DEF PacedTimer, Paced
    <3> HIDE DEF ms, d, f, b, s
    <3>2. (f + d + 1) * ms = (f + 1) * ms + d * ms /\ d * ms \in Nat /\ (f + 1) * ms \in Int
      BY <2>2
    <3>3. (f + 1) * ms <= now - b
      BY <2>1, <2>2, <3>1, <3>2
    <3> QED BY <2>3, <3>3 DEF ms, f, b
  <2>4. CASE ~Fixed(info[t].setter)
    <3>1. (f + d) * ms <= now - b + (s - 1) * ms
      BY <2>1, <2>2, <2>4 DEF PacedTimer, Paced
    <3> HIDE DEF ms, d, f, b, s
    <3>2. (f + d) * ms = f * ms + d * ms /\ d * ms \in Nat /\ f * ms \in Int /\ (s - 1) * ms \in Int
      BY <2>2
    <3>3. f * ms <= now - b + (s - 1) * ms
      BY <2>1, <2>2, <3>1, <3>2
    <3> QED BY <2>4, <3>3 DEF ms, f, b, s
  <2> QED BY <2>3, <2>4
<1>2. ChainInv /\ [Next]_vars => ChainInv'
  BY NextChain
<1> QED BY <1>1, <1>2, InitChain, PTL DEF Spec

\* The series of calls of a repeating timer that was started and not stopped is never
\* lost: the timer waits, its handler is queued, or its function runs.
THEOREM ChainAliveHolds == Spec => []ChainAlive
<1>1. ChainInv => ChainAlive
  <2>1. \A t : Fires(t) = [id |-> t, ok |-> TRUE]
    BY DEF Fires
  <2>2. ASSUME ChainInv, NEW t \in 1 .. timerId,
               Returns(info[t].setter) = {TRUE} \/ Fixed(info[t].setter),
               starts[t] > 0, info[t].status = "ok"
        PROVE  Armed(t)
    <3>1. wait[t] # None \/ cur = t \/ Due(queue, t) # {}
      BY <2>2 DEF ChainInv, TimerOK, AliveTimer
    <3> QED BY <2>1, <3>1 DEF Armed, Due
  <2> QED BY <2>2 DEF ChainAlive
<1>2. ChainInv /\ [Next]_vars => ChainInv'
  BY NextChain
<1> QED BY <1>1, <1>2, InitChain, PTL DEF Spec

=============================================================================
