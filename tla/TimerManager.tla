------------------------------ MODULE TimerManager ------------------------------
(***************************************************************************)
(* timer_manager, timer_proxy and schedule_timer (network/timer).          *)
(*                                                                         *)
(* One thread runs the io_service.  A start sets the expiry of the asio    *)
(* timer, which ends an earlier wait with operation_aborted, and waits     *)
(* again.  A wait whose time has come ends with success; its handler is    *)
(* then in the queue of the io_service, out of reach of cancel.  The       *)
(* function of a timer may call everything: while it runs (`cur') no other *)
(* handler does.                                                           *)
(***************************************************************************)
EXTENDS Integers, Sequences, FiniteSets, SequencesExt

CONSTANTS
    MaxTimers,  \* bound: timers created
    Setters,    \* the functions timers are set with, see Returns
    Periods,    \* milliseconds
    MaxTime,    \* bound: the clock
    MaxStarts   \* bound: calls of start for one timer

ASSUME TimerAssumption ==
    /\ MaxTimers \in Nat /\ MaxTime \in Nat /\ MaxStarts \in Nat
    /\ Setters \subseteq {"timer", "once", "auto", "fix", "fix_bool"}
    /\ Periods \subseteq Nat \ {0}

VARIABLES
    now,        \* date_time::now, in milliseconds
    timerId,    \* timer_id_
    timers,     \* the keys of timers_
    info,       \* what timer_info holds: lives on in handlers when it is not in timers_
    wait,       \* the time the pending async_wait of a timer ends, None without one
    queue,      \* the handlers of waits that have ended, with the result of the wait
    cur,        \* the timer whose function runs, 0 for none
    proxy,      \* timer_proxy: "fresh" (need_start_), "held", or "gone"
    born,       \* history: when the timer was created
    starts,     \* history: starts of a timer other than by its handler
    fired,      \* history: calls of its function by timer_handler
    stopped     \* history: stopped since its last start, and not by its own function

history == <<born, starts, fired, stopped>>
vars == <<now, timerId, timers, info, wait, queue, cur, proxy, history>>

None == -1

\* What the function of a timer may return: "timer" and "fix_bool" stand for set_timer
\* and set_fix_timer with a function that returns a bool, "fix" for the other one.
Returns(setter) ==
    CASE setter = "once" -> {FALSE}
      [] setter \in {"auto", "fix"} -> {TRUE}
      [] OTHER -> BOOLEAN
Fixed(setter) == setter \in {"fix", "fix_bool"}

TypeOK ==
    /\ now \in 0 .. MaxTime
    /\ timerId \in 0 .. MaxTimers /\ timers \subseteq 1 .. timerId
    /\ info \in [1 .. timerId -> [setter : Setters, status : {"ok", "canceled"},
                                  milliseconds : Periods, next_time : Nat]]
    /\ wait \in [1 .. timerId -> Nat \union {None}]
    /\ queue \in Seq([id : 1 .. timerId, ok : BOOLEAN])
    /\ cur \in 0 .. timerId
    /\ proxy \in [1 .. timerId -> {"fresh", "held", "gone"}]
    /\ born \in [1 .. timerId -> Nat]
    /\ starts \in [1 .. timerId -> Nat] /\ fired \in [1 .. timerId -> Nat]
    /\ stopped \in [1 .. timerId -> BOOLEAN]

Init ==
    /\ now = 0 /\ timerId = 0 /\ timers = {} /\ queue = <<>> /\ cur = 0
    /\ info = <<>> /\ wait = <<>> /\ proxy = <<>>
    /\ born = <<>> /\ starts = <<>> /\ fired = <<>> /\ stopped = <<>>

-----------------------------------------------------------------------------
\* Mutant: the wait that is cut off ends like any other.
EndedWaits(T) == [i \in 1 .. Cardinality(T) |-> [id |-> SetToSortSeq(T, <)[i], ok |-> TRUE]]

\* The waits of the timers T that are cut off: their handlers get operation_aborted.
Aborted(T) == [i \in 1 .. Cardinality(T) |-> [id |-> SetToSortSeq(T, <)[i], ok |-> FALSE]]

Waiting(T) == {t \in T : wait[t] # None}

\* calc_next_time.
CalcNextTime(t) ==
    LET n == info[t].next_time + info[t].milliseconds IN IF n < now THEN now ELSE n

\* start_timer(ti_ptr): async_wait_at_time or async_wait.
StartTimer(t) ==
    /\ queue' = queue \o Aborted(Waiting({t}))
    /\ IF info[t].next_time # 0
       THEN /\ info' = [info EXCEPT ![t].status = "ok", ![t].next_time = CalcNextTime(t)]
            /\ wait' = [wait EXCEPT ![t] = CalcNextTime(t)]
       ELSE /\ info' = [info EXCEPT ![t].status = "ok"]
            /\ wait' = [wait EXCEPT ![t] = now + info[t].milliseconds]

\* stop_timer(ti_ptr), of each of the timers T.
StopTimers(T) ==
    /\ queue' = queue \o Aborted(Waiting(T))
    /\ wait' = [t \in DOMAIN wait |-> IF t \in T THEN None ELSE wait[t]]
    /\ info' = [t \in DOMAIN info |->
                   IF t \in T THEN [info[t] EXCEPT !.status = "canceled"] ELSE info[t]]
    /\ stopped' = [t \in DOMAIN stopped |-> IF t \in T THEN t # cur ELSE stopped[t]]

-----------------------------------------------------------------------------
(* What the user calls *)

\* set_timer, set_once_timer, set_auto_timer and set_fix_timer.
SetTimer(setter, ms) ==
    /\ timerId < MaxTimers
    /\ timerId' = timerId + 1
    /\ timers' = timers \union {timerId + 1}
    /\ info' = Append(info, [setter |-> setter, status |-> "ok", milliseconds |-> ms,
                             next_time |-> IF Fixed(setter) THEN now + ms ELSE 0])
    /\ wait' = Append(wait, None) /\ proxy' = Append(proxy, "fresh")
    /\ born' = Append(born, now) /\ starts' = Append(starts, 0)
    /\ fired' = Append(fired, 0) /\ stopped' = Append(stopped, FALSE)
    /\ UNCHANGED <<now, queue, cur>>

\* A start by the user.
Begin(t) ==
    /\ starts[t] < MaxStarts
    /\ StartTimer(t)
    /\ starts' = [starts EXCEPT ![t] = @ + 1]
    /\ stopped' = [stopped EXCEPT ![t] = FALSE]

\* timer_proxy::start.  The function that it may call first makes calls of its own.
Start(t) ==
    /\ proxy[t] # "gone" /\ t \in timers
    /\ Begin(t)
    /\ proxy' = [proxy EXCEPT ![t] = "held"]
    /\ UNCHANGED <<now, timerId, timers, cur, born, fired>>

\* ~timer_proxy: auto_start_timer.
Drop(t) ==
    /\ proxy[t] # "gone"
    /\ IF proxy[t] = "fresh" /\ t \in timers /\ info[t].status # "canceled"
       THEN Begin(t)
       ELSE UNCHANGED <<queue, info, wait, starts, stopped>>
    /\ proxy' = [proxy EXCEPT ![t] = "gone"]
    /\ UNCHANGED <<now, timerId, timers, cur, born, fired>>

\* timer_proxy::stop.
Stop(t) ==
    /\ proxy[t] # "gone" /\ t \in timers
    /\ StopTimers({t})
    /\ proxy' = [proxy EXCEPT ![t] = "held"]
    /\ UNCHANGED <<now, timerId, timers, cur, born, starts, fired>>

\* timer_proxy::close.
Close(t) ==
    /\ proxy[t] # "gone" /\ t \in timers
    /\ StopTimers({t})
    /\ timers' = timers \ {t}
    /\ proxy' = [proxy EXCEPT ![t] = "gone"]
    /\ UNCHANGED <<now, timerId, cur, born, starts, fired>>

StopAllTimer ==
    /\ StopTimers(timers)
    /\ UNCHANGED <<now, timerId, timers, cur, proxy, born, starts, fired>>

-----------------------------------------------------------------------------
(* The io_service *)

Tick ==
    /\ now < MaxTime
    /\ now' = now + 1
    /\ UNCHANGED <<timerId, timers, info, wait, queue, cur, proxy, history>>

\* The thread, between two handlers, finds that the time of a wait has come.
Expire(t) ==
    /\ cur = 0
    /\ wait[t] # None /\ wait[t] <= now
    /\ wait' = [wait EXCEPT ![t] = None]
    /\ queue' = Append(queue, [id |-> t, ok |-> TRUE])
    /\ UNCHANGED <<now, timerId, timers, info, cur, proxy, history>>

\* Mutant: the status of the timer is not looked at.
MayFireAnyway(h) == h.ok

MayFire(h) == h.ok /\ info[h.id].status = "ok"

\* timer_handler, up to the call of the function.
TimerHandler ==
    /\ cur = 0 /\ queue # <<>>
    /\ queue' = Tail(queue)
    /\ IF MayFire(Head(queue))
       THEN /\ cur' = Head(queue).id
            /\ fired' = [fired EXCEPT ![cur'] = @ + 1]
       ELSE UNCHANGED <<cur, fired>>
    /\ UNCHANGED <<now, timerId, timers, info, wait, proxy, born, starts, stopped>>

\* Mutant: only the result of the function counts, for a timer with a fixed time too.
ContinuesIfTold(is_continue) == is_continue

Continues(is_continue) == is_continue \/ info[cur].next_time > 0

\* The function returns: the rest of timer_handler, which does not look at the status.
FunctionReturns(is_continue) ==
    /\ cur # 0
    /\ is_continue \in Returns(info[cur].setter)
    /\ IF Continues(is_continue) THEN StartTimer(cur) ELSE UNCHANGED <<queue, info, wait>>
    /\ cur' = 0
    /\ UNCHANGED <<now, timerId, timers, proxy, history>>

-----------------------------------------------------------------------------
User ==
    \/ \E setter \in Setters, ms \in Periods : SetTimer(setter, ms)
    \/ \E t \in 1 .. timerId : Start(t) \/ Drop(t) \/ Stop(t) \/ Close(t)
    \/ StopAllTimer

Next ==
    \/ User
    \/ Tick
    \/ \E t \in 1 .. timerId : Expire(t)
    \/ TimerHandler
    \/ \E is_continue \in BOOLEAN : FunctionReturns(is_continue)

Spec == Init /\ [][Next]_vars

-----------------------------------------------------------------------------
(* Properties *)

\* A timer is not called more often than its period allows and once more for each
\* start by the user: the waits that starts, stops and handlers cut off, in whatever
\* order, never become a second series of calls.  A timer with a fixed time is first
\* called two periods after it was set, set_fix_timer and start_timer each adding one.
Rate ==
    \A t \in 1 .. timerId : fired[t] > 0 =>
        LET ms == info[t].milliseconds IN
        IF Fixed(info[t].setter)
        THEN (fired[t] + 1) * ms <= now - born[t]
        ELSE fired[t] * ms <= now - born[t] + (starts[t] - 1) * ms

\* A timer that was stopped is not called before it is started again, the handler that
\* was in the queue then included.  (When its own function stops it, the return of the
\* function may start it again.)
StopHolds == [][\A t \in 1 .. timerId : cur # t /\ cur' = t => ~stopped[t]]_vars

\* A repeating timer that was started and not stopped will be called: it waits, or its
\* handler is in the queue, or its function runs.
Armed(t) ==
    wait[t] # None \/ cur = t \/ \E i \in DOMAIN queue : queue[i] = [id |-> t, ok |-> TRUE]
ChainAlive ==
    \A t \in 1 .. timerId :
        /\ Returns(info[t].setter) = {TRUE} \/ Fixed(info[t].setter)
        /\ starts[t] > 0 /\ info[t].status = "ok"
        => Armed(t)

=============================================================================
