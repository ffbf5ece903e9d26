----------------------------- MODULE MsgDispatcher ------------------------------
(***************************************************************************)
(* Events: msg_dispatcher and the receivers that subscribe to it           *)
(* (network/msgbus/event.hpp).  The signal of an event at a dispatcher is  *)
(* the set of its connections, which an emission calls in the order they   *)
(* were made; how it walks their ring is the module MsgSignal.             *)
(*                                                                         *)
(* Emissions are frames of `stack'.  A callback may do what other code     *)
(* does: subscribe, unsubscribe, emit, destroy receivers and dispatchers.  *)
(***************************************************************************)
EXTENDS Naturals, Sequences

CONSTANTS
    Dispatchers,
    Receivers,
    Events,
    MaxConnections,  \* bound: connections made
    MaxDepth         \* bound: emissions within emissions

VARIABLES
    live,         \* the dispatchers that exist
    handlers,     \* the callbacks connected to the signals of handlers_
    made,         \* connections made so far, which are also their ids
    connections,  \* connections_ of each receiver, as a set of [event, at, id]
    destroyed,    \* the receivers that have been destroyed
    stack,        \* the emissions that are going on, the innermost last
    received,     \* the callback called last, unless a receiver has gone since
    untracked     \* history: the connections that got no entry in connections_

vars == <<live, handlers, made, connections, destroyed, stack, received, untracked>>

Handler == [event : Events, at : Dispatchers, receiver : Receivers, id : Nat]
Entry == [event : Events, at : Dispatchers, id : Nat]

\* last: the id of the callback the emission is at, 0 before the first.
Frame == [event : Events, at : Dispatchers, last : Nat]

TypeOK ==
    /\ live \subseteq Dispatchers
    /\ handlers \subseteq Handler
    /\ made \in Nat
    /\ connections \in [Receivers -> SUBSET Entry]
    /\ destroyed \subseteq Receivers
    /\ stack \in Seq(Frame)
    /\ received \subseteq Handler
    /\ untracked \subseteq Nat

Init ==
    /\ live = Dispatchers
    /\ handlers = {} /\ made = 0
    /\ connections = [r \in Receivers |-> {}]
    /\ destroyed = {} /\ stack = <<>> /\ received = {} /\ untracked = {}

-----------------------------------------------------------------------------
Top == stack[Len(stack)]

\* User code runs between emissions and in callbacks.
UserCode == stack # <<>> => Top.last # 0

\* The signals that exist: those of the dispatchers in D, and those that an emission
\* of s holds by its own shared pointer.  A weak pointer to another has expired.
Exists(D, s, d, e) ==
    \/ d \in D
    \/ \E k \in DOMAIN s : s[k].at = d /\ s[k].event = e

\* The callbacks go with their signals.
Kept(D, s) == {h \in handlers : Exists(D, s, h.at, h.event)}

\* What an entry holds of a connection: the key, the weak pointer and the id.
EntryOf(h) == [event |-> h.event, at |-> h.at, id |-> h.id]

Subscribed(r, e) == \E c \in connections[r] : c.event = e

\* disconnect, if the signal still exists.
Without(ids) == {h \in handlers : h.id \notin ids}

Connection(r, d, e) == [event |-> e, at |-> d, receiver |-> r, id |-> made + 1]

\* connections_ is keyed by the event's family alone, and insert keeps the entry
\* that is there: one of another dispatcher, or of a signal that is gone, too.
Inserted(r, d, e) ==
    IF Subscribed(r, e) THEN connections[r]
    ELSE connections[r] \union {EntryOf(Connection(r, d, e))}

Subscribe(r, d, e) ==
    /\ UserCode
    /\ d \in live /\ r \notin destroyed
    /\ made < MaxConnections
    /\ made' = made + 1
    /\ handlers' = handlers \union {Connection(r, d, e)}
    /\ connections' = [connections EXCEPT ![r] = Inserted(r, d, e)]
    /\ untracked' = IF Subscribed(r, e) THEN untracked \union {made + 1} ELSE untracked
    /\ UNCHANGED <<live, destroyed, stack, received>>

EntryErased(r, e) == {c \in connections[r] : c.event # e}

\* The receiver must have subscribed before; which dispatcher is asked is all the same.
Unsubscribe(r, e) ==
    /\ UserCode
    /\ live # {} /\ r \notin destroyed
    /\ Subscribed(r, e)
    /\ handlers' = Without({c.id : c \in connections[r] \ EntryErased(r, e)})
    /\ connections' = [connections EXCEPT ![r] = EntryErased(r, e)]
    /\ UNCHANGED <<live, made, destroyed, stack, received, untracked>>

UnsubscribeAll(r) ==
    /\ UserCode
    /\ live # {} /\ r \notin destroyed
    /\ connections[r] # {}
    /\ handlers' = Without({c.id : c \in connections[r]})
    /\ connections' = [connections EXCEPT ![r] = {}]
    /\ UNCHANGED <<live, made, destroyed, stack, received, untracked>>

\* ~BaseReceiver.
DestroyReceiver(r) ==
    /\ UserCode
    /\ r \notin destroyed
    /\ handlers' = Without({c.id : c \in connections[r]})
    /\ destroyed' = destroyed \union {r}
    /\ connections' = [connections EXCEPT ![r] = {}]
    /\ received' = {}
    /\ UNCHANGED <<live, made, stack, untracked>>

\* The signals go with the dispatcher, but for those of emissions that are going on.
DestroyDispatcher(d) ==
    /\ UserCode
    /\ d \in live
    /\ live' = live \ {d}
    /\ handlers' = Kept(live', stack)
    /\ UNCHANGED <<made, connections, destroyed, stack, received, untracked>>

-----------------------------------------------------------------------------
(* emit *)

EmitStart(d, e) ==
    /\ UserCode
    /\ d \in live
    /\ Len(stack) < MaxDepth
    /\ stack' = Append(stack, [event |-> e, at |-> d, last |-> 0])
    /\ UNCHANGED <<live, handlers, made, connections, destroyed, received, untracked>>

\* The callbacks an emission has not come to; those connected meanwhile are among them.
Ahead(f) == {h \in handlers : h.at = f.at /\ h.event = f.event /\ h.id > f.last}

EmitCall(h) ==
    /\ stack # <<>>
    /\ h \in Ahead(Top)
    /\ \A g \in Ahead(Top) : h.id <= g.id
    /\ stack' = [stack EXCEPT ![Len(stack)].last = h.id]
    /\ received' = {h}
    /\ UNCHANGED <<live, handlers, made, connections, destroyed, untracked>>

Popped == SubSeq(stack, 1, Len(stack) - 1)

\* At the end of the ring.  A callback that was disconnected while it ran leads to
\* what came after it then, which may be the end although more have been connected.
EmitEnd ==
    /\ stack # <<>>
    /\ \/ Ahead(Top) = {}
       \/ Top.last # 0 /\ \A h \in handlers : h.id # Top.last
    /\ stack' = Popped
    /\ handlers' = Kept(live, Popped)
    /\ UNCHANGED <<live, made, connections, destroyed, received, untracked>>

-----------------------------------------------------------------------------
Next ==
    \/ \E r \in Receivers, d \in Dispatchers, e \in Events : Subscribe(r, d, e)
    \/ \E r \in Receivers, e \in Events : Unsubscribe(r, e)
    \/ \E r \in Receivers : UnsubscribeAll(r) \/ DestroyReceiver(r)
    \/ \E d \in Dispatchers : DestroyDispatcher(d)
    \/ \E d \in Dispatchers, e \in Events : EmitStart(d, e)
    \/ \E h \in handlers : EmitCall(h)
    \/ EmitEnd

Spec == Init /\ [][Next]_vars

-----------------------------------------------------------------------------
(* Properties *)

\* "Subscriptions are automatically removed when receivers are destroyed..": an
\* emission never calls a receiver that is gone.
NoDeadReceiver == \A h \in received : h.receiver \notin destroyed

\* What connections_ of a receiver names in signals that exist are its callbacks
\* there, each once, but for those that subscribe() made while there was an entry
\* for the event: these, and no others, are connected without an entry.
EntriesExact ==
    \A r \in Receivers \ destroyed :
        {c \in connections[r] : Exists(live, stack, c.at, c.event)}
          = {EntryOf(h) : h \in {g \in handlers : g.receiver = r /\ g.id \notin untracked}}

\* A callback without an entry is disconnected by nothing: it is there as long as
\* its signal is, whether its receiver unsubscribes or is destroyed.
UntrackedStay ==
    [][\A h \in handlers :
          h.id \in untracked /\ Exists(live', stack', h.at, h.event)
            => h \in handlers']_vars

=============================================================================
