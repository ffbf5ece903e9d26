-------------------------- MODULE MsgDispatcherProofs ---------------------------
(***************************************************************************)
(* Proofs about msg_dispatcher, for all sets of dispatchers, receivers and *)
(* events, any number of connections and any depth of emissions.           *)
(***************************************************************************)
EXTENDS MsgDispatcher, TLAPS

(***************************************************************************)
(* The inductive invariant.  The ids of callbacks are their own, entries   *)
(* of connections_ included, so that disconnecting what the map of one     *)
(* receiver names cannot touch another's; and the entries and the          *)
(* callbacks answer to each other, in the form of members.                 *)
(***************************************************************************)
IdsOwn ==
    /\ \A h \in handlers : h.id <= made
    /\ \A g, h \in handlers : g.id = h.id => g = h
    /\ \A i \in untracked : i <= made
    /\ \A r \in Receivers : \A c \in connections[r] : c.id <= made /\ c.id \notin untracked

Homes == \A h \in handlers : Exists(live, stack, h.at, h.event)

EntriesName ==
    \A r \in Receivers : \A c \in connections[r] : \A h \in handlers :
        c.id = h.id => h.receiver = r /\ c = EntryOf(h)

EntriesMeet ==
    \A r \in Receivers \ destroyed : \A c \in connections[r] :
        Exists(live, stack, c.at, c.event) => \E h \in handlers : h.id = c.id

CallbacksEntered ==
    \A h \in handlers :
        h.receiver \notin destroyed /\ h.id \notin untracked
          => EntryOf(h) \in connections[h.receiver]

DispatcherInv ==
    TypeOK /\ IdsOwn /\ Homes /\ EntriesName /\ EntriesMeet /\ CallbacksEntered

-----------------------------------------------------------------------------
\* A dispatcher begins without callbacks and entries.
LEMMA InitInv == Init => DispatcherInv
<1> SUFFICES ASSUME Init PROVE DispatcherInv
  OBVIOUS
<1>1. TypeOK
  BY DEF Init, TypeOK
<1> QED BY <1>1 DEF Init, DispatcherInv, IdsOwn, Homes, EntriesName, EntriesMeet,
                    CallbacksEntered

\* subscribe() keeps the invariant, whether it enters the connection or not.
LEMMA SubscribeInv ==
  ASSUME DispatcherInv, NEW r \in Receivers, NEW d \in Dispatchers, NEW e \in Events,
         Subscribe(r, d, e)
  PROVE  DispatcherInv'
<1> PICK h0 : h0 = Connection(r, d, e)
  OBVIOUS
<1> PICK n : n = made + 1
  OBVIOUS
<1>1. /\ made \in Nat /\ n \in Nat /\ made < n /\ made' = n
      /\ handlers' = handlers \union {h0} /\ UNCHANGED <<live, destroyed, stack, received>>
      /\ d \in live /\ r \notin destroyed
      /\ connections' = [connections EXCEPT ![r] = Inserted(r, d, e)]
      /\ untracked' = IF Subscribed(r, e) THEN untracked \union {n} ELSE untracked
  BY DEF DispatcherInv, TypeOK, Subscribe
<1>2. /\ h0 \in Handler /\ h0.id = n /\ h0.receiver = r /\ h0.at = d /\ h0.event = e
      /\ EntryOf(h0) \in Entry /\ EntryOf(h0).id = n
      /\ EntryOf(h0).at = d /\ EntryOf(h0).event = e
  BY <1>1 DEF Connection, Handler, Entry, EntryOf
<1> PICK c0 : c0 = EntryOf(h0)
  OBVIOUS
<1>3. /\ \A q \in Receivers : q # r => connections'[q] = connections[q]
      /\ Subscribed(r, e) => connections'[r] = connections[r]
      /\ ~Subscribed(r, e) => connections'[r] = connections[r] \union {c0}
      /\ connections \in [Receivers -> SUBSET Entry]
  BY <1>1 DEF Inserted, DispatcherInv, TypeOK
<1>4. TypeOK'
  <2>1. connections' \in [Receivers -> SUBSET Entry]
    <3>1. Inserted(r, d, e) \subseteq Entry
      BY <1>2, <1>3 DEF Inserted
    <3> QED BY <1>1, <1>3, <3>1
  <2>2. untracked' \subseteq Nat /\ handlers' \subseteq Handler
    BY <1>1, <1>2 DEF DispatcherInv, TypeOK
  <2> QED BY <1>1, <2>1, <2>2 DEF DispatcherInv, TypeOK
<1>5. /\ \A h \in handlers : h.id \in Nat /\ h.id <= made /\ h.id # n
      /\ \A i \in untracked : i \in Nat /\ i <= made /\ i # n
      /\ \A q \in Receivers : \A c \in connections[q] :
            c.id \in Nat /\ c.id <= made /\ c.id # n /\ c.id \notin untracked
  BY <1>1 DEF DispatcherInv, TypeOK, IdsOwn, Handler, Entry
<1>6. \A q \in Receivers : \A c \in connections'[q] :
         \/ c \in connections[q]
         \/ q = r /\ c = c0 /\ ~Subscribed(r, e)
  BY <1>3
<1>7. IdsOwn'
  <2>1. \A h \in handlers' : h.id <= made'
    BY <1>1, <1>2, <1>5
  <2>2. \A g, h \in handlers' : g.id = h.id => g = h
    BY <1>1, <1>2, <1>5 DEF DispatcherInv, IdsOwn
  <2>3. \A i \in untracked' : i <= made'
    BY <1>1, <1>5
  <2>4. ASSUME NEW q \in Receivers, NEW c \in connections'[q]
        PROVE  c.id <= made' /\ c.id \notin untracked'
    BY <1>1, <1>2, <1>5, <1>6
  <2> QED BY <2>1, <2>2, <2>3, <2>4 DEF IdsOwn
<1>8. Homes'
  BY <1>1, <1>2 DEF DispatcherInv, Homes, Exists
<1>9. EntriesName'
  <2> SUFFICES ASSUME NEW q \in Receivers, NEW c \in connections'[q],
                      NEW h \in handlers', c.id = h.id
               PROVE  h.receiver = q /\ c = EntryOf(h)
    BY DEF EntriesName
  <2>1. CASE h = h0
    BY <1>2, <1>5, <1>6, <2>1
  <2>2. CASE h \in handlers
    BY <1>2, <1>5, <1>6, <2>2 DEF DispatcherInv, EntriesName
  <2> QED BY <1>1, <2>1, <2>2
<1>10. EntriesMeet'
  <2> SUFFICES ASSUME NEW q \in Receivers \ destroyed, NEW c \in connections'[q],
                      Exists(live, stack, c.at, c.event)
               PROVE  \E h \in handlers' : h.id = c.id
    BY <1>1 DEF EntriesMeet
  <2> QED BY <1>1, <1>2, <1>6 DEF DispatcherInv, EntriesMeet
<1>11. CallbacksEntered'
  <2> SUFFICES ASSUME NEW h \in handlers', h.receiver \notin destroyed, h.id \notin untracked'
               PROVE  EntryOf(h) \in connections'[h.receiver]
    BY <1>1 DEF CallbacksEntered
  <2>1. CASE h = h0
    BY <1>1, <1>2, <1>3, <2>1
  <2>2. CASE h \in handlers
    <3>1. EntryOf(h) \in connections[h.receiver] /\ h.receiver \in Receivers
      BY <1>1, <2>2 DEF DispatcherInv, CallbacksEntered, TypeOK, Handler
    <3> QED BY <1>3, <3>1
  <2> QED BY <1>1, <2>1, <2>2
<1> QED BY <1>4, <1>7, <1>8, <1>9, <1>10, <1>11 DEF DispatcherInv

\* unsubscribe(), unsubscribe_all() and ~BaseReceiver keep the invariant: they
\* disconnect and erase some entries of a receiver, the last one all of them.
LEMMA DisconnectInv ==
  ASSUME DispatcherInv, NEW r \in Receivers, NEW C, C \subseteq connections[r],
         r \notin destroyed,
         handlers' = Without({c.id : c \in connections[r] \ C}),
         connections' = [connections EXCEPT ![r] = C],
         destroyed' = destroyed \/ (destroyed' = destroyed \union {r} /\ C = {}),
         received' = received \/ received' = {},
         UNCHANGED <<live, made, stack, untracked>>
  PROVE  DispatcherInv'
<1>1. /\ handlers' \subseteq handlers
      /\ \A h \in handlers : h \in handlers' <=> \A c \in connections[r] \ C : c.id # h.id
  BY DEF Without
<1>2. /\ connections \in [Receivers -> SUBSET Entry]
      /\ connections'[r] = C
      /\ \A q \in Receivers : q # r => connections'[q] = connections[q]
  BY DEF DispatcherInv, TypeOK
<1>3. \A q \in Receivers : connections'[q] \subseteq connections[q]
  BY <1>2
<1>4. TypeOK'
  <2>1. connections' \in [Receivers -> SUBSET Entry]
    BY <1>2
  <2> QED BY <1>1, <2>1 DEF DispatcherInv, TypeOK
<1>5. IdsOwn' /\ Homes' /\ EntriesName'
  BY <1>1, <1>3 DEF DispatcherInv, IdsOwn, Homes, EntriesName
<1>6. EntriesMeet'
  <2> SUFFICES ASSUME NEW q \in Receivers \ destroyed, NEW c \in connections'[q],
                      Exists(live, stack, c.at, c.event)
               PROVE  \E h \in handlers' : h.id = c.id
    BY DEF EntriesMeet
  <2>1. PICK h \in handlers : h.id = c.id
    BY <1>3 DEF DispatcherInv, EntriesMeet
  <2>2. h.receiver = q /\ c = EntryOf(h)
    BY <1>3, <2>1 DEF DispatcherInv, EntriesName
  <2>3. ASSUME NEW b \in connections[r] \ C, b.id = h.id
        PROVE  FALSE
    <3>1. r = q /\ b = c
      BY <2>2, <2>3 DEF DispatcherInv, EntriesName
    <3> QED BY <1>2, <2>3, <3>1
  <2> QED BY <1>1, <2>1, <2>3
<1>7. CallbacksEntered'
  <2> SUFFICES ASSUME NEW h \in handlers', h.receiver \notin destroyed', h.id \notin untracked
               PROVE  EntryOf(h) \in connections'[h.receiver]
    BY DEF CallbacksEntered
  <2>1. /\ h \in handlers /\ h.receiver \in Receivers
        /\ EntryOf(h) \in connections[h.receiver]
    BY <1>1 DEF DispatcherInv, CallbacksEntered, TypeOK, Handler
  <2>2. EntryOf(h).id = h.id
    BY DEF EntryOf
  <2>3. h.receiver = r => EntryOf(h) \in C
    BY <1>1, <2>1, <2>2
  <2> QED BY <1>2, <2>1, <2>3
<1> QED BY <1>4, <1>5, <1>6, <1>7 DEF DispatcherInv

\* The end of a dispatcher, and of an emission, keeps the invariant: callbacks go
\* with their signals, and the entries that named them have expired.
LEMMA SignalsGo ==
  ASSUME DispatcherInv,
         live' \subseteq live, stack' \in Seq(Frame), handlers' = Kept(live', stack'),
         \A d, e : Exists(live', stack', d, e) => Exists(live, stack, d, e),
         UNCHANGED <<made, connections, destroyed, received, untracked>>
  PROVE  DispatcherInv'
<1>1. /\ handlers' \subseteq handlers
      /\ \A h \in handlers : h \in handlers' <=> Exists(live', stack', h.at, h.event)
  BY DEF Kept
<1>2. TypeOK'
  BY <1>1 DEF DispatcherInv, TypeOK
<1>3. IdsOwn' /\ EntriesName' /\ CallbacksEntered'
  BY <1>1 DEF DispatcherInv, IdsOwn, EntriesName, CallbacksEntered
<1>4. Homes'
  BY <1>1 DEF Homes
<1>5. EntriesMeet'
  <2> SUFFICES ASSUME NEW r \in Receivers \ destroyed, NEW c \in connections[r],
                      Exists(live', stack', c.at, c.event)
               PROVE  \E h \in handlers' : h.id = c.id
    BY DEF EntriesMeet
  <2>1. PICK h \in handlers : h.id = c.id
    BY DEF DispatcherInv, EntriesMeet
  <2>2. c = EntryOf(h)
    BY <2>1 DEF DispatcherInv, EntriesName
  <2>3. c.at = h.at /\ c.event = h.event
    BY <2>2 DEF EntryOf
  <2> QED BY <1>1, <2>1, <2>3
<1> QED BY <1>2, <1>3, <1>4, <1>5 DEF DispatcherInv

\* The steps within an emission keep the invariant: the signals that exist stay.
LEMMA FramesInv ==
  ASSUME DispatcherInv, stack' \in Seq(Frame), received' \subseteq Handler,
         \A d, e : Exists(live, stack', d, e) <=> Exists(live, stack, d, e),
         UNCHANGED <<live, handlers, made, connections, destroyed, untracked>>
  PROVE  DispatcherInv'
<1>1. TypeOK'
  BY DEF DispatcherInv, TypeOK
<1>2. IdsOwn' /\ EntriesName' /\ CallbacksEntered'
  BY DEF DispatcherInv, IdsOwn, EntriesName, CallbacksEntered
<1>3. Homes'
  BY DEF DispatcherInv, Homes
<1>4. EntriesMeet'
  BY DEF DispatcherInv, EntriesMeet
<1> QED BY <1>1, <1>2, <1>3, <1>4 DEF DispatcherInv

\* Every operation keeps the invariant.
LEMMA NextInv == DispatcherInv /\ [Next]_vars => DispatcherInv'
<1> SUFFICES ASSUME DispatcherInv, [Next]_vars PROVE DispatcherInv'
  OBVIOUS
<1>0. stack \in Seq(Frame) /\ handlers \subseteq Handler
  BY DEF DispatcherInv, TypeOK
<1>1. ASSUME NEW r \in Receivers, NEW d \in Dispatchers, NEW e \in Events, Subscribe(r, d, e)
      PROVE  DispatcherInv'
  BY <1>1, SubscribeInv
<1>2. ASSUME NEW r \in Receivers, NEW e \in Events, Unsubscribe(r, e) PROVE DispatcherInv'
  <2> PICK C : C = EntryErased(r, e)
    OBVIOUS
  <2>1. C \subseteq connections[r]
    BY DEF EntryErased
  <2> QED BY <1>2, <2>1, DisconnectInv DEF Unsubscribe
<1>3. ASSUME NEW r \in Receivers, UnsubscribeAll(r) PROVE DispatcherInv'
  <2> PICK C : C = {}
    OBVIOUS
  <2>1. C \subseteq connections[r] /\ connections[r] \ C = connections[r]
    OBVIOUS
  <2> QED BY <1>3, <2>1, DisconnectInv DEF UnsubscribeAll
<1>4. ASSUME NEW r \in Receivers, DestroyReceiver(r) PROVE DispatcherInv'
  <2> PICK C : C = {}
    OBVIOUS
  <2>1. C \subseteq connections[r] /\ connections[r] \ C = connections[r]
    OBVIOUS
  <2> QED BY <1>4, <2>1, DisconnectInv DEF DestroyReceiver
<1>5. ASSUME NEW d \in Dispatchers, DestroyDispatcher(d) PROVE DispatcherInv'
  <2>1. \A b, e : Exists(live', stack', b, e) => Exists(live, stack, b, e)
    BY <1>5 DEF DestroyDispatcher, Exists
  <2> QED BY <1>0, <1>5, <2>1, SignalsGo DEF DestroyDispatcher
<1>6. ASSUME NEW d \in Dispatchers, NEW e \in Events, EmitStart(d, e) PROVE DispatcherInv'
  <2> PICK f : f = [event |-> e, at |-> d, last |-> 0]
    OBVIOUS
  <2>1. f \in Frame /\ f.at = d /\ f.event = e
    BY DEF Frame
  <2>2. /\ stack' = Append(stack, f) /\ d \in live
        /\ UNCHANGED <<live, handlers, made, connections, destroyed, received, untracked>>
    BY <1>6 DEF EmitStart
  <2>3. stack' \in Seq(Frame) /\ received' \subseteq Handler
    BY <1>0, <2>1, <2>2 DEF DispatcherInv, TypeOK
  <2>4. DOMAIN stack' = 1 .. (Len(stack) + 1) /\ stack'[Len(stack) + 1] = f
    BY <1>0, <2>1, <2>2
  <2>5. \A k \in DOMAIN stack : k \in DOMAIN stack' /\ stack'[k] = stack[k]
    BY <1>0, <2>1, <2>2
  <2>6. \A k \in DOMAIN stack' : k \in DOMAIN stack \/ k = Len(stack) + 1
    BY <1>0, <2>4
  <2>7. \A b, g : Exists(live, stack', b, g) <=> Exists(live, stack, b, g)
    BY <2>1, <2>2, <2>4, <2>5, <2>6 DEF Exists
  <2> QED BY <2>2, <2>3, <2>7, FramesInv
<1>7. ASSUME NEW h \in handlers, EmitCall(h) PROVE DispatcherInv'
  <2>1. /\ stack # <<>> /\ stack' = [stack EXCEPT ![Len(stack)].last = h.id]
        /\ received' = {h} /\ h \in Handler /\ h.id \in Nat
        /\ UNCHANGED <<live, handlers, made, connections, destroyed, untracked>>
    BY <1>0, <1>7 DEF EmitCall, Handler
  <2>2. Len(stack) \in DOMAIN stack /\ \A k \in DOMAIN stack : stack[k] \in Frame
    BY <1>0, <2>1
  <2>3. [stack[Len(stack)] EXCEPT !.last = h.id] \in Frame
    BY <2>1, <2>2 DEF Frame
  <2>4. stack' \in Seq(Frame)
    BY <1>0, <2>1, <2>2, <2>3
  <2>5. DOMAIN stack' = DOMAIN stack
    BY <2>1
  <2>6. \A k \in DOMAIN stack : stack'[k].at = stack[k].at /\ stack'[k].event = stack[k].event
    BY <2>1, <2>2 DEF Frame
  <2>7. \A b, g : Exists(live, stack', b, g) <=> Exists(live, stack, b, g)
    BY <2>5, <2>6 DEF Exists
  <2> QED BY <2>1, <2>4, <2>7, FramesInv
<1>8. CASE EmitEnd
  <2>1. /\ stack # <<>> /\ stack' = SubSeq(stack, 1, Len(stack) - 1)
        /\ handlers' = Kept(live, stack')
        /\ UNCHANGED <<live, made, connections, destroyed, received, untracked>>
    BY <1>8 DEF EmitEnd, Popped
  <2>2. /\ stack' \in Seq(Frame)
        /\ \A k \in DOMAIN stack' : k \in DOMAIN stack /\ stack'[k] = stack[k]
    BY <1>0, <2>1
  <2>3. \A b, e : Exists(live', stack', b, e) => Exists(live, stack, b, e)
    BY <2>1, <2>2 DEF Exists
  <2> QED BY <2>1, <2>2, <2>3, SignalsGo
<1>9. CASE UNCHANGED vars
  <2>1. UNCHANGED <<live, handlers, made, connections, destroyed, stack, received, untracked>>
    BY <1>9 DEF vars
  <2>2. received' \subseteq Handler
    BY <2>1 DEF DispatcherInv, TypeOK
  <2> QED BY <1>0, <2>1, <2>2, FramesInv
<1> QED BY <1>1, <1>2, <1>3, <1>4, <1>5, <1>6, <1>7, <1>8, <1>9 DEF Next

\* The invariant holds in every state.
LEMMA InvHolds == Spec => []DispatcherInv
BY InitInv, NextInv, PTL DEF Spec

-----------------------------------------------------------------------------
\* The entries in connections_ of a receiver that lead to a signal are its callbacks
\* there; the callbacks made while there was an entry for the event have none.
THEOREM EntriesExactHolds == Spec => []EntriesExact
<1>1. DispatcherInv => EntriesExact
  <2> SUFFICES ASSUME DispatcherInv, NEW r \in Receivers \ destroyed, NEW c
               PROVE  /\ c \in connections[r] /\ Exists(live, stack, c.at, c.event)
                           => \E h \in handlers : /\ h.receiver = r /\ h.id \notin untracked
                                                  /\ c = EntryOf(h)
                      /\ \A h \in handlers :
                           h.receiver = r /\ h.id \notin untracked /\ c = EntryOf(h)
                             => c \in connections[r] /\ Exists(live, stack, c.at, c.event)
    BY DEF EntriesExact
  <2>1. ASSUME c \in connections[r], Exists(live, stack, c.at, c.event)
        PROVE  \E h \in handlers : /\ h.receiver = r /\ h.id \notin untracked
                                   /\ c = EntryOf(h)
    <3>1. PICK h \in handlers : h.id = c.id
      BY <2>1 DEF DispatcherInv, EntriesMeet
    <3> QED BY <2>1, <3>1 DEF DispatcherInv, EntriesName, IdsOwn
  <2>2. ASSUME NEW h \in handlers, h.receiver = r, h.id \notin untracked, c = EntryOf(h)
        PROVE  c \in connections[r] /\ Exists(live, stack, c.at, c.event)
    <3>1. c.at = h.at /\ c.event = h.event
      BY <2>2 DEF EntryOf
    <3>2. c \in connections[r]
      BY <2>2 DEF DispatcherInv, CallbacksEntered
    <3> QED BY <3>1, <3>2 DEF DispatcherInv, Homes
  <2> QED BY <2>1, <2>2
<1> QED BY <1>1, InvHolds, PTL

\* A callback that subscribe() did not enter stays connected as long as its signal is
\* there: no unsubscribe and no destruction of its receiver reaches it.
THEOREM UntrackedStayHolds == Spec => UntrackedStay
<1>1. DispatcherInv /\ [Next]_vars =>
        [\A h \in handlers : h.id \in untracked /\ Exists(live', stack', h.at, h.event)
                               => h \in handlers']_vars
  <2> SUFFICES ASSUME DispatcherInv, Next,
                      NEW h \in handlers, h.id \in untracked,
                      Exists(live', stack', h.at, h.event)
               PROVE  h \in handlers'
    OBVIOUS
  <2>1. \A r \in Receivers : \A c \in connections[r] : c.id # h.id
    BY DEF DispatcherInv, IdsOwn
  <2>2. CASE \E r \in Receivers, d \in Dispatchers, e \in Events : Subscribe(r, d, e)
    BY <2>2 DEF Subscribe
  <2>3. ASSUME NEW r \in Receivers, NEW e \in Events, Unsubscribe(r, e) PROVE h \in handlers'
    BY <2>1, <2>3 DEF Unsubscribe, Without, EntryErased
  <2>4. ASSUME NEW r \in Receivers, UnsubscribeAll(r) PROVE h \in handlers'
    BY <2>1, <2>4 DEF UnsubscribeAll, Without
  <2>5. ASSUME NEW r \in Receivers, DestroyReceiver(r) PROVE h \in handlers'
    BY <2>1, <2>5 DEF DestroyReceiver, Without
  <2>6. CASE \E d \in Dispatchers : DestroyDispatcher(d)
    BY <2>6 DEF DestroyDispatcher, Kept
  <2>7. CASE \E d \in Dispatchers, e \in Events : EmitStart(d, e)
    BY <2>7 DEF EmitStart
  <2>8. CASE \E g \in handlers : EmitCall(g)
    BY <2>8 DEF EmitCall
  <2>9. CASE EmitEnd
    BY <2>9 DEF EmitEnd, Kept
  <2> QED BY <2>2, <2>3, <2>4, <2>5, <2>6, <2>7, <2>8, <2>9 DEF Next
<1> QED BY <1>1, InvHolds, PTL DEF Spec, UntrackedStay

=============================================================================
