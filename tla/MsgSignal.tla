------------------------------- MODULE MsgSignal --------------------------------
(***************************************************************************)
(* The callback list behind events: detail::ProtoSignal, a doubly linked   *)
(* ring of reference counted links (network/msgbus/msg_signal.hpp).        *)
(*                                                                         *)
(* An emission is a frame of `stack' that walks the ring.  While a         *)
(* callback runs (phase "calling") its code may connect and disconnect     *)
(* callbacks and emit again; otherwise these are made between emissions.   *)
(* Freed links keep their names, so that a step to one is seen; what a     *)
(* program does after that is undefined.                                   *)
(***************************************************************************)
EXTENDS Integers, Sequences, FiniteSets

CONSTANTS
    Ring,      \* callback_ring_
    Links,     \* the other links, one for each connect
    MaxDepth,  \* bound: emissions within emissions
    Removal,   \* what callbacks disconnect: "any" link, or only them"self" (and
               \* not from within a nested emission)
    MaxRefs    \* bound: references of a link that size() adds to

ASSUME SignalAssumption ==
    /\ Ring \notin Links
    /\ MaxDepth \in Nat
    /\ Removal \in {"any", "self"}
    /\ MaxRefs \in Nat

Nodes == Links \union {Ring}

VARIABLES
    state,   \* "live", "destroyed", "undefined" after a step to a freed link,
             \* "null" after the use of a callback_ring_ that is null
    alive,   \* the links that are allocated
    unused,  \* the links not yet allocated
    next, prev, ref,   \* the fields of the links
    fn,      \* the links whose function is set
    stack,   \* the emissions that are going on, the innermost last
    leaked   \* history: the references of each link that size() and empty() kept

vars == <<state, alive, unused, next, prev, ref, fn, stack, leaked>>

\* at: the link; start: the callbacks when it began; called: those it invoked.
Frame == [at : Nodes, phase : {"visit", "calling", "advance"},
          start : SUBSET Links, called : Seq(Links)]

TypeOK ==
    /\ state \in {"live", "destroyed", "undefined", "null"}
    /\ alive \subseteq Nodes /\ unused \subseteq Links /\ fn \subseteq Links
    /\ next \in [Nodes -> Nodes] /\ prev \in [Nodes -> Nodes]
    /\ ref \in [Nodes -> Nat] /\ leaked \in [Nodes -> Nat]
    /\ stack \in Seq(Frame)

\* Without a default callback (a function of the head): no signal here is given one.
Init ==
    /\ state = "live"
    /\ alive = {} /\ unused = Links /\ fn = {}
    /\ next = [n \in Nodes |-> n] /\ prev = [n \in Nodes |-> n]
    /\ ref = [n \in Nodes |-> 0] /\ leaked = [n \in Nodes |-> 0]
    /\ stack = <<>>

-----------------------------------------------------------------------------
Top == stack[Len(stack)]

\* User code runs between emissions and in callbacks.
UserCode == state = "live" /\ (stack # <<>> => Top.phase = "calling")

\* What is allocated when the counts are r: decref deletes at 0.
Counted(r) == {n \in alive : r[n] > 0}

\* connect: ensure_ring and add_before.
Connect(n) ==
    /\ UserCode
    /\ n \in unused
    /\ unused' = unused \ {n}
    /\ alive' = alive \union {Ring, n}
    /\ ref' = [ref EXCEPT ![Ring] = IF Ring \in alive THEN @ ELSE 2, ![n] = 1]
    /\ next' = [next EXCEPT ![n] = Ring, ![prev[Ring]] = n]
    /\ prev' = [prev EXCEPT ![n] = prev[Ring], ![Ring] = n]
    /\ fn' = fn \union {n}
    /\ UNCHANGED <<state, stack, leaked>>

MayRemove(n) ==
    stack # <<>> => Removal = "any" \/ (Len(stack) = 1 /\ Top.at = n)

\* Mutant: the previous link is not told.
UnlinkHalf(n) ==
    /\ fn' = fn \ {n}
    /\ prev' = [prev EXCEPT ![next[n]] = prev[n]]
    /\ next' = next
    /\ ref' = [ref EXCEPT ![n] = @ - 1]

\* unlink: next and prev of the link stay, for the emissions that are at it.
Unlink(n) ==
    /\ fn' = fn \ {n}
    /\ prev' = [prev EXCEPT ![next[n]] = prev[n]]
    /\ next' = [next EXCEPT ![prev[n]] = next[n]]
    /\ ref' = [ref EXCEPT ![n] = @ - 1]

\* disconnect: remove_sibling finds the links that are in the ring.
Disconnect(n) ==
    /\ UserCode
    /\ n \in fn
    /\ MayRemove(n)
    /\ Unlink(n)
    /\ alive' = Counted(ref')
    /\ UNCHANGED <<state, unused, stack, leaked>>

\* size and empty use callback_ring_ even before the first connect.
QueryNull ==
    /\ UserCode
    /\ Ring \notin alive
    /\ state' = "null"
    /\ UNCHANGED <<alive, unused, next, prev, ref, fn, stack, leaked>>

\* The reference that a walk of the ring took last is not given back.
Query(n) ==
    /\ UserCode
    /\ Ring \in alive
    /\ ref[n] < MaxRefs
    /\ ref' = [ref EXCEPT ![n] = @ + 1]
    /\ leaked' = [leaked EXCEPT ![n] = @ + 1]
    /\ UNCHANGED <<state, alive, unused, next, prev, fn, stack>>

\* size walks to the end, empty to the first callback.
Size == Query(Ring)
Empty == Query(IF fn = {} THEN Ring ELSE next[Ring])

\* ~ProtoSignal.
Destroy ==
    /\ state = "live" /\ stack = <<>>
    /\ state' = "destroyed"
    /\ ref' = [n \in Nodes |-> IF n \in fn THEN ref[n] - 1
                               ELSE IF n = Ring /\ n \in alive THEN ref[n] - 2
                               ELSE ref[n]]
    /\ fn' = {}
    /\ alive' = Counted(ref')
    /\ UNCHANGED <<unused, next, prev, stack, leaked>>

-----------------------------------------------------------------------------
(* emit *)

SetTop(f) == [stack EXCEPT ![Len(stack)] = f]
Popped == SubSeq(stack, 1, Len(stack) - 1)

EmitStart ==
    /\ UserCode
    /\ Ring \in alive
    /\ Len(stack) < MaxDepth
    /\ ref' = [ref EXCEPT ![Ring] = @ + 1]
    /\ stack' = Append(stack, [at |-> Ring, phase |-> "visit", start |-> fn,
                               called |-> <<>>])
    /\ UNCHANGED <<state, alive, unused, next, prev, fn, leaked>>

EmitVisit ==
    /\ state = "live" /\ stack # <<>>
    /\ Top.phase = "visit"
    /\ stack' = IF Top.at \in fn
                THEN SetTop([Top EXCEPT !.phase = "calling",
                                        !.called = Append(@, Top.at)])
                ELSE SetTop([Top EXCEPT !.phase = "advance"])
    /\ UNCHANGED <<state, alive, unused, next, prev, ref, fn, leaked>>

\* The callback returns; the collector goes on ...
EmitReturn ==
    /\ state = "live" /\ stack # <<>>
    /\ Top.phase = "calling"
    /\ stack' = SetTop([Top EXCEPT !.phase = "advance"])
    /\ UNCHANGED <<state, alive, unused, next, prev, ref, fn, leaked>>

\* ... or ends the emission.
EmitBreak ==
    /\ state = "live" /\ stack # <<>>
    /\ Top.phase = "calling"
    /\ ref' = [ref EXCEPT ![Top.at] = @ - 1]
    /\ alive' = Counted(ref')
    /\ stack' = Popped
    /\ UNCHANGED <<state, unused, next, prev, fn, leaked>>

\* Mutant: the old link is not released.
Forgotten(old) == ref

\* Mutant: the walk skips a link.
SkipNext(old) == next[next[old]]

NextOf(old) == next[old]

Released(old) == [ref EXCEPT ![old] = @ - 1]

\* The next link is referenced, then the old one released.  Back at the head the
\* emission ends.
EmitAdvance ==
    /\ state = "live" /\ stack # <<>>
    /\ Top.phase = "advance"
    /\ LET old == Top.at
           new == NextOf(Top.at) IN
       IF new \notin alive
       THEN /\ state' = "undefined"
            /\ UNCHANGED <<alive, ref, stack>>
       ELSE /\ ref' = IF new = Ring THEN Released(old)
                      ELSE [Released(old) EXCEPT ![new] = @ + 1]
            /\ alive' = Counted(ref')
            /\ stack' = IF new = Ring THEN Popped
                        ELSE SetTop([Top EXCEPT !.at = new, !.phase = "visit"])
            /\ UNCHANGED state
    /\ UNCHANGED <<unused, next, prev, fn, leaked>>

-----------------------------------------------------------------------------
Next ==
    \/ \E n \in Links : Connect(n) \/ Disconnect(n)
    \/ QueryNull \/ Size \/ Empty \/ Destroy
    \/ EmitStart \/ EmitVisit \/ EmitReturn \/ EmitBreak \/ EmitAdvance

Spec == Init /\ [][Next]_vars

-----------------------------------------------------------------------------
(* Properties *)

\* "The signal implementation is safe against recursion, so callbacks may be removed
\* and added during a signal emission and recursive emit() calls are also safe": an
\* emission never steps to a link that has been freed.
SafeAgainstRecursion == state # "undefined"

\* The references of a link are those of the ring, of the emissions that are at it
\* and of the calls of size() and empty() that stopped at it: nothing is freed too
\* early, and nothing else is kept.
Watchers(n) == Cardinality({i \in DOMAIN stack : stack[i].at = n})
RefsExact ==
    state = "live" =>
        \A n \in Nodes :
            ref[n] = leaked[n] + Watchers(n) + (IF n \in fn THEN 1
                                    ELSE IF n = Ring /\ n \in alive THEN 2 ELSE 0)

\* Among the callbacks and the head next and prev are inverse to each other, and only
\* an empty ring leads back to itself, whatever was removed in the middle of an emission.
RingSound ==
    state = "live" =>
        \A n \in fn \union {Ring} :
            /\ next[n] \in fn \union {Ring} /\ prev[next[n]] = n
            /\ fn # {} => next[n] # n

\* An emission that runs to its end has called every callback that was connected
\* all the while, and none twice.
EmissionComplete ==
    \A k \in DOMAIN stack :
        LET f == stack[k] IN
        /\ \A i, j \in DOMAIN f.called : f.called[i] = f.called[j] => i = j
        /\ f.phase = "advance" /\ next[f.at] = Ring =>
              \A n \in f.start \intersect fn : \E i \in DOMAIN f.called : f.called[i] = n

=============================================================================
